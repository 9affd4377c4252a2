--------------------------- MODULE PreemptOffload ---------------------------
(***************************************************************************)
(* CPU preservation of the KV blocks of preempted requests.                *)
(*                                                                         *)
(* Three parties: the scheduler process (RecomputeScheduler calling the    *)
(* PreemptOffloadScheduler manager), the workers (PreemptOffloadWorker)    *)
(* and the two external block pools of vLLM (GPU and CPU).  A scheduling   *)
(* pass is a series of Grow / Admit / Preempt / Resume actions closed by   *)
(* BuildConnectorMeta, which sends one step to every worker.  Workers      *)
(* execute their steps in order, at their own pace; their reports reach    *)
(* the manager one by one.                                                 *)
(*                                                                         *)
(* Blocks[r] is the content request r computes, one entry per KV block     *)
(* over all its cache groups.  An entry in Hashed is a full block with a   *)
(* prefix hash; any other entry is private to r (a partial last block).    *)
(* Token counts are counted in blocks.                                     *)
(***************************************************************************)
EXTENDS Integers, Sequences, FiniteSets

CONSTANTS
    Req,            \* request ids
    Gpu,            \* GPU block ids, the null block left out
    NumCpu,         \* usable CPU blocks: num_cpu_blocks without null block 0
    Worker,         \* ranks; world_size = Cardinality(Worker)
    Content,        \* what one KV block can hold
    Hashed,         \* contents of full, hashed blocks
    Junk,           \* content of a block nobody has written
    NoHash,         \* block_hash is None
    Blocks,         \* [Req -> Seq(Content)]
    PrefixCaching,  \* enable_offload_prefix_caching
    MaxPreempt,     \* bound: offload states created in a behaviour
    MaxInFlight     \* bound: scheduled steps a worker has not executed

Cpu == 1 .. NumCpu
NoBlock == 0        \* CPU block 0 is the pool's null block
NoEvent == -1       \* INVALID_JOB_ID
Event == 0 .. (MaxPreempt - 1)

ASSUME PoolAssumption == NumCpu \in Nat \ {0} /\ PrefixCaching \in BOOLEAN
ASSUME BoundAssumption == MaxPreempt \in Nat \ {0} /\ MaxInFlight \in Nat \ {0}
ASSUME SetAssumption == IsFiniteSet(Req) /\ IsFiniteSet(Worker) /\ Worker # {}
ASSUME ContentAssumption ==
    /\ Hashed \subseteq Content /\ Junk \notin Content /\ NoHash \notin Content
    /\ Blocks \in [Req -> Seq(Content) \ {<<>>}]
    \* Prefix hashes are chained: one request has a content at one position.
    /\ \A r \in Req : \A i, j \in DOMAIN Blocks[r] :
          Blocks[r][i] = Blocks[r][j] => i = j

VARIABLES
    \* external: vLLM's Scheduler and GPU BlockPool
    status,      \* [Req -> Status]
    table,       \* [Req -> Seq(Gpu)], the request's block table
    computed,    \* [Req -> Nat], num_computed_tokens
    grown,       \* requests given a new block by the current pass
    pass,        \* where the scheduling pass is, "idle" between two passes
    gref,        \* [Gpu -> Nat], ref_cnt
    glabel,      \* [Gpu -> Hashed \cup {NoHash}], block_hash
    \* external: the CPU BlockPool
    ref, bhash,  \* per CPU block: ref_cnt and block_hash
    cached,      \* cached_block_hash_to_block
    older,       \* order of the free queue: <<b, c>> when b leaves before c
    \* PreemptOffloadScheduler
    st,          \* _preempted_req_states
    pending,     \* _pending_hash_blocks
    storeCtr, loadCtr,
    evBlocks, evReqs,  \* _preempt_store_event_to_blocks and _to_reqs
    counts,      \* _store_event_pending_counts
    born,        \* states created so far: insertion order of st
    \* workers and the executor's output aggregator
    inbox, cdata, gdata, reports, recvSeen

schedVars == <<status, table, computed, grown, pass>>
gpuVars == <<gref, glabel>>
poolVars == <<ref, bhash, cached, older>>
mgrVars == <<st, pending, storeCtr, loadCtr, evBlocks, evReqs, counts, born>>
wrkVars == <<inbox, cdata, gdata, reports, recvSeen>>
vars == <<schedVars, gpuVars, poolVars, mgrVars, wrkVars>>

\* A pass serves the running requests, then, unless it had to evict one of
\* them, the waiting ones.
Pass == {"idle", "running", "evicted", "waiting"}
Status == {"new", "running", "preempted", "loading", "aborting", "done"}

\* PreemptedRequestState; live = FALSE stands for "not in the dictionary".
NoState == [live |-> FALSE, born |-> 0, cpu |-> <<>>, store |-> {},
            sev |-> NoEvent, lev |-> NoEvent, load |-> {},
            ready |-> FALSE, finished |-> FALSE]

StateType == [live : BOOLEAN, born : Nat, cpu : Seq(Cpu),
              store : SUBSET (Gpu \X Cpu), sev : Event \cup {NoEvent},
              lev : Nat \cup {NoEvent}, load : SUBSET (Cpu \X Gpu),
              ready : BOOLEAN, finished : BOOLEAN]

\* PreemptOffloadMetadata and the blocks the model forward of the step writes.
StepType == [sev : Event \cup {NoEvent}, store : SUBSET (Gpu \X Cpu),
             load : SUBSET (Cpu \X Gpu), lreqs : SUBSET Req,
             writes : SUBSET (Gpu \X Content)]

ReportType == [sev : Event \cup {NoEvent}, recv : SUBSET Req]

Init ==
    /\ status = [r \in Req |-> "new"]
    /\ table = [r \in Req |-> <<>>]
    /\ computed = [r \in Req |-> 0]
    /\ grown = {} /\ pass = "idle"
    /\ gref = [g \in Gpu |-> 0]
    /\ glabel = [g \in Gpu |-> NoHash]
    /\ ref = [c \in Cpu |-> 0]
    /\ bhash = [c \in Cpu |-> NoHash]
    /\ cached = [h \in Hashed |-> NoBlock]
    /\ older = {p \in Cpu \X Cpu : p[1] < p[2]}
    /\ st = [r \in Req |-> NoState]
    /\ pending = [h \in Hashed |-> NoBlock]
    /\ storeCtr = 0 /\ loadCtr = 0 /\ born = 0
    /\ evBlocks = [e \in Event |-> {}]
    /\ evReqs = [e \in Event |-> {}]
    /\ counts = [e \in Event |-> 0]
    /\ inbox = [w \in Worker |-> <<>>]
    /\ cdata = [w \in Worker |-> [c \in Cpu |-> Junk]]
    /\ gdata = [w \in Worker |-> [g \in Gpu |-> Junk]]
    /\ reports = [w \in Worker |-> <<>>]
    /\ recvSeen = [r \in Req |-> {}]

-----------------------------------------------------------------------------
(* Block pools *)

FreeGpu == {g \in Gpu : gref[g] = 0}
FreeCpu == {c \in Cpu : ref[c] = 0}
TableOf(r) == {table[r][i] : i \in DOMAIN table[r]}
LoadTargets(r) == {p[2] : p \in st[r].load}

\* Position of a free CPU block in the free queue, from 0.
Rank(c) == Cardinality({b \in FreeCpu : <<b, c>> \in older})

\* What get_new_blocks(n) returns: the n blocks at the head of the queue.
NewBlocks(n) == {f \in [1 .. n -> FreeCpu] : \A k \in 1 .. n : Rank(f[k]) = k - 1}

\* Places where the states in R name the CPU block c, and how many there are.
UsesOf(R, c) == UNION {{r} \X {i \in DOMAIN st[r].cpu : st[r].cpu[i] = c} : r \in R}

Untouch(R) == [c \in Cpu |-> ref[c] - Cardinality(UsesOf(R, c))]

\* When the states in R are released in the order ord, the place of c reached last.
LetGoAt(R, ord, c) ==
    LET moments == {<<ord[u[1]], u[2]>> : u \in UsesOf(R, c)}
    IN CHOOSE m \in moments : \A k \in moments : k[1] < m[1] \/ (k[1] = m[1] /\ k[2] <= m[2])

\* free_blocks: a block whose count drops to 0 goes to the tail of the queue
\* and keeps its hash.
FreeBlocks(R, ord) ==
    LET freed == {c \in Cpu : ref[c] > 0 /\ Untouch(R)[c] = 0}
        Before(b, c) == LET x == LetGoAt(R, ord, b)  y == LetGoAt(R, ord, c)
                        IN x[1] < y[1] \/ (x[1] = y[1] /\ x[2] < y[2])
    IN /\ ref' = Untouch(R)
       /\ older' = older \cup (FreeCpu \X freed)
                         \cup {p \in freed \X freed : Before(p[1], p[2])}

\* Dictionary order of the states.
BirthOrder == [r \in Req |-> st[r].born]

\* _cleanup_preempt_cache_request for every state in R.
DropStates(R) == [r \in Req |-> IF r \in R THEN NoState ELSE st[r]]

-----------------------------------------------------------------------------
(* The scheduling pass *)

Hash(r, i) ==
    IF PrefixCaching /\ Blocks[r][i] \in Hashed THEN Blocks[r][i] ELSE NoHash

\* Mutant: counts the blocks of the table, computed or not.
MissingInTable(r) == 1 .. Len(table[r])

\* First pass of _create_preempt_state: the blocks counted as needing a new
\* CPU block.
Missing(r) ==
    {i \in 1 .. computed[r] :
        Hash(r, i) = NoHash
        \/ (cached[Hash(r, i)] = NoBlock /\ pending[Hash(r, i)] = NoBlock)}

Taken(new) == {new[k] : k \in DOMAIN new}

\* Mutant: a taken block keeps its entry in the cache.
CachedForever(new, h) == cached[h]

\* The cache after get_new_blocks evicted the hashes of the blocks it took.
CachedAfter(new, h) == IF cached[h] \in Taken(new) THEN NoBlock ELSE cached[h]

HashAfter(new, c) ==
    IF c \in Taken(new) /\ bhash[c] # NoHash /\ cached[bhash[c]] = c
    THEN NoHash ELSE bhash[c]

\* Second pass: the blocks that ask the iterator for a CPU block, ...
Fresh(r, new) ==
    {i \in 1 .. computed[r] :
        Hash(r, i) = NoHash
        \/ (CachedAfter(new, Hash(r, i)) = NoBlock /\ pending[Hash(r, i)] = NoBlock)}

Turn(r, new, i) == Cardinality({j \in Fresh(r, new) : j <= i})

\* ... those it serves before the iterator runs out, ...
Served(r, new) ==
    {i \in 1 .. computed[r] : Turn(r, new, i) <= Cardinality(Missing(r))}

\* ... and the CPU block each of them gets.
CpuFor(r, new, i) ==
    IF i \in Fresh(r, new) THEN new[Turn(r, new, i)]
    ELSE IF CachedAfter(new, Hash(r, i)) # NoBlock THEN CachedAfter(new, Hash(r, i))
    ELSE pending[Hash(r, i)]

FreshHashed(r, new) ==
    {i \in Served(r, new) \cap Fresh(r, new) : Hash(r, i) # NoHash}

\* Mutant: a block found by hash is shared without touch().
TakeUntouched(r, new) ==
    LET marks == {<<Hash(r, i), CpuFor(r, new, i)>> : i \in FreshHashed(r, new)}
    IN /\ ref' = [c \in Cpu |-> IF c \in Taken(new) THEN 1 ELSE ref[c]]
       /\ older' = {p \in older : ref'[p[1]] = 0 /\ ref'[p[2]] = 0}
       /\ cached' = [h \in Hashed |-> CachedAfter(new, h)]
       /\ bhash' = [c \in Cpu |-> IF \E m \in marks : m[2] = c
                                  THEN (CHOOSE m \in marks : m[2] = c)[1]
                                  ELSE HashAfter(new, c)]
       /\ pending' = [h \in Hashed |-> IF \E m \in marks : m[1] = h
                                       THEN (CHOOSE m \in marks : m[1] = h)[2]
                                       ELSE pending[h]]

\* Effect of _create_preempt_state on the CPU pool and on pending hashes.
TakeCpuBlocks(r, new) ==
    LET touched(c) == {i \in Served(r, new) \ Fresh(r, new) : CpuFor(r, new, i) = c}
        marks == {<<Hash(r, i), CpuFor(r, new, i)>> : i \in FreshHashed(r, new)}
    IN /\ ref' = [c \in Cpu |-> (IF c \in Taken(new) THEN 1 ELSE ref[c])
                                + Cardinality(touched(c))]
       /\ older' = {p \in older : ref'[p[1]] = 0 /\ ref'[p[2]] = 0}
       /\ cached' = [h \in Hashed |-> CachedAfter(new, h)]
       /\ bhash' = [c \in Cpu |-> IF \E m \in marks : m[2] = c
                                  THEN (CHOOSE m \in marks : m[2] = c)[1]
                                  ELSE HashAfter(new, c)]
       /\ pending' = [h \in Hashed |-> IF \E m \in marks : m[1] = h
                                       THEN (CHOOSE m \in marks : m[1] = h)[2]
                                       ELSE pending[h]]

\* Mutant: a state that only waits for another request's store is ready at once.
NewStateEager(r, new) ==
    [NoState EXCEPT
        !.live = TRUE,
        !.born = born,
        !.cpu = [i \in 1 .. computed[r] |-> CpuFor(r, new, i)],
        !.store = {<<table[r][i], CpuFor(r, new, i)>> : i \in Fresh(r, new)},
        !.ready = Fresh(r, new) = {}]

NewState(r, new) ==
    [NoState EXCEPT
        !.live = TRUE,
        !.born = born,
        !.cpu = [i \in 1 .. computed[r] |-> CpuFor(r, new, i)],
        !.store = {<<table[r][i], CpuFor(r, new, i)>> : i \in Fresh(r, new)},
        !.ready = \A i \in 1 .. computed[r] :
                     i \notin Fresh(r, new)
                     /\ CachedAfter(new, Hash(r, i)) # NoBlock]

\* The victim's GPU blocks go back to the pool as soon as it is preempted.
ReleaseTable(r) ==
    /\ gref' = [g \in Gpu |-> IF g \in TableOf(r) THEN gref[g] - 1 ELSE gref[g]]
    /\ table' = [table EXCEPT ![r] = <<>>]
    /\ computed' = [computed EXCEPT ![r] = 0]

Wants(r) == /\ status[r] = "running" /\ r \notin grown
            /\ Len(table[r]) = computed[r] /\ computed[r] < Len(Blocks[r])

\* allocate_slots succeeds for a running request.
Grow(r) ==
    /\ Wants(r) /\ pass # "waiting"
    /\ \E g \in FreeGpu :
          /\ table' = [table EXCEPT ![r] = Append(@, g)]
          /\ gref' = [gref EXCEPT ![g] = 1]
          /\ glabel' = [glabel EXCEPT ![g] = NoHash]
    /\ grown' = grown \cup {r}
    /\ pass' = IF pass = "idle" THEN "running" ELSE pass
    /\ UNCHANGED <<status, computed, poolVars, mgrVars, wrkVars>>

\* A waiting request never seen before gets its first block.
Admit(r) ==
    /\ status[r] = "new" /\ pass # "evicted"
    /\ \E g \in FreeGpu :
          /\ table' = [table EXCEPT ![r] = <<g>>]
          /\ gref' = [gref EXCEPT ![g] = 1]
          /\ glabel' = [glabel EXCEPT ![g] = NoHash]
    /\ status' = [status EXCEPT ![r] = "running"]
    /\ grown' = grown \cup {r}
    /\ pass' = "waiting"
    /\ UNCHANGED <<computed, poolVars, mgrVars, wrkVars>>

\* allocate_slots failed for some running request, and v is the victim: the
\* last running one, or the one of lowest priority, scheduled in this pass or not.
Victim(v) ==
    /\ pass # "waiting" /\ FreeGpu = {} /\ \E r \in Req : Wants(r)
    /\ status[v] = "running"
    /\ grown' = grown \ {v}
    /\ pass' = "evicted"

\* update_state_before_preempt returned False or raised: the request leaves
\* for the prefill node and its blocks are freed.
ReturnToPrefill(v) ==
    /\ status' = [status EXCEPT ![v] = "done"]
    /\ ReleaseTable(v)

\* update_state_before_preempt returned True.
PreemptOffloaded(v) ==
    /\ Victim(v) /\ ~st[v].live /\ computed[v] > 0 /\ born < MaxPreempt
    /\ \E new \in NewBlocks(Cardinality(Missing(v))) :
          /\ Served(v, new) = 1 .. computed[v]
          /\ TakeCpuBlocks(v, new)
          /\ st' = [st EXCEPT ![v] = NewState(v, new)]
    /\ born' = born + 1
    /\ status' = [status EXCEPT ![v] = "preempted"]
    /\ ReleaseTable(v)
    /\ UNCHANGED <<glabel, storeCtr, loadCtr, evBlocks, evReqs, counts, wrkVars>>

\* No computed token, or fewer free CPU blocks than the first pass counted.
PreemptSkipped(v) ==
    /\ Victim(v) /\ ~st[v].live
    /\ computed[v] = 0 \/ Cardinality(Missing(v)) > Cardinality(FreeCpu)
    /\ ReturnToPrefill(v)
    /\ UNCHANGED <<glabel, poolVars, mgrVars, wrkVars>>

\* next(cpu_block_iter) raises StopIteration in the second pass: get_new_blocks
\* evicted a hash the first pass had counted as present.  The scheduler
\* catches the exception; what the manager already did stays.
PreemptRaised(v) ==
    /\ Victim(v) /\ ~st[v].live /\ computed[v] > 0 /\ born < MaxPreempt
    /\ \E new \in NewBlocks(Cardinality(Missing(v))) :
          /\ Served(v, new) # 1 .. computed[v]
          /\ TakeCpuBlocks(v, new)
    /\ ReturnToPrefill(v)
    /\ UNCHANGED <<glabel, st, storeCtr, loadCtr, evBlocks, evReqs, counts, born, wrkVars>>

\* Leading blocks of r that the GPU prefix cache still has.
LocalHit(r) ==
    LET hit(k) == \A i \in 1 .. k :
                     Blocks[r][i] \in Hashed /\ \E g \in Gpu : glabel[g] = Blocks[r][i]
    IN Cardinality({k \in 1 .. Len(Blocks[r]) : hit(k)})

\* Block tables allocate_slots can give a preempted request: k cached blocks,
\* then new ones.
Tables(r, k, total) ==
    {t \in [1 .. total -> Gpu] :
        /\ \A i \in 1 .. k : glabel[t[i]] = Blocks[r][i]
        /\ \A i \in k + 1 .. total : t[i] \in FreeGpu
        /\ \A i, j \in 1 .. total : t[i] = t[j] => i = j}

\* The request r takes table t, whose blocks after the first k are new, and
\* pin gives one more reference to some of them.
TakeTable(r, k, t, pin) ==
    LET new == {t[i] : i \in k + 1 .. Len(t)}
        held == {t[i] : i \in DOMAIN t}
    IN /\ table' = [table EXCEPT ![r] = t]
       /\ glabel' = [g \in Gpu |-> IF g \in new THEN NoHash ELSE glabel[g]]
       /\ gref' = [g \in Gpu |-> gref[g] + (IF g \in held THEN 1 ELSE 0)
                                         + (IF g \in pin THEN 1 ELSE 0)]

\* Mutant: blocks found in the GPU prefix cache are loaded too.
LoadCachedToo(r) ==
    /\ status[r] = "preempted" /\ pass # "evicted"
    /\ st[r].live /\ st[r].ready
    /\ LocalHit(r) < Len(st[r].cpu)
    /\ LET k == LocalHit(r)  n == Len(st[r].cpu)
       IN \E t \in Tables(r, k, n) :
             /\ TakeTable(r, k, t, {t[i] : i \in 1 .. n})
             /\ st' = [st EXCEPT ![r].load = {<<st[r].cpu[i], t[i]>> : i \in 1 .. n}]
    /\ status' = [status EXCEPT ![r] = "loading"]
    /\ pass' = "waiting"
    /\ UNCHANGED <<computed, grown, poolVars, pending, storeCtr, loadCtr,
                   evBlocks, evReqs, counts, born, wrkVars>>

\* The request restarts from CPU: get_num_new_matched_tokens returned a
\* positive count, blocks were allocated, update_state_after_alloc pinned the
\* blocks to load.
ResumeWithLoad(r) ==
    /\ status[r] = "preempted" /\ pass # "evicted"
    /\ st[r].live /\ st[r].ready
    /\ LocalHit(r) < Len(st[r].cpu)
    /\ LET k == LocalHit(r)  n == Len(st[r].cpu)
       IN \E t \in Tables(r, k, n) :
             /\ TakeTable(r, k, t, {t[i] : i \in k + 1 .. n})
             /\ st' = [st EXCEPT ![r].load = {<<st[r].cpu[i], t[i]>> : i \in k + 1 .. n}]
    /\ status' = [status EXCEPT ![r] = "loading"]
    /\ pass' = "waiting"
    /\ UNCHANGED <<computed, grown, poolVars, pending, storeCtr, loadCtr,
                   evBlocks, evReqs, counts, born, wrkVars>>

\* Mutant: hit_length <= 0 returns without the cleanup.
KeepUnneeded(r) ==
    /\ status[r] = "preempted" /\ pass # "evicted"
    /\ st[r].live => st[r].ready /\ LocalHit(r) >= Len(st[r].cpu)
    /\ UNCHANGED <<st, ref, older>>

\* The GPU prefix cache covers all the CPU copy covers, or there is no copy
\* any more: the state is dropped before the request gets its blocks, whether
\* or not it gets them.
DropUnneeded(r) ==
    /\ status[r] = "preempted" /\ pass # "evicted"
    /\ st[r].live => st[r].ready /\ LocalHit(r) >= Len(st[r].cpu)
    /\ st' = DropStates({r})
    /\ FreeBlocks({r}, BirthOrder)

NextLen(r) == IF LocalHit(r) < Len(Blocks[r]) THEN LocalHit(r) + 1 ELSE LocalHit(r)

ResumeLocal(r) ==
    /\ DropUnneeded(r)
    /\ \E t \in Tables(r, LocalHit(r), NextLen(r)) : TakeTable(r, LocalHit(r), t, {})
    /\ computed' = [computed EXCEPT ![r] = LocalHit(r)]
    /\ grown' = IF NextLen(r) > LocalHit(r) THEN grown \cup {r} ELSE grown
    /\ status' = [status EXCEPT ![r] = "running"]
    /\ pass' = "waiting"
    /\ UNCHANGED <<bhash, cached, pending, storeCtr, loadCtr,
                   evBlocks, evReqs, counts, born, wrkVars>>

ResumeNoRoom(r) ==
    /\ st[r].live /\ DropUnneeded(r)
    /\ Tables(r, LocalHit(r), NextLen(r)) = {}
    /\ pass' = "waiting"
    /\ UNCHANGED <<status, table, computed, grown, gpuVars, bhash, cached,
                   pending, storeCtr, loadCtr, evBlocks, evReqs, counts, born, wrkVars>>

\* Mutant: a state without blocks of its own to store joins no event.
UnsentWithStore == {r \in Req : st[r].live /\ st[r].sev = NoEvent /\ ~st[r].ready /\ st[r].store # {}}

\* build_connector_meta closes the pass and the step goes to every worker.
Unsent == {r \in Req : st[r].live /\ st[r].sev = NoEvent /\ ~st[r].ready}
Unloaded == {r \in Req : st[r].live /\ st[r].load # {} /\ st[r].lev = NoEvent}
PassStores == UNION {st[r].store : r \in Unsent}

NewContents(r) == {<<table[r][i], Blocks[r][i]>> : i \in computed[r] + 1 .. Len(table[r])}

Step ==
    [sev |-> IF PassStores # {} THEN storeCtr ELSE NoEvent,
     store |-> PassStores,
     load |-> UNION {st[r].load : r \in Unloaded},
     lreqs |-> Unloaded,
     writes |-> UNION {NewContents(r) : r \in grown}]

BuildConnectorMeta ==
    /\ pass # "idle"
    /\ \A w \in Worker : Len(inbox[w]) < MaxInFlight
    /\ inbox' = [w \in Worker |-> Append(inbox[w], Step)]
    /\ st' = [r \in Req |->
                [st[r] EXCEPT
                   !.sev = IF PassStores # {} /\ r \in Unsent THEN storeCtr ELSE @,
                   !.lev = IF r \in Unloaded THEN loadCtr ELSE @]]
    /\ IF PassStores # {}
       THEN /\ evBlocks' = [evBlocks EXCEPT ![storeCtr] = PassStores]
            /\ evReqs' = [evReqs EXCEPT ![storeCtr] = Unsent]
            /\ storeCtr' = storeCtr + 1
            /\ pending' = [h \in Hashed |-> NoBlock]
       ELSE UNCHANGED <<evBlocks, evReqs, storeCtr, pending>>
    /\ loadCtr' = IF Unloaded # {} THEN loadCtr + 1 ELSE loadCtr
    /\ computed' = [r \in Req |-> IF r \in grown THEN Len(table[r]) ELSE computed[r]]
    /\ glabel' = [g \in Gpu |->
                    LET new == {p \in Step.writes : p[1] = g /\ p[2] \in Hashed}
                    IN IF new # {} THEN (CHOOSE p \in new : TRUE)[2] ELSE glabel[g]]
    /\ grown' = {} /\ pass' = "idle"
    /\ UNCHANGED <<status, table, gref, poolVars, counts, born, cdata, gdata,
                   reports, recvSeen>>

-----------------------------------------------------------------------------
(* Workers *)

Written(pairs, x, old) ==
    IF \E p \in pairs : p[1] = x THEN (CHOOSE p \in pairs : p[1] = x)[2] ELSE old

\* Mutant: the store runs after the forward of the same step.
CpuAfterForward(w, s) ==
    [c \in Cpu |-> Written({<<p[2], Written(s.writes, p[1], gdata[w][p[1]])>> : p \in s.store},
                           c, cdata[w][c])]

\* Stores run first (handle_preemptions, before any block is rewritten), then
\* loads (start_load_kv), then the forward; all are synchronous.
CpuAfter(w, s) ==
    [c \in Cpu |-> Written({<<p[2], gdata[w][p[1]]>> : p \in s.store}, c, cdata[w][c])]

GpuAfter(w, s) ==
    [g \in Gpu |->
        Written(s.writes, g,
            Written({<<p[2], CpuAfter(w, s)[p[1]]>> : p \in s.load}, g, gdata[w][g]))]

Execute(w) ==
    /\ inbox[w] # <<>>
    /\ LET s == Head(inbox[w])
       IN /\ cdata' = [cdata EXCEPT ![w] = CpuAfter(w, s)]
          /\ gdata' = [gdata EXCEPT ![w] = GpuAfter(w, s)]
          /\ reports' = [reports EXCEPT ![w] =
                IF s.sev = NoEvent /\ s.lreqs = {} THEN @
                ELSE Append(@, [sev |-> s.sev, recv |-> s.lreqs])]
    /\ inbox' = [inbox EXCEPT ![w] = Tail(@)]
    /\ UNCHANGED <<schedVars, gpuVars, poolVars, mgrVars, recvSeen>>

-----------------------------------------------------------------------------
(* Reports, ends of requests, reset *)

\* Requests whose load every worker has now reported (external aggregator).
Received(w) == {r \in Head(reports[w]).recv : recvSeen[r] \cup {w} = Worker}

\* Mutants: the first report completes the event; one report too many is awaited.
CompletesEarly(w) == Head(reports[w]).sev # NoEvent

CompletesLate(w) ==
    LET e == Head(reports[w]).sev
    IN e # NoEvent /\ counts[e] + 1 > Cardinality(Worker)

Completes(w) ==
    LET e == Head(reports[w]).sev
    IN e # NoEvent /\ counts[e] + 1 >= Cardinality(Worker)

\* _process_preempt_store_event: the cache takes a stored block under its hash
\* unless another block already has the hash.
CacheStored(e) ==
    LET blocks == {p[2] : p \in evBlocks[e]}
        insert == {c \in blocks : bhash[c] # NoHash /\ cached[bhash[c]] = NoBlock}
        twins == {c \in blocks : bhash[c] # NoHash /\ cached[bhash[c]] \notin {NoBlock, c}}
    IN /\ cached' = [h \in Hashed |-> IF \E c \in insert : bhash[c] = h
                                      THEN CHOOSE c \in insert : bhash[c] = h
                                      ELSE cached[h]]
       /\ bhash' = [c \in Cpu |-> IF c \in twins THEN NoHash ELSE bhash[c]]

\* Mutant: a finished request's state is not cleaned up when its store completes.
ReleasedLoads(w) == {r \in Received(w) : st[r].live}

\* States one report lets go: loads all workers have reported, and stored
\* states whose request finished meanwhile.
Released(w) ==
    {r \in Received(w) : st[r].live}
    \cup (IF Completes(w) THEN {r \in evReqs[Head(reports[w]).sev] : st[r].live /\ st[r].finished}
          ELSE {})

\* Loads are released first, in any order (finished_recving is a set), then the
\* finished states in dictionary order.
ReleaseOrders(w) ==
    {ord \in [Released(w) -> 1 .. Cardinality(Released(w))] :
        \A q, r \in Released(w) : q # r =>
            /\ ord[q] # ord[r]
            /\ q \in Received(w) /\ r \notin Received(w) => ord[q] < ord[r]
            /\ q \notin Received(w) /\ r \notin Received(w) /\ st[q].born < st[r].born
                  => ord[q] < ord[r]}

\* A load that is over: its request runs again, or, if it was aborted, ends.
EndLoads(R) ==
    LET aborted == {r \in R : status[r] = "aborting"}
        loaded(r, g) == \E i \in DOMAIN table[r] :
                            table[r][i] = g /\ Blocks[r][i] \in Hashed
    IN /\ gref' = [g \in Gpu |-> gref[g]
                     - Cardinality({r \in R : g \in LoadTargets(r)})
                     - Cardinality({r \in aborted : g \in TableOf(r)})]
       /\ glabel' = [g \in Gpu |->
            IF \E r \in R \ aborted : loaded(r, g)
            THEN LET r == CHOOSE r \in R \ aborted : loaded(r, g)
                 IN Blocks[r][CHOOSE i \in DOMAIN table[r] :
                                    table[r][i] = g /\ Blocks[r][i] \in Hashed]
            ELSE glabel[g]]
       /\ status' = [r \in Req |-> IF r \in aborted THEN "done"
                                   ELSE IF r \in R THEN "running" ELSE status[r]]
       /\ computed' = [r \in Req |-> IF r \in R \ aborted THEN Len(table[r]) ELSE computed[r]]
       /\ table' = [r \in Req |-> IF r \in aborted THEN <<>> ELSE table[r]]

\* update_connector_output for one worker's report.
UpdateConnectorOutput(w) ==
    /\ pass = "idle" /\ reports[w] # <<>>
    /\ LET rep == Head(reports[w])
           stored == IF Completes(w) THEN evReqs[rep.sev] ELSE {}
       IN /\ recvSeen' = [r \in Req |-> IF r \in Received(w) THEN {}
                                        ELSE IF r \in rep.recv THEN recvSeen[r] \cup {w}
                                        ELSE recvSeen[r]]
          /\ EndLoads(Received(w))
          /\ \E ord \in ReleaseOrders(w) : FreeBlocks(Released(w), ord)
          /\ st' = [r \in Req |-> IF r \in Released(w) THEN NoState
                                  ELSE IF r \in stored /\ st[r].live
                                  THEN [st[r] EXCEPT !.ready = TRUE]
                                  ELSE st[r]]
          /\ IF Completes(w)
             THEN /\ CacheStored(rep.sev)
                  /\ evBlocks' = [evBlocks EXCEPT ![rep.sev] = {}]
                  /\ evReqs' = [evReqs EXCEPT ![rep.sev] = {}]
                  /\ counts' = [counts EXCEPT ![rep.sev] = 0]
             ELSE /\ counts' = [e \in Event |-> IF e = rep.sev THEN counts[e] + 1 ELSE counts[e]]
                  /\ UNCHANGED <<cached, bhash, evBlocks, evReqs>>
    /\ reports' = [reports EXCEPT ![w] = Tail(@)]
    /\ UNCHANGED <<grown, pass, pending, storeCtr, loadCtr, born,
                   inbox, cdata, gdata>>

\* request_finished, on completion or abort: a state whose store is under way
\* waits for it, a state being loaded waits for the load.
RequestFinished(r) ==
    /\ pass = "idle" /\ status[r] \in {"running", "preempted", "loading"}
    /\ IF status[r] = "loading"
       THEN /\ status' = [status EXCEPT ![r] = "aborting"]
            /\ UNCHANGED <<gref, table, computed>>
       ELSE /\ status' = [status EXCEPT ![r] = "done"]
            /\ ReleaseTable(r)
    /\ IF st[r].live /\ st[r].lev = NoEvent /\ st[r].ready
       THEN FreeBlocks({r}, BirthOrder) /\ st' = DropStates({r})
       ELSE /\ st' = [st EXCEPT ![r].finished = @ \/ (st[r].live /\ st[r].lev = NoEvent)]
            /\ UNCHANGED <<ref, older>>
    /\ UNCHANGED <<grown, pass, glabel, bhash, cached, pending, storeCtr,
                   loadCtr, evBlocks, evReqs, counts, born, wrkVars>>

HasPendingTransfers ==
    \/ \E e \in Event : counts[e] > 0 \/ evBlocks[e] # {}
    \/ \E r \in Req : st[r].live /\ (~st[r].ready \/ st[r].load # {})

Live == {r \in Req : st[r].live}

\* reset_cache, when no transfer is pending (it returns False otherwise); the
\* pool forgets its hashes only if every block came back.
ResetCache ==
    /\ pass = "idle" /\ ~HasPendingTransfers
    /\ st' = DropStates(Live)
    /\ FreeBlocks(Live, BirthOrder)
    /\ pending' = [h \in Hashed |-> NoBlock]
    /\ IF \A c \in Cpu : Untouch(Live)[c] = 0
       THEN /\ cached' = [h \in Hashed |-> NoBlock]
            /\ bhash' = [c \in Cpu |-> NoHash]
       ELSE UNCHANGED <<cached, bhash>>
    /\ UNCHANGED <<schedVars, gpuVars, storeCtr, loadCtr, evBlocks, evReqs, counts,
                   born, wrkVars>>

Next ==
    \/ \E r \in Req : \/ Grow(r) \/ Admit(r) \/ PreemptOffloaded(r)
                      \/ PreemptSkipped(r) \/ PreemptRaised(r)
                      \/ ResumeWithLoad(r) \/ ResumeLocal(r) \/ ResumeNoRoom(r)
                      \/ RequestFinished(r)
    \/ \E w \in Worker : Execute(w) \/ UpdateConnectorOutput(w)
    \/ BuildConnectorMeta
    \/ ResetCache

Spec == Init /\ [][Next]_vars

\* The engine loop finishes a pass it began, every worker executes the steps
\* it was sent, and the loop collects an output between two passes whenever
\* there is one.
Fairness ==
    /\ WF_vars(BuildConnectorMeta)
    /\ \A w \in Worker : WF_vars(Execute(w)) /\ SF_vars(UpdateConnectorOutput(w))

FairSpec == Spec /\ Fairness

-----------------------------------------------------------------------------
(* Properties *)

\* Every variable has its type.
TypeOK ==
    /\ status \in [Req -> Status]
    /\ table \in [Req -> Seq(Gpu)]
    /\ computed \in [Req -> Nat]
    /\ grown \subseteq Req /\ pass \in Pass
    /\ gref \in [Gpu -> Nat]
    /\ glabel \in [Gpu -> Hashed \cup {NoHash}]
    /\ ref \in [Cpu -> Nat]
    /\ bhash \in [Cpu -> Hashed \cup {NoHash}]
    /\ cached \in [Hashed -> Cpu \cup {NoBlock}]
    /\ older \subseteq Cpu \X Cpu
    /\ st \in [Req -> StateType]
    /\ pending \in [Hashed -> Cpu \cup {NoBlock}]
    /\ storeCtr \in Nat /\ loadCtr \in Nat /\ born \in Nat
    /\ evBlocks \in [Event -> SUBSET (Gpu \X Cpu)]
    /\ evReqs \in [Event -> SUBSET Req]
    /\ counts \in [Event -> Nat]
    /\ inbox \in [Worker -> Seq(StepType)]
    /\ cdata \in [Worker -> [Cpu -> Content \cup {Junk}]]
    /\ gdata \in [Worker -> [Gpu -> Content \cup {Junk}]]
    /\ reports \in [Worker -> Seq(ReportType)]
    /\ recvSeen \in [Req -> SUBSET Worker]

\* A CPU block is counted once for every place where an offload state names it,
\* so get_new_blocks never hands out a block some preempted request needs:
\* sharing by cached or pending hash, aborts and restores keep the count.
RefCovers == \A c \in Cpu : ref[c] >= Cardinality(UsesOf(Req, c))

\* The CPU pool holds blocks for offload states and for nothing else.  "If CPU
\* memory capacity is insufficient, the connector skips offload for that
\* request": an offload that is given up leaves no block behind.
NothingLeaked == \A c \in Cpu : ref[c] = Cardinality(UsesOf(Req, c))

\* A restorable state (ready) has every block of its request on every worker:
\* readiness waits for the store on all of them, and no later store to a
\* reused CPU block touches it.
RestorableIsStored ==
    \A r \in Req : st[r].live /\ st[r].ready =>
        \A w \in Worker : \A i \in DOMAIN st[r].cpu :
            cdata[w][st[r].cpu[i]] = Blocks[r][i]

\* A hash in the CPU prefix cache names a block with that content on every
\* worker: it is entered after the store and leaves before the block is reused.
CacheHolds ==
    \A h \in Hashed : cached[h] # NoBlock =>
        \A w \in Worker : cdata[w][cached[h]] = h

\* Once a worker has executed all it was sent, the blocks of every running
\* request hold what the request computed: the store ran before the freed GPU
\* blocks were rewritten and the restore put each block in its place.
KVIntact ==
    \A w \in Worker : inbox[w] = <<>> =>
        \A r \in Req : status[r] = "running" =>
            \A i \in 1 .. computed[r] : gdata[w][table[r][i]] = Blocks[r][i]

\* The target of a restore that has not been reported by all workers belongs to
\* the restored request alone.
LoadTargetsPinned ==
    \A r \in Req : \A g \in LoadTargets(r) :
        /\ gref[g] > 0
        /\ \A q \in Req \ {r} : g \notin TableOf(q) \cup LoadTargets(q)

\* A request with an offload state does not run, so the copy never goes stale
\* and update_state_before_preempt never meets an old state; and a state whose
\* request is gone is one whose store is still under way.
StateMeansStopped ==
    \A r \in Req : st[r].live =>
        \/ status[r] = "preempted" /\ st[r].load = {} /\ ~st[r].finished
        \/ status[r] \in {"loading", "aborting"} /\ st[r].ready /\ st[r].load # {}
              /\ ~st[r].finished
        \/ status[r] = "done" /\ st[r].load = {} /\ st[r].finished /\ ~st[r].ready

\* Between two passes, a state that is not restorable waits for a store event
\* that knows it, and no worker's completion of that event is lost: each worker
\* has it queued, has reported it, or has been counted by update_connector_output.
StoreUnderWay ==
    \A r \in Req : pass = "idle" /\ st[r].live /\ ~st[r].ready =>
        LET e == st[r].sev
            owing(w) == (\E i \in DOMAIN inbox[w] : inbox[w][i].sev = e)
                        \/ \E i \in DOMAIN reports[w] : reports[w][i].sev = e
        IN /\ e # NoEvent /\ r \in evReqs[e]
           /\ counts[e] + Cardinality({w \in Worker : owing(w)}) = Cardinality(Worker)

\* "After all workers report that the store is complete, the preempted request
\* becomes restorable": a state that waits for a store does not wait forever.
BecomesRestorable ==
    \A r \in Req : (st[r].live /\ ~st[r].ready) ~> (st[r].ready \/ ~st[r].live)

\* The CPU blocks of a request that was aborted, whether its store or its load
\* was under way, are given back.
AbortedIsFreed ==
    \A r \in Req : (status[r] \in {"aborting", "done"}) ~> ~st[r].live

=============================================================================
