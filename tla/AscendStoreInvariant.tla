------------------------- MODULE AscendStoreInvariant -------------------------
(***************************************************************************)
(* The inductive invariant of AscendStoreSave.  IInv is about the KV: what *)
(* the blocks, the saves under way and the store hold.  EInv is about the  *)
(* life of a save: where its event is, for every worker, between the plan  *)
(* and the ledger of the scheduler.                                        *)
(***************************************************************************)
EXTENDS AscendStoreSave, TLAPS

Slot == Block \cup {Null}
Content == Contents \cup {Nothing}

\* The types the argument uses: of the scheduler, the worker, and its thread.
PlanTyped ==
    /\ align \in BOOLEAN /\ epoch \in 0 .. MaxResets
    /\ status \in [Req -> {"waiting", "running", "finished"}] /\ blocks \in [Req -> Seq(Slot)]
    /\ step \in [phase : {"none", "plan", "run"}, scheduled : SUBSET Req, admitted : BOOLEAN, preempted : SUBSET Req,
                 finished : SUBSET Req, load : SUBSET (Block \X Key), write : SUBSET (Block \X Key), save : Seq(ReqMeta)]
    /\ finished \subseteq Req
    /\ next_id \in Nat

WorkerTyped ==
    /\ host \in [Worker -> {"idle", "called", "waiting", "launched", "done"}]
    /\ fence \in [Worker -> {"none", "pending", "done"}]
    /\ mem \in [Worker -> [Block -> Content]] /\ device \in [Worker -> SUBSET (Block \X Contents)]

Job == [meta : ReqMeta \cup {Nothing}, todo : SUBSET Nat, ok : BOOLEAN]

ThreadTyped ==
    /\ queue \in [Worker -> Seq(ReqMeta \cup {Fence})]
    /\ job \in [Worker -> Job]
    /\ store \in [Worker -> [Key -> Content]]

Typed == PlanTyped /\ WorkerTyped /\ ThreadTyped

\* The plan of a step: made while the workers are idle, carried out by each
\* worker once.  A worker has writes under way only after its launch.
Phases ==
    /\ step.phase = "none" => step.load = {} /\ step.write = {} /\ step.save = <<>> /\ step.scheduled = {}
    /\ \A w \in Worker : /\ step.phase # "run" => host[w] = "idle"
                         /\ host[w] # "launched" => device[w] = {}

\* A batch ends with its fence, and a fence that is open has nothing before it.
IsFenced(f, q, n) ==
    /\ f # "pending" => q = <<>> /\ n = NoJob
    /\ \A i \in DOMAIN q : q[i] = Fence <=> i = Len(q)

Fenced == \A w \in Worker : IsFenced(fence[w], queue[w], job[w])

\* No block is in two slots.
Disjoint ==
    \A r, q \in Req : \A i \in DOMAIN blocks[r], j \in DOMAIN blocks[q] :
        blocks[r][i] = blocks[q][j] /\ blocks[r][i] # Null => r = q /\ i = j

\* A step touches the blocks of the requests it schedules, which are running,
\* and saves chunks of their prompts from all of their blocks.
Scheduled ==
    /\ \A r \in step.scheduled : status[r] = "running"
    /\ \A r \in Req : Len(blocks[r]) =< Len(Prompt[r])
    /\ \A x \in step.load \cup step.write : \E r \in step.scheduled : \E i \in DOMAIN blocks[r] : blocks[r][i] = x[1]
    /\ \A i \in DOMAIN step.save :
          LET m == step.save[i] IN m.req \in step.scheduled /\ m.blocks = blocks[m.req] /\ m.len = Len(m.blocks)

\* Content c is the KV of k; in an align-state group, under the present weights.
Right(c, k) == c # Nothing /\ c[1] = k /\ (align => c[2] = epoch)

\* Once the writes under way are done, block b of rank w holds the KV of k.
Good(w, b, k) ==
    IF \E x \in device[w] : x[1] = b
    THEN \A x \in device[w] : x[1] = b => Right(x[2], k)
    ELSE Right(mem[w][b], k)

\* The step has yet to load or compute block b on rank w.
Planned(w, b) ==
    /\ step.phase = "plan" \/ host[w] \in {"called", "waiting"}
    /\ \E k \in Key : <<b, k>> \in step.load \cup step.write

\* Every slot of a request holds the KV of its chunk, or will.
Slots ==
    \A w \in Worker, r \in Req : \A i \in DOMAIN blocks[r] :
        blocks[r][i] # Null =>
            IF Planned(w, blocks[r][i])
            THEN \A k \in Key : <<blocks[r][i], k>> \in step.load \cup step.write => k = Prompt[r][i]
            ELSE Good(w, blocks[r][i], Prompt[r][i])

\* What a step loads is in the store.
Loads == \A w \in Worker, x \in step.load : store[w][x[2]] # Nothing

\* What the store has is right.
StoreRight == \A w \in Worker, k \in Key : store[w][k] # Nothing => Right(store[w][k], k)

\* The blocks of a save m hold the KV of its chunks.
Holds(w, m) ==
    /\ m.len =< Len(m.blocks) /\ m.len =< Len(Prompt[m.req])
    /\ \A i \in 1 .. m.len : m.blocks[i] # Null => Good(w, m.blocks[i], Prompt[m.req][i])

\* So do those of the saves in a queue, and of a job, which stores some of them.
QueueHolds(w, q) == \A i \in DOMAIN q : q[i] # Fence => Holds(w, q[i])

JobHolds(w, n) ==
    n # NoJob => /\ n.meta \in ReqMeta /\ Holds(w, n.meta)
                 /\ n.todo \subseteq {i \in 1 .. n.meta.len : n.meta.blocks[i] # Null}

Saves == \A w \in Worker : QueueHolds(w, queue[w]) /\ JobHolds(w, job[w])

IInv == Typed /\ Phases /\ Fenced /\ Disjoint /\ Scheduled /\ Slots /\ Loads /\ Saves /\ StoreRight

-----------------------------------------------------------------------------
(* The events *)

\* The types that IInv leaves out.
LedgerTyped ==
    /\ crashed \in BOOLEAN /\ faults \in 0 .. MaxFaults /\ saved \in [Req -> Nat]
    /\ \A e \in DOMAIN sending : sending[e] \in [blocks : SUBSET Block, count : Nat]
    /\ live \in [Worker -> SUBSET (Req \X Nat)] /\ retired \in [Worker -> SUBSET Req]
    /\ offset \in [Worker -> [Req -> Nat]]
    /\ completed \in [Worker -> SUBSET Nat] /\ reported \in [Worker -> SUBSET Nat]
    /\ fatal \in [Worker -> BOOLEAN]

\* The entries of a sequence.
Entries(q) == {q[i] : i \in DOMAIN q}

\* The saves of the step, their events, and those of the jobs a thread has yet
\* to finish.
StepSaves == Entries(step.save)
StepIds == {m.id : m \in StepSaves}
OpenIds(w) == {m.id : m \in Unfinished(w)}

\* The step has yet to reach worker w.
Before(w) == host[w] \in IF step.phase = "plan" THEN {"idle"} ELSE {"called", "waiting"}

\* Event ids are handed out in order, one for a save.
Ids ==
    /\ next_id \in 1 .. MaxSaves + 1
    /\ StepIds \cup DOMAIN sending \subseteq 1 .. next_id - 1
    /\ \A i, j \in DOMAIN step.save : step.save[i].id = step.save[j].id => i = j

\* The requests of the step that a worker is to forget are not among those it
\* is to run.
Ended ==
    /\ step.phase = "none" => step.preempted = {}
    /\ \A r \in step.preempted : status[r] = "waiting"
    /\ \A r \in finished \cup step.finished : status[r] = "finished"

\* An event has one job in a thread with queue q and job n.
Once(q, n) ==
    /\ \A i, j \in DOMAIN q : q[i].id = q[j].id => i = j
    /\ n # NoJob => \A i \in DOMAIN q : q[i].id # n.meta.id

\* The jobs of a thread are the live ones and belong to the step its worker
\* was last launched for.  An event is, for a worker, at one point of its way:
\* planned, with the thread, completed or reported.
Tracked(w) ==
    /\ Once(queue[w], job[w])
    /\ live[w] = {<<m.req, m.id>> : m \in Unfinished(w)} /\ retired[w] = {}
    /\ host[w] \in {"launched", "done"} => Unfinished(w) \subseteq StepSaves
    /\ OpenIds(w) \cup completed[w] \cup reported[w] \subseteq 1 .. next_id - 1
    /\ OpenIds(w) \cap (completed[w] \cup reported[w]) = {} /\ completed[w] \cap reported[w] = {}
    /\ Before(w) => StepIds \cap (OpenIds(w) \cup completed[w] \cup reported[w]) = {}
    /\ host[w] # "done" => reported[w] = {}

EInv == LedgerTyped /\ Ids /\ Ended /\ (\A w \in Worker : Tracked(w)) /\ EventsConserved
-----------------------------------------------------------------------------
(* The saved offsets *)

\* Chunk i of request r is in the store of rank w.
Stored(w, r, i) == store[w][Prompt[r][i]] # Nothing

\* A worker that has been told of a preemption has forgotten the request, and
\* its thread has no save of it.
Forgotten(w, r) ==
    status[r] = "waiting" /\ (r \notin step.preempted \/ host[w] = "done") =>
        offset[w][r] = 0 /\ \A m \in Unfinished(w) : m.req # r

\* The offset and the saves of a running request cover chunks it has.  What is
\* below its offset is stored; so is what a job without a failed put has done.
Durable(w, r) ==
    status[r] = "running" =>
        /\ offset[w][r] =< Len(blocks[r])
        /\ \A m \in Unfinished(w) : m.req = r => m.len =< Len(blocks[r])
        /\ ~align => \A i \in 1 .. offset[w][r] : Stored(w, r, i)
        /\ ~align /\ job[w] # NoJob /\ job[w].ok /\ job[w].meta.req = r =>
              \A i \in 1 .. job[w].meta.len : i \in job[w].todo \/ Stored(w, r, i)

\* In an attention group no slot is skipped.
NoneSkipped ==
    ~align => /\ \A r \in Req : \A i \in DOMAIN blocks[r] : blocks[r][i] # Null
              /\ \A w \in Worker : \A m \in Unfinished(w) : \A i \in 1 .. m.len : m.blocks[i] # Null

OInv == NoneSkipped /\ \A w \in Worker, r \in Req : Forgotten(w, r) /\ Durable(w, r)
=============================================================================
