---------------------------- MODULE AscendStoreSave ----------------------------
(***************************************************************************)
(* The blockwise save path of AscendStore: the scheduler side of the       *)
(* connector, one worker with its store thread per rank, and the backend.  *)
(*                                                                         *)
(* A step of the engine computes KV chunks on every rank.  The worker hands*)
(* the chunks to its store thread as one batch closed by a fence, and waits*)
(* for that fence at the start of the next step, before any block can be   *)
(* overwritten.  The thread stores the chunks the backend lacks.  Blocks of*)
(* align-state (Mamba) groups are pinned in the scheduler until every rank *)
(* has reported the save.  A reset drains the queue of rank 0 and wipes the*)
(* backend.                                                                *)
(*                                                                         *)
(* The unit is a chunk of cache_transfer_granularity tokens: one block, one*)
(* key per rank.  Content is a key and the epoch of the weights that       *)
(* computed it.  One step is in flight at a time (synchronous scheduling). *)
(***************************************************************************)
EXTENDS Integers, Sequences, FiniteSets

CONSTANTS
    Worker, Rank0,  \* the ranks, and the one with the lookup server
    Req,            \* request ids
    Key,            \* block hashes
    Prompt,         \* the block hashes of the full chunks of a request
    Block,          \* ids of the blocks
    Null,           \* block id 0: a skipped align-state slot
    Nothing,        \* no content
    AlignState,     \* the kinds of group: TRUE is align-state, FALSE attention
    MaxSaves,       \* bound on the saves the scheduler plans
    MaxResets,      \* bound on the resets
    MaxFaults       \* bound on the failures of a put and of a thread

ASSUME WorkerAssumption == IsFiniteSet(Worker) /\ Rank0 \in Worker
ASSUME PromptAssumption == Prompt \in [Req -> Seq(Key)] /\ Null \notin Block
ASSUME BoundAssumption ==
    MaxSaves \in Nat /\ MaxResets \in Nat /\ MaxFaults \in Nat /\ AlignState \subseteq BOOLEAN

\* A key and the epoch of the weights.
Contents == Key \X (0 .. MaxResets)

\* A ReqMeta with can_save: the first len chunks of a request.
ReqMeta == [req : Req, len : Nat, blocks : Seq(Block \cup {Null}), id : Nat]

ASSUME NothingAssumption == Nothing \notin Req /\ Nothing \notin Contents /\ Nothing \notin ReqMeta

VARIABLES
    align,      \* whether the group is an align-state group
    \* KVPoolScheduler and InFlightSaveBlockTracker
    status, blocks,
    saved,      \* RequestTracker.num_saved_tokens
    finished,   \* finished_req_ids of the next step
    sending,    \* sending_blocks and sending_events, by event id
    next_id,    \* next_event_id, and the next store_job_id
    step,       \* the scheduler output under way
    \* workers
    host,       \* where the worker is in the step
    mem, device, \* KV memory, and the writes the device has yet to do
    fence,      \* _previous_save_batch
    queue, job, \* request_queue, and the request the thread is handling
    live,       \* stored_requests
    offset,     \* _saved_offsets
    retired,    \* _retired_store_req_ids
    completed,  \* completed_events
    reported,   \* completed_events of the output of the step
    fatal,      \* _fatal_error
    crashed,    \* a worker has raised
    faults,     \* the failures so far
    \* backend
    store,
    epoch       \* the weights in use: the number of resets

schedulerVars == <<status, blocks, saved, finished, sending, next_id>>
threadVars == <<queue, job, live, offset, completed, fatal>>
faultVars == <<crashed, faults>>
hostVars == <<host, fence, retired, reported>>
vars == <<align, schedulerVars, step, hostVars, mem, device, threadVars, faultVars, store, epoch>>

-----------------------------------------------------------------------------
NoStep == [phase |-> "none", scheduled |-> {}, admitted |-> FALSE, preempted |-> {}, finished |-> {},
           load |-> {}, write |-> {}, save |-> <<>>]
NoJob == [meta |-> Nothing, todo |-> {}, ok |-> TRUE]
Fence == [req |-> Nothing, len |-> 0, blocks |-> <<>>, id |-> 0]

\* Mutant of Held: the null block is retained like any other.
HeldWithNull(q) == {q[i] : i \in DOMAIN q}

\* The blocks of a list that are blocks.
Held(q) == {q[i] : i \in DOMAIN q} \ {Null}

\* Blocks without a reference.
Free == Block \ UNION ({Held(blocks[r]) : r \in Req} \cup {sending[e].blocks : e \in DOMAIN sending})

Init ==
    /\ align \in AlignState
    /\ status = [r \in Req |-> "waiting"] /\ blocks = [r \in Req |-> <<>>] /\ saved = [r \in Req |-> 0]
    /\ finished = {} /\ sending = <<>> /\ next_id = 1 /\ step = NoStep
    /\ host = [w \in Worker |-> "idle"] /\ fence = [w \in Worker |-> "none"]
    /\ retired = [w \in Worker |-> {}] /\ reported = [w \in Worker |-> {}]
    /\ mem = [w \in Worker |-> [b \in Block |-> Nothing]] /\ device = [w \in Worker |-> {}]
    /\ queue = [w \in Worker |-> <<>>] /\ job = [w \in Worker |-> NoJob]
    /\ live = [w \in Worker |-> {}] /\ offset = [w \in Worker |-> [r \in Req |-> 0]]
    /\ completed = [w \in Worker |-> {}] /\ fatal = [w \in Worker |-> FALSE] /\ crashed = FALSE /\ faults = 0
    /\ store = [w \in Worker |-> [k \in Key |-> Nothing]] /\ epoch = 0

-----------------------------------------------------------------------------
(* The scheduler *)

\* Mutant of Hits: only the keys of rank 0 are looked up.
HitsRankZero(r) ==
    {n \in 1 .. Len(Prompt[r]) : \A i \in 1 .. n : (align /\ i < n) \/ store[Rank0][Prompt[r][i]] # Nothing}

\* lookup_scheduler: the lengths of prefix of r that every rank can load.
\* Attention needs all the chunks, an align-state group the last one.
Hits(r) ==
    {n \in 1 .. Len(Prompt[r]) : \A i \in 1 .. n : (align /\ i < n) \/ \A w \in Worker : store[w][Prompt[r][i]] # Nothing}

Hit(r) == IF Hits(r) = {} THEN 0 ELSE CHOOSE n \in Hits(r) : \A m \in Hits(r) : m =< n

\* update_mamba_spec_blocks: the slots behind the last computed state are given up.
Cut(q) == [i \in DOMAIN q |-> IF align /\ i < Len(q) THEN Null ELSE q[i]]

\* from_request_tracker and retain: plan a save of all the chunks in q.
Retain(r, q) ==
    /\ next_id =< MaxSaves
    /\ next_id' = next_id + 1
    /\ saved' = [saved EXCEPT ![r] = Len(q)]
    /\ sending' = IF align
                  THEN [e \in DOMAIN sending \cup {next_id} |->
                           IF e = next_id THEN [blocks |-> Held(q), count |-> 0] ELSE sending[e]]
                  ELSE sending

Meta(r, q) == [req |-> r, len |-> Len(q), blocks |-> q, id |-> next_id]

\* The engine loop runs a step while there is a request, a finished id to
\* deliver, or a pin to release (has_pending_push_work).
BeginPass ==
    /\ step.phase = "none" /\ ~crashed
    /\ finished # {} \/ DOMAIN sending # {} \/ \E r \in Req : status[r] # "finished"
    /\ step' = [phase |-> "plan", scheduled |-> {}, admitted |-> FALSE, preempted |-> {}, finished |-> finished,
                load |-> {}, write |-> {}, save |-> <<>>]
    /\ finished' = {}
    /\ UNCHANGED <<align, status, blocks, saved, sending, next_id, hostVars, mem, device, threadVars, faultVars, store, epoch>>

\* The pool is empty: a running request loses its blocks, its tracker too.
Preempt(r) ==
    /\ step.phase = "plan" /\ status[r] = "running" /\ r \notin step.scheduled /\ ~step.admitted
    /\ Free = {}
    /\ status' = [status EXCEPT ![r] = "waiting"]
    /\ blocks' = [blocks EXCEPT ![r] = <<>>]
    /\ saved' = [saved EXCEPT ![r] = 0]
    /\ step' = [step EXCEPT !.preempted = @ \cup {r}]
    /\ UNCHANGED <<align, finished, sending, next_id, hostVars, mem, device, threadVars, faultVars, store, epoch>>

\* _process_running_cached_request: compute the next chunk of r, or only
\* tokens behind its last full chunk, and save what has not been sent.
Run(r) ==
    /\ step.phase = "plan" /\ status[r] = "running" /\ r \notin step.scheduled /\ ~step.admitted
    /\ \E new \in {<<>>} \cup {<<b>> : b \in Free} :
        LET q == Cut(blocks[r]) \o new IN
        /\ Len(q) =< Len(Prompt[r]) /\ saved[r] < Len(q)
        /\ blocks' = [blocks EXCEPT ![r] = q]
        /\ Retain(r, q)
        /\ step' = [step EXCEPT !.scheduled = @ \cup {r}, !.save = Append(@, Meta(r, q)),
                                !.write = @ \cup {<<b, Prompt[r][Len(q)]>> : b \in Held(new)}]
    /\ UNCHANGED <<align, status, finished, hostVars, mem, device, threadVars, faultVars, store, epoch>>

\* A waiting request starts: what the store has is loaded and not saved now
\* (_process_new_request, also for a resumed request), then one chunk computed.
Admit(r) ==
    LET hit == Hit(r)
        len == IF hit < Len(Prompt[r]) THEN hit + 1 ELSE hit
    IN
    /\ step.phase = "plan" /\ status[r] = "waiting" /\ step.preempted = {}
    /\ \E q \in [1 .. len -> Free \cup {Null}] :
        /\ \A i \in DOMAIN q : (q[i] = Null) = (align /\ i < hit)
        /\ \A i, j \in DOMAIN q : i # j /\ q[i] # Null => q[i] # q[j]
        /\ blocks' = [blocks EXCEPT ![r] = q]
        /\ step' = [step EXCEPT !.scheduled = @ \cup {r}, !.admitted = TRUE,
                                !.load = @ \cup {<<q[i], Prompt[r][i]>> : i \in {j \in 1 .. hit : q[j] # Null}},
                                !.write = @ \cup {<<q[i], Prompt[r][i]>> : i \in hit + 1 .. Len(q)},
                                !.save = IF hit = 0 THEN <<Meta(r, q)>> \o @ ELSE @]
        /\ IF hit = 0 THEN Retain(r, q) ELSE UNCHANGED <<saved, sending, next_id>>
    /\ status' = [status EXCEPT ![r] = "running"]
    /\ UNCHANGED <<align, finished, hostVars, mem, device, threadVars, faultVars, store, epoch>>

\* The scheduler output goes to every worker.
Dispatch ==
    /\ step.phase = "plan"
    /\ step' = [step EXCEPT !.phase = "run"]
    /\ host' = [w \in Worker |-> "called"]
    /\ UNCHANGED <<align, schedulerVars, fence, retired, reported, mem, device, threadVars, faultVars, store, epoch>>

\* complete: an event counts the workers that reported it; at the last one
\* its blocks are released.
Count(e) == sending[e].count + Cardinality({w \in Worker : e \in reported[w]})

UpdateConnectorOutput ==
    /\ step.phase = "run" /\ \A w \in Worker : host[w] = "done"
    /\ sending' = [e \in {d \in DOMAIN sending : Count(d) < Cardinality(Worker)} |-> [sending[e] EXCEPT !.count = Count(e)]]
    /\ reported' = [w \in Worker |-> {}]
    /\ host' = [w \in Worker |-> "idle"]
    /\ step' = NoStep
    /\ UNCHANGED <<align, status, blocks, saved, finished, next_id, fence, retired, mem, device, threadVars, faultVars, store, epoch>>

\* request_finished: the blocks are freed at once.
Finish(r) ==
    /\ step.phase = "none" /\ status[r] # "finished" /\ ~crashed
    /\ status' = [status EXCEPT ![r] = "finished"]
    /\ blocks' = [blocks EXCEPT ![r] = <<>>]
    /\ saved' = [saved EXCEPT ![r] = 0]
    /\ finished' = finished \cup {r}
    /\ UNCHANGED <<align, sending, next_id, step, hostVars, mem, device, threadVars, faultVars, store, epoch>>

\* Mutant of Reset: pinned saves do not keep it away.
ResetUnpinned ==
    /\ step.phase = "none" /\ ~crashed /\ epoch < MaxResets
    /\ \A r \in Req : blocks[r] = <<>>
    /\ queue[Rank0] = <<>> /\ job[Rank0] = NoJob
    /\ store' = [w \in Worker |-> [k \in Key |-> Nothing]]
    /\ epoch' = epoch + 1
    /\ UNCHANGED <<align, schedulerVars, step, hostVars, mem, device, threadVars, faultVars>>

\* reset_store after a prefix cache reset: refused while a save is pinned.
\* Rank 0 joins its queue, then removes all keys of all ranks.
Reset ==
    /\ step.phase = "none" /\ ~crashed /\ epoch < MaxResets
    /\ \A r \in Req : blocks[r] = <<>>
    /\ DOMAIN sending = {}
    /\ queue[Rank0] = <<>> /\ job[Rank0] = NoJob
    /\ store' = [w \in Worker |-> [k \in Key |-> Nothing]]
    /\ epoch' = epoch + 1
    /\ UNCHANGED <<align, schedulerVars, step, hostVars, mem, device, threadVars, faultVars>>

-----------------------------------------------------------------------------
(* A worker *)

Jobs(w) == {queue[w][i] : i \in DOMAIN queue[w]} \ {Fence}

\* The event of a save is reported, whatever became of the save.
Report(w, ids) ==
    completed' = [completed EXCEPT ![w] = IF align THEN @ \cup ids ELSE @]

\* wait_for_previous_save: the thread is found alive, the worker waits for done.
Poll(w) ==
    /\ host[w] = "called" /\ ~crashed /\ fence[w] # "none" /\ ~fatal[w]
    /\ host' = [host EXCEPT ![w] = "waiting"]
    /\ UNCHANGED <<align, schedulerVars, step, fence, retired, reported, mem, device, threadVars, faultVars, store, epoch>>

\* raise_if_failed, at the first poll or after a wait that timed out: the store
\* thread is dead, and with it the engine.
Raise(w) ==
    /\ host[w] \in {"called", "waiting"} /\ ~crashed /\ fence[w] # "none" /\ fatal[w]
    /\ crashed' = TRUE
    /\ UNCHANGED <<align, schedulerVars, step, hostVars, mem, device, threadVars, faults, store, epoch>>

\* start_load_kv copies what the store has, then the forward pass is launched.
Launch(w) ==
    /\ host' = [host EXCEPT ![w] = "launched"]
    /\ mem' = [mem EXCEPT ![w] = [b \in Block |->
                  IF \E k \in Key : <<b, k>> \in step.load
                  THEN store[w][CHOOSE k \in Key : <<b, k>> \in step.load] ELSE @[b]]]
    /\ device' = [device EXCEPT ![w] = {<<x[1], <<x[2], epoch>>>> : x \in step.write}]

\* wait_for_save and add_save_batch: the batch is queued in front of its fence,
\* or reported and done at once when the thread is dead.
AddSaveBatch(w) ==
    IF step.save = <<>>
    THEN fence' = [fence EXCEPT ![w] = "none"] /\ UNCHANGED <<queue, live, completed>>
    ELSE IF fatal[w]
    THEN /\ fence' = [fence EXCEPT ![w] = "done"]
         /\ Report(w, {step.save[i].id : i \in DOMAIN step.save})
         /\ UNCHANGED <<queue, live>>
    ELSE /\ fence' = [fence EXCEPT ![w] = "pending"]
         /\ queue' = [queue EXCEPT ![w] = @ \o step.save \o <<Fence>>]
         /\ live' = [live EXCEPT ![w] = @ \cup {<<step.save[i].req, step.save[i].id>> : i \in DOMAIN step.save}]
         /\ UNCHANGED completed

\* Mutant of Execute: no wait for the previous batch.
ExecuteUnfenced(w) ==
    /\ host[w] \in {"called", "waiting"} /\ ~crashed
    /\ Launch(w)
    /\ AddSaveBatch(w)
    /\ UNCHANGED <<align, schedulerVars, step, retired, reported, job, offset, fatal, faultVars, store, epoch>>

\* A step of the worker: handle_preemptions is through, the forward pass runs.
Execute(w) ==
    /\ \/ host[w] = "called" /\ fence[w] = "none"
       \/ host[w] = "waiting" /\ fence[w] = "done"
    /\ ~crashed
    /\ Launch(w)
    /\ AddSaveBatch(w)
    /\ UNCHANGED <<align, schedulerVars, step, retired, reported, job, offset, fatal, faultVars, store, epoch>>

\* The device has written the KV of the step; the save event has fired.
Compute(w) ==
    /\ device[w] # {}
    /\ mem' = [mem EXCEPT ![w] = [b \in Block |->
                  IF \E x \in device[w] : x[1] = b THEN (CHOOSE x \in device[w] : x[1] = b)[2] ELSE @[b]]]
    /\ device' = [device EXCEPT ![w] = {}]
    /\ UNCHANGED <<align, schedulerVars, step, hostVars, threadVars, faultVars, store, epoch>>

\* get_finished forgets preempted and finished requests; the output of the
\* step carries the events completed so far.
GetFinished(w) ==
    LET left == {x \in live[w] : x[1] \notin step.preempted}
        stored == {x[1] : x \in left}
        ended == (retired[w] \ step.preempted) \cup step.finished
    IN
    /\ host[w] = "launched" /\ device[w] = {} /\ ~crashed
    /\ host' = [host EXCEPT ![w] = "done"]
    /\ live' = [live EXCEPT ![w] = left]
    /\ retired' = [retired EXCEPT ![w] = ended \cap stored]
    /\ offset' = [offset EXCEPT ![w] = [r \in Req |->
                     IF r \in step.preempted \cup (ended \ stored) THEN 0 ELSE @[r]]]
    /\ reported' = [reported EXCEPT ![w] = completed[w]]
    /\ completed' = [completed EXCEPT ![w] = {}]
    /\ UNCHANGED <<align, schedulerVars, step, fence, mem, device, queue, job, fatal, faultVars, store, epoch>>

-----------------------------------------------------------------------------
(* A store thread *)

\* The chunks of a live job above the saved offset that the store lacks.
Missing(w, m) ==
    {i \in 1 .. m.len : /\ m.blocks[i] # Null
                        /\ align \/ i > offset[w][m.req]
                        /\ store[w][Prompt[m.req][i]] = Nothing}

Take(w) ==
    /\ queue[w] # <<>> /\ Head(queue[w]) # Fence /\ job[w] = NoJob /\ ~fatal[w]
    /\ queue' = [queue EXCEPT ![w] = Tail(@)]
    /\ LET m == Head(queue[w]) IN
       IF <<m.req, m.id>> \in live[w]
       THEN /\ job' = [job EXCEPT ![w] = [meta |-> m, todo |-> Missing(w, m), ok |-> TRUE]]
            /\ UNCHANGED completed
       ELSE Report(w, {m.id}) /\ UNCHANGED job
    /\ UNCHANGED <<align, schedulerVars, step, hostVars, mem, device, live, offset, fatal, faultVars, store, epoch>>

\* put, behind the event of the step: every key may fail on its own.
Put(w) ==
    /\ job[w].todo # {} /\ device[w] = {}
    /\ \E i \in job[w].todo, ok \in BOOLEAN :
        /\ faults' = IF ok THEN faults ELSE faults + 1
        /\ faults' =< MaxFaults
        /\ job' = [job EXCEPT ![w] = [meta |-> @.meta, todo |-> @.todo \ {i}, ok |-> @.ok /\ ok]]
        /\ store' = IF ok THEN [store EXCEPT ![w][Prompt[job[w].meta.req][i]] = mem[w][job[w].meta.blocks[i]]] ELSE store
    /\ UNCHANGED <<align, schedulerVars, step, hostVars, mem, device, queue, live, offset, completed, fatal, crashed, epoch>>

\* Mutant of Done: a failed put advances the offset as well.
DoneAlways(w) ==
    /\ job[w] # NoJob /\ job[w].todo = {}
    /\ LET m == job[w].meta IN
       /\ offset' = IF <<m.req, m.id>> \in live[w] /\ offset[w][m.req] < m.len
                    THEN [offset EXCEPT ![w][m.req] = m.len] ELSE offset
       /\ live' = [live EXCEPT ![w] = @ \ {<<m.req, m.id>>}]
       /\ Report(w, {m.id})
    /\ job' = [job EXCEPT ![w] = NoJob]
    /\ UNCHANGED <<align, schedulerVars, step, hostVars, mem, device, queue, fatal, faultVars, store, epoch>>

\* Mutant of Done: only a success is reported.
DoneReportsSuccess(w) ==
    /\ job[w] # NoJob /\ job[w].todo = {}
    /\ LET m == job[w].meta IN
       /\ offset' = IF job[w].ok /\ <<m.req, m.id>> \in live[w] /\ offset[w][m.req] < m.len
                    THEN [offset EXCEPT ![w][m.req] = m.len] ELSE offset
       /\ live' = [live EXCEPT ![w] = @ \ {<<m.req, m.id>>}]
       /\ Report(w, IF job[w].ok THEN {m.id} ELSE {})
    /\ job' = [job EXCEPT ![w] = NoJob]
    /\ UNCHANGED <<align, schedulerVars, step, hostVars, mem, device, queue, fatal, faultVars, store, epoch>>

\* A success advances the saved offset of a live job; the job is over.
Done(w) ==
    /\ job[w] # NoJob /\ job[w].todo = {}
    /\ LET m == job[w].meta IN
       /\ offset' = IF job[w].ok /\ <<m.req, m.id>> \in live[w] /\ offset[w][m.req] < m.len
                    THEN [offset EXCEPT ![w][m.req] = m.len] ELSE offset
       /\ live' = [live EXCEPT ![w] = @ \ {<<m.req, m.id>>}]
       /\ Report(w, {m.id})
    /\ job' = [job EXCEPT ![w] = NoJob]
    /\ UNCHANGED <<align, schedulerVars, step, hostVars, mem, device, queue, fatal, faultVars, store, epoch>>

PassFence(w) ==
    /\ queue[w] # <<>> /\ Head(queue[w]) = Fence /\ job[w] = NoJob
    /\ queue' = [queue EXCEPT ![w] = Tail(@)]
    /\ fence' = [fence EXCEPT ![w] = "done"]
    /\ UNCHANGED <<align, schedulerVars, step, host, retired, reported, mem, device, job, live, offset, completed, fatal,
                   faultVars, store, epoch>>

\* Mutant of Fail: the fence is drained and stays closed.
FailFenced(w) ==
    /\ job[w] # NoJob /\ faults < MaxFaults
    /\ faults' = faults + 1
    /\ LET failed == {m \in Jobs(w) \cup {job[w].meta} : <<m.req, m.id>> \in live[w]} IN
       /\ live' = [live EXCEPT ![w] = @ \ {<<m.req, m.id>> : m \in failed}]
       /\ Report(w, {m.id : m \in failed})
    /\ fatal' = [fatal EXCEPT ![w] = TRUE]
    /\ queue' = [queue EXCEPT ![w] = <<>>] /\ job' = [job EXCEPT ![w] = NoJob]
    /\ UNCHANGED <<align, schedulerVars, step, hostVars, mem, device, offset, crashed, store, epoch>>

\* An unexpected error in the dispatch of a request: the thread reports the
\* live jobs it drains, opens the fence and ends.
Fail(w) ==
    /\ job[w] # NoJob /\ faults < MaxFaults
    /\ faults' = faults + 1
    /\ LET failed == {m \in Jobs(w) \cup {job[w].meta} : <<m.req, m.id>> \in live[w]} IN
       /\ live' = [live EXCEPT ![w] = @ \ {<<m.req, m.id>> : m \in failed}]
       /\ Report(w, {m.id : m \in failed})
    /\ fatal' = [fatal EXCEPT ![w] = TRUE]
    /\ fence' = [fence EXCEPT ![w] = "done"]
    /\ queue' = [queue EXCEPT ![w] = <<>>] /\ job' = [job EXCEPT ![w] = NoJob]
    /\ UNCHANGED <<align, schedulerVars, step, host, retired, reported, mem, device, offset, crashed, store, epoch>>

\* The engine has stopped, or has nothing left to do.
Rest ==
    /\ crashed \/ (step.phase = "none" /\ finished = {} /\ DOMAIN sending = {} /\ \A r \in Req : status[r] = "finished")
    /\ UNCHANGED vars

Engine == BeginPass \/ Dispatch \/ UpdateConnectorOutput
Host(w) == Poll(w) \/ Execute(w) \/ Raise(w) \/ GetFinished(w)
Thread(w) == Take(w) \/ Put(w) \/ Done(w) \/ PassFence(w)

Next ==
    \/ Engine \/ Reset \/ Rest
    \/ \E r \in Req : Preempt(r) \/ Run(r) \/ Admit(r) \/ Finish(r)
    \/ \E w \in Worker : Host(w) \/ Compute(w) \/ Thread(w) \/ Fail(w)

Spec == Init /\ [][Next]_vars

\* The engine loop takes the next step as long as has_pending_push_work says
\* so and closes every pass, a worker that is called goes on, and the device
\* and the thread with its backend make progress.  No fault has to happen.
Fairness == WF_vars(Engine) /\ \A w \in Worker : WF_vars(Host(w)) /\ WF_vars(Compute(w)) /\ WF_vars(Thread(w))

FairSpec == Spec /\ Fairness

-----------------------------------------------------------------------------
(* Properties *)

TypeOK ==
    /\ align \in BOOLEAN /\ crashed \in BOOLEAN /\ faults \in 0 .. MaxFaults /\ epoch \in 0 .. MaxResets /\ next_id \in 1 .. MaxSaves + 1
    /\ status \in [Req -> {"waiting", "running", "finished"}]
    /\ blocks \in [Req -> Seq(Block \cup {Null})] /\ saved \in [Req -> Nat] /\ finished \subseteq Req
    /\ DOMAIN sending \subseteq 1 .. MaxSaves
    /\ \A e \in DOMAIN sending : sending[e] \in [blocks : SUBSET Block, count : Nat]
    /\ step.phase \in {"none", "plan", "run"} /\ step.save \in Seq(ReqMeta)
    /\ step.load \cup step.write \subseteq Block \X Key
    /\ step.scheduled \cup step.preempted \cup step.finished \subseteq Req
    /\ host \in [Worker -> {"idle", "called", "waiting", "launched", "done"}]
    /\ fence \in [Worker -> {"none", "pending", "done"}]
    /\ retired \in [Worker -> SUBSET Req] /\ offset \in [Worker -> [Req -> Nat]]
    /\ mem \in [Worker -> [Block -> Contents \cup {Nothing}]]
    /\ store \in [Worker -> [Key -> Contents \cup {Nothing}]]
    /\ device \in [Worker -> SUBSET (Block \X Contents)]
    /\ \A w \in Worker : /\ queue[w] \in Seq(ReqMeta \cup {Fence})
                         /\ job[w] = NoJob \/ job[w].meta \in ReqMeta
                         /\ live[w] \subseteq Req \X (1 .. MaxSaves)
                         /\ completed[w] \cup reported[w] \subseteq 1 .. MaxSaves
    /\ fatal \in [Worker -> BOOLEAN]

\* The jobs a thread has yet to finish.
Unfinished(w) == Jobs(w) \cup IF job[w] = NoJob THEN {} ELSE {job[w].meta}

\* Whatever the thread stores under a key is the KV of that key: no block is
\* overwritten, by the forward pass or a load of a later step, between the
\* save of a step and the put (handle_preemptions, the fence of add_save_batch,
\* current_event.synchronize).
StoreIntact ==
    \A w \in Worker, k \in Key : store[w][k] # Nothing => store[w][k][1] = k

\* Between steps every slot of a running request holds the KV of its chunk,
\* on every rank, whether computed or loaded.
RunsOnItsKV ==
    step.phase = "none" =>
        \A r \in Req, w \in Worker : \A i \in DOMAIN blocks[r] :
            blocks[r][i] # Null => mem[w][blocks[r][i]] # Nothing /\ mem[w][blocks[r][i]][1] = Prompt[r][i]

\* The ranks that have not been counted for event e.
Owing(e) ==
    {w \in Worker :
        \/ host[w] \in (IF step.phase = "plan" THEN {"idle"} ELSE {"called", "waiting"}) /\ \E i \in DOMAIN step.save : step.save[i].id = e
        \/ \E m \in Unfinished(w) : m.id = e
        \/ e \in completed[w] \cup reported[w]}

\* InFlightSaveBlockTracker: the workers counted for an event and the workers
\* that still owe it are all the workers, so the blocks are released at the
\* last report and not before; and nobody owes an event that is not pending,
\* so no report is "an invalid event".
EventsConserved ==
    align => /\ \A e \in DOMAIN sending : sending[e].count + Cardinality(Owing(e)) = Cardinality(Worker)
             /\ \A e \in 1 .. MaxSaves : Owing(e) # {} => e \in DOMAIN sending

\* A job that the thread dispatches is live: get_finished never forgets a
\* request whose save is queued or running, so no save is dropped, every
\* success advances its offset, and no id is retired.
SavesNotDropped ==
    \A w \in Worker : /\ \A m \in Unfinished(w) : <<m.req, m.id>> \in live[w]
                      /\ retired[w] = {}

\* _saved_offsets is durable: what a later save of a running request skips is
\* in the store of that rank.
OffsetDurable ==
    ~align => \A r \in Req, w \in Worker :
        status[r] = "running" =>
            \A i \in 1 .. offset[w][r] : store[w][Prompt[r][i]] # Nothing

\* reset_store: no put lands after remove_all and repopulates the pool with
\* the KV of earlier weights.
StoreFresh ==
    \A w \in Worker, k \in Key : store[w][k] # Nothing => store[w][k][2] = epoch

\* The pins of an align-state group keep reset_store away from pending puts.
PinnedStoreFresh == align => StoreFresh

\* The wait for the previous batch ends, even when the store thread dies.
FenceOpens == \A w \in Worker : (fence[w] = "pending") ~> (fence[w] # "pending")

\* Pinned blocks are released, unless the engine has stopped: the engine goes
\* on stepping until every worker's report has been collected.
PinsReleased == \A e \in 1 .. MaxSaves : (e \in DOMAIN sending) ~> (e \notin DOMAIN sending \/ crashed)
=============================================================================
