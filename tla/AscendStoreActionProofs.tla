----------------------- MODULE AscendStoreActionProofs ------------------------
(***************************************************************************)
(* The steps of the workers and of their store threads keep IInv, the      *)
(* invariant of AscendStoreSave that is about the KV.  The steps that      *)
(* plan, queue, carry out and report a save keep EInv, the invariant that  *)
(* follows it from the plan to the ledger of the scheduler, and OInv, which*)
(* says what an offset of _saved_offsets stands for.                       *)
(***************************************************************************)
EXTENDS AscendStoreInvariant, WellFoundedInduction, FiniteSetTheorems

-----------------------------------------------------------------------------
(* Operators *)

\* A set of numbers up to L has a greatest.
LEMMA GreatestExists ==
    ASSUME NEW L \in Nat, NEW H, H \subseteq 1 .. L, H # {}
    PROVE  \E n \in H : \A m \in H : m =< n
<1> DEFINE S == {x \in Nat : L - x \in H}
<1>1. S \subseteq Nat /\ S # {}
  <2>1. PICK n \in H : TRUE
    BY ZenonT(40)
  <2>2. L - n \in Nat /\ L - (L - n) = n
    BY <2>1
  <2> QED BY <2>1, <2>2, Zenon
<1>2. PICK s \in S : \A t \in S : <<t, s>> \notin OpToRel(<, Nat)
  BY <1>1, NatLessThanWellFounded, WFMin, ZenonT(40)
<1>3. \A t \in S : ~ (t < s)
  BY <1>1, <1>2, ZenonT(40) DEF OpToRel
<1>4. \A m \in H : L - m \in S
  BY SMT, Zenon
<1>5. \A m \in H : m =< L - s
  BY <1>1, <1>3, <1>4
<1> QED BY <1>2, <1>5, ZenonT(40)

\* A prefix that lookup_scheduler reports is a prefix of the prompt, and what
\* is to be loaded of it is in the store of every rank.
LEMMA HitIsStored ==
    ASSUME NEW r \in Req
    PROVE  /\ Hit(r) \in 0 .. Len(Prompt[r]) /\ Len(Prompt[r]) \in Nat
           /\ \A i \in 1 .. Hit(r) : (align /\ i < Hit(r)) \/ \A w \in Worker : store[w][Prompt[r][i]] # Nothing
<1>1. Len(Prompt[r]) \in Nat
  BY PromptAssumption
<1>2. CASE Hits(r) = {}
  BY <1>1, <1>2 DEF Hit
<1>3. CASE Hits(r) # {}
  <2>1. Hits(r) \subseteq 1 .. Len(Prompt[r])
    BY Zenon DEF Hits
  <2>2. \E n \in Hits(r) : \A m \in Hits(r) : m =< n
    BY <1>1, <1>3, <2>1, GreatestExists, Zenon
  <2>3. Hit(r) \in Hits(r)
    BY <1>3, <2>2, ZenonT(40) DEF Hit
  <2> QED BY <1>1, <2>1, <2>3 DEF Hits
<1> QED BY <1>2, <1>3, Zenon

\* Nothing that decides what a block holds has changed.
LEMMA GoodUnchanged ==
    ASSUME UNCHANGED <<align, epoch, mem, device>>, NEW w, NEW b, NEW k
    PROVE  Good(w, b, k)' = Good(w, b, k)
BY Zenon DEF Good, Right

\* A step of a worker or of its thread leaves the plan alone.
LEMMA PlanUnchanged ==
    ASSUME Disjoint, Scheduled, UNCHANGED <<status, blocks, step>>
    PROVE  Disjoint' /\ Scheduled'
BY DEF Disjoint, Scheduled

\* A step of the thread leaves the worker and its memory alone.
LEMMA WorkerUnchanged ==
    ASSUME Disjoint, Scheduled, Phases, Slots, UNCHANGED <<align, epoch, status, blocks, step, host, mem, device>>
    PROVE  Disjoint' /\ Scheduled' /\ Phases' /\ Slots'
<1>1. Disjoint' /\ Scheduled'
  BY PlanUnchanged, Zenon
<1>2. Phases'
  BY Zenon DEF Phases
<1>3. \A w, b : Planned(w, b)' = Planned(w, b)
  BY Zenon DEF Planned
<1>4. \A w, b, k : Good(w, b, k)' = Good(w, b, k)
  BY GoodUnchanged, Zenon
<1>5. Slots'
  BY <1>3, <1>4, Zenon DEF Slots
<1> QED BY <1>1, <1>2, <1>5, Zenon

\* Whether the blocks of a save hold its chunks depends on the memory only.
LEMMA HoldsUnchanged ==
    ASSUME UNCHANGED <<align, epoch, mem, device>>, NEW w, NEW m
    PROVE  Holds(w, m)' = Holds(w, m)
<1>1. \A b, k : Good(w, b, k)' = Good(w, b, k)
  BY GoodUnchanged, Zenon
<1> QED BY <1>1, Zenon DEF Holds

-----------------------------------------------------------------------------
(* The store thread *)

\* A step of the thread of w changes its queue, its job and its fence, and
\* what it stores is the KV of the key.
LEMMA ThreadPuts ==
    ASSUME IInv, NEW w \in Worker,
           UNCHANGED <<align, epoch, status, blocks, step, finished, next_id, host, mem, device>>,
           NEW q \in Seq(ReqMeta \cup {Fence}), NEW n \in Job, NEW f \in {"none", "pending", "done"},
           queue' = [queue EXCEPT ![w] = q], job' = [job EXCEPT ![w] = n], fence' = [fence EXCEPT ![w] = f],
           store' \in [Worker -> [Key -> Content]], Loads', StoreRight',
           IsFenced(f, q, n), QueueHolds(w, q), JobHolds(w, n)
    PROVE  IInv'
<1>1. /\ queue'[w] = q /\ job'[w] = n /\ fence'[w] = f
      /\ \A v \in Worker \ {w} : queue'[v] = queue[v] /\ job'[v] = job[v] /\ fence'[v] = fence[v]
  BY Zenon DEF IInv, Typed, WorkerTyped, ThreadTyped
<1>2. Typed'
  <2>1. PlanTyped'
    BY Zenon DEF IInv, Typed, PlanTyped
  <2>2. WorkerTyped'
    BY Zenon DEF IInv, Typed, WorkerTyped
  <2>3. ThreadTyped'
    BY ZenonT(40) DEF IInv, Typed, ThreadTyped
  <2> QED BY <2>1, <2>2, <2>3, Zenon DEF Typed
<1>3. Disjoint' /\ Scheduled' /\ Phases' /\ Slots'
  BY WorkerUnchanged, Zenon DEF IInv
<1>4. Fenced'
  BY <1>1, Zenon DEF IInv, Fenced
<1>5. \A v, m : Holds(v, m)' = Holds(v, m)
  BY HoldsUnchanged, Zenon
<1>6. \A v \in Worker : QueueHolds(v, queue'[v]) /\ JobHolds(v, job'[v])
  BY <1>1, Zenon DEF IInv, Saves
<1>7. Saves'
  BY <1>5, <1>6, Zenon DEF Saves, QueueHolds, JobHolds
<1> QED BY <1>2, <1>3, <1>4, <1>7, Zenon DEF IInv

\* A step of the thread of w that stores nothing.
LEMMA ThreadStep ==
    ASSUME IInv, NEW w \in Worker,
           UNCHANGED <<align, epoch, status, blocks, step, finished, next_id, host, mem, device, store>>,
           NEW q \in Seq(ReqMeta \cup {Fence}), NEW n \in Job, NEW f \in {"none", "pending", "done"},
           queue' = [queue EXCEPT ![w] = q], job' = [job EXCEPT ![w] = n], fence' = [fence EXCEPT ![w] = f],
           IsFenced(f, q, n), QueueHolds(w, q), JobHolds(w, n)
    PROVE  IInv'
<1>1. Loads' /\ StoreRight'
  BY Zenon DEF IInv, Loads, StoreRight, Right
<1>2. store' \in [Worker -> [Key -> Content]]
  BY Zenon DEF IInv, Typed, ThreadTyped
<1> QED BY <1>1, <1>2, ThreadPuts, ZenonT(40)

\* Take moves the head of the queue to the job, or drops it.
LEMMA TakePreserves ==
    ASSUME IInv, NEW w \in Worker, Take(w)
    PROVE  IInv'
<1> DEFINE m == Head(queue[w])
           t == [meta |-> m, todo |-> Missing(w, m), ok |-> TRUE]
<1>1. /\ queue[w] \in Seq(ReqMeta \cup {Fence}) /\ queue[w] # <<>> /\ m # Fence
      /\ m = queue[w][1] /\ m \in ReqMeta /\ 1 \in DOMAIN queue[w]
      /\ job[w] = NoJob /\ job[w] \in Job /\ fence[w] \in {"none", "pending", "done"}
      /\ queue' = [queue EXCEPT ![w] = Tail(queue[w])]
      /\ UNCHANGED <<align, epoch, status, blocks, step, finished, next_id, host, fence, mem, device, store>>
  BY DEF Take, IInv, Typed, WorkerTyped, ThreadTyped, schedulerVars, hostVars, faultVars
<1>2. fence' = [fence EXCEPT ![w] = fence[w]]
  BY <1>1, Zenon DEF IInv, Typed, WorkerTyped
<1>3. job' = [job EXCEPT ![w] = NoJob] \/ job' = [job EXCEPT ![w] = t]
  BY <1>1, Zenon DEF Take, IInv, Typed, ThreadTyped
<1>4. Missing(w, m) \subseteq {i \in 1 .. m.len : m.blocks[i] # Null} /\ Missing(w, m) \subseteq Nat
  BY <1>1 DEF Missing, ReqMeta
<1>5. t \in Job /\ NoJob \in Job
  BY <1>1, <1>4, Zenon DEF Job
<1>6. fence[w] = "pending" /\ \A i \in DOMAIN queue[w] : queue[w][i] = Fence <=> i = Len(queue[w])
  BY <1>1, Zenon DEF IInv, Fenced, IsFenced
<1> DEFINE q == Tail(queue[w])
<1>7. /\ q \in Seq(ReqMeta \cup {Fence})
      /\ \A i \in DOMAIN q : i + 1 \in DOMAIN queue[w] /\ q[i] = queue[w][i + 1] /\ i \in Nat
      /\ Len(q) = Len(queue[w]) - 1 /\ Len(queue[w]) \in Nat
  BY <1>1
<1>8. IsFenced(fence[w], q, NoJob) /\ IsFenced(fence[w], q, t)
  BY <1>6, <1>7 DEF IsFenced
<1>9. QueueHolds(w, queue[w])
  BY Zenon DEF IInv, Saves
<1>10. QueueHolds(w, q)
  BY <1>7, <1>9, Zenon DEF QueueHolds
<1>11. JobHolds(w, NoJob) /\ JobHolds(w, t)
  BY <1>1, <1>4, <1>9, Zenon DEF QueueHolds, JobHolds
<1> HIDE DEF t, q, m
<1>12. CASE job' = [job EXCEPT ![w] = NoJob]
  BY <1>1, <1>2, <1>5, <1>7, <1>8, <1>10, <1>11, <1>12, ThreadStep, ZenonT(40) DEF q
<1>13. CASE job' = [job EXCEPT ![w] = t]
  BY <1>1, <1>2, <1>5, <1>7, <1>8, <1>10, <1>11, <1>13, ThreadStep, ZenonT(40) DEF q
<1> QED BY <1>3, <1>12, <1>13, Zenon

\* Done ends the job.
LEMMA DonePreserves ==
    ASSUME IInv, NEW w \in Worker, Done(w)
    PROVE  IInv'
<1>1. /\ job' = [job EXCEPT ![w] = NoJob]
      /\ UNCHANGED <<align, epoch, status, blocks, step, finished, next_id, host, fence, mem, device, queue, store>>
  BY Zenon DEF Done, schedulerVars, hostVars, faultVars
<1>2. fence' = [fence EXCEPT ![w] = fence[w]] /\ queue' = [queue EXCEPT ![w] = queue[w]]
  BY <1>1, Zenon DEF IInv, Typed, WorkerTyped, ThreadTyped
<1>3. fence[w] \in {"none", "pending", "done"} /\ queue[w] \in Seq(ReqMeta \cup {Fence}) /\ NoJob \in Job
  BY Zenon DEF IInv, Typed, WorkerTyped, ThreadTyped, NoJob, Job
<1>4. IsFenced(fence[w], queue[w], NoJob)
  BY Zenon DEF IInv, Fenced, IsFenced
<1>5. QueueHolds(w, queue[w]) /\ JobHolds(w, NoJob)
  BY Zenon DEF IInv, Saves, JobHolds
<1> QED BY <1>1, <1>2, <1>3, <1>4, <1>5, ThreadStep, ZenonT(40)

\* PassFence opens the fence: it was the last entry of the queue.
LEMMA PassFencePreserves ==
    ASSUME IInv, NEW w \in Worker, PassFence(w)
    PROVE  IInv'
<1>1. /\ queue' = [queue EXCEPT ![w] = Tail(queue[w])] /\ fence' = [fence EXCEPT ![w] = "done"]
      /\ queue[w] # <<>> /\ Head(queue[w]) = Fence /\ job[w] = NoJob
      /\ UNCHANGED <<align, epoch, status, blocks, step, finished, next_id, host, job, mem, device, store>>
  BY Zenon DEF PassFence, schedulerVars, hostVars, faultVars
<1>2. /\ job' = [job EXCEPT ![w] = NoJob] /\ queue[w] \in Seq(ReqMeta \cup {Fence})
      /\ NoJob \in Job
  BY <1>1, Zenon DEF IInv, Typed, ThreadTyped, NoJob, Job
<1>3. \A i \in DOMAIN queue[w] : queue[w][i] = Fence <=> i = Len(queue[w])
  BY Zenon DEF IInv, Fenced, IsFenced
<1>4. Tail(queue[w]) = <<>>
  BY <1>1, <1>2, <1>3
<1>5. IsFenced("done", <<>>, NoJob) /\ QueueHolds(w, <<>>) /\ JobHolds(w, NoJob)
  BY DEF IsFenced, QueueHolds, JobHolds
<1>6. <<>> \in Seq(ReqMeta \cup {Fence}) /\ "done" \in {"none", "pending", "done"}
  OBVIOUS
<1> QED BY <1>1, <1>2, <1>4, <1>5, <1>6, ThreadStep, ZenonT(40)

\* Fail drains the queue and opens the fence.
LEMMA FailPreserves ==
    ASSUME IInv, NEW w \in Worker, Fail(w)
    PROVE  IInv'
<1>1. /\ queue' = [queue EXCEPT ![w] = <<>>] /\ fence' = [fence EXCEPT ![w] = "done"]
      /\ job' = [job EXCEPT ![w] = NoJob]
      /\ UNCHANGED <<align, epoch, status, blocks, step, finished, next_id, host, mem, device, store>>
  BY Zenon DEF Fail, schedulerVars, hostVars, faultVars
<1>2. NoJob \in Job
  BY Zenon DEF NoJob, Job
<1>3. IsFenced("done", <<>>, NoJob) /\ QueueHolds(w, <<>>) /\ JobHolds(w, NoJob)
  BY DEF IsFenced, QueueHolds, JobHolds
<1>4. <<>> \in Seq(ReqMeta \cup {Fence}) /\ "done" \in {"none", "pending", "done"}
  OBVIOUS
<1> QED BY <1>1, <1>2, <1>3, <1>4, ThreadStep, ZenonT(40)

\* Put stores a chunk from a block that holds it.
LEMMA PutPreserves ==
    ASSUME IInv, NEW w \in Worker, Put(w)
    PROVE  IInv'
<1> DEFINE n == job[w]
           m == job[w].meta
<1>1. PICK i \in n.todo, ok \in BOOLEAN :
        /\ job' = [job EXCEPT ![w] = [meta |-> m, todo |-> n.todo \ {i}, ok |-> n.ok /\ ok]]
        /\ store' = IF ok THEN [store EXCEPT ![w][Prompt[m.req][i]] = mem[w][m.blocks[i]]] ELSE store
  BY ZenonT(40) DEF Put
<1>2. /\ device[w] = {} /\ n \in Job /\ n # NoJob
      /\ UNCHANGED <<align, epoch, status, blocks, step, finished, next_id, host, fence, mem, device, queue>>
  BY <1>1 DEF Put, schedulerVars, hostVars, faultVars, IInv, Typed, ThreadTyped, NoJob
<1>3. JobHolds(w, n) /\ QueueHolds(w, queue[w]) /\ IsFenced(fence[w], queue[w], n)
  BY Zenon DEF IInv, Saves, Fenced
<1>4. m \in ReqMeta /\ Holds(w, m) /\ i \in 1 .. m.len /\ m.blocks[i] # Null
  BY <1>1, <1>2, <1>3, Zenon DEF JobHolds
<1> DEFINE k == Prompt[m.req][i]
           b == m.blocks[i]
<1>5. k \in Key /\ b \in Block
  BY <1>4, PromptAssumption DEF Holds, ReqMeta
<1>6. Good(w, b, k)
  BY <1>4, Zenon DEF Holds
<1>7. Right(mem[w][b], k) /\ mem[w][b] \in Content
  BY <1>2, <1>5, <1>6, ZenonT(40) DEF Good, IInv, Typed, WorkerTyped
<1> DEFINE t == [meta |-> m, todo |-> n.todo \ {i}, ok |-> n.ok /\ ok]
<1>8. job' = [job EXCEPT ![w] = t] /\ t \in Job
  BY <1>1, <1>2, Zenon DEF Job
<1>9. JobHolds(w, t) /\ IsFenced(fence[w], queue[w], t)
  BY <1>2, <1>3, <1>4, Zenon DEF JobHolds, IsFenced
<1>10. /\ store' \in [Worker -> [Key -> Content]]
       /\ \A v \in Worker, x \in Key : store'[v][x] = store[v][x] \/ (v = w /\ x = k /\ store'[v][x] = mem[w][b])
  BY <1>1, <1>5, <1>7, ZenonT(40) DEF IInv, Typed, ThreadTyped
<1> HIDE DEF t, k, b
<1>11. StoreRight'
  <2> SUFFICES ASSUME NEW v \in Worker, NEW x \in Key, store'[v][x] # Nothing
               PROVE  Right(store'[v][x], x)
    BY <1>2, Zenon DEF StoreRight, Right
  <2>1. CASE store'[v][x] = store[v][x]
    BY <2>1, Zenon DEF IInv, StoreRight
  <2>2. CASE x = k /\ store'[v][x] = mem[w][b]
    BY <2>2, <1>7, Zenon
  <2> QED BY <2>1, <2>2, <1>10, Zenon
<1>12. Loads'
  <2> SUFFICES ASSUME NEW v \in Worker, NEW x \in step.load PROVE store'[v][x[2]] # Nothing
    BY <1>2, Zenon DEF Loads
  <2>1. x[2] \in Key
    BY Zenon DEF IInv, Typed, PlanTyped
  <2>2. store[v][x[2]] # Nothing
    BY Zenon DEF IInv, Loads
  <2> QED BY <2>1, <2>2, <1>7, <1>10, Zenon DEF Right
<1>13. /\ fence' = [fence EXCEPT ![w] = fence[w]] /\ queue' = [queue EXCEPT ![w] = queue[w]]
       /\ fence[w] \in {"none", "pending", "done"} /\ queue[w] \in Seq(ReqMeta \cup {Fence})
  BY <1>2, Zenon DEF IInv, Typed, WorkerTyped, ThreadTyped
<1> QED BY <1>2, <1>3, <1>8, <1>9, <1>10, <1>11, <1>12, <1>13, ThreadPuts, ZenonT(40)

-----------------------------------------------------------------------------
(* The worker *)

\* A worker that is still before its launch, or still behind it, touches nothing.
LEMMA HostMoves ==
    ASSUME IInv, NEW w \in Worker, NEW h \in {"called", "waiting", "launched", "done"},
           UNCHANGED <<align, epoch, status, blocks, step, finished, next_id, fence, mem, device, queue, job, store>>,
           host' = [host EXCEPT ![w] = h], host[w] # "idle",
           host[w] \in {"called", "waiting"} <=> h \in {"called", "waiting"},
           device[w] = {}
    PROVE  IInv'
<1>1. /\ host'[w] = h /\ \A v \in Worker \ {w} : host'[v] = host[v]
      /\ host' \in [Worker -> {"idle", "called", "waiting", "launched", "done"}]
  BY Zenon DEF IInv, Typed, WorkerTyped
<1>2. Typed'
  <2>1. PlanTyped' /\ ThreadTyped'
    BY Zenon DEF IInv, Typed, PlanTyped, ThreadTyped
  <2>2. WorkerTyped'
    BY <1>1, Zenon DEF IInv, Typed, WorkerTyped
  <2> QED BY <2>1, <2>2, Zenon DEF Typed
<1>3. Disjoint' /\ Scheduled'
  BY PlanUnchanged, Zenon DEF IInv
<1>4. step.phase = "run"
  BY Zenon DEF IInv, Phases, Typed, PlanTyped
<1>5. Phases'
  BY <1>1, <1>4, Zenon DEF IInv, Phases
<1>6. \A v \in Worker : host'[v] \in {"called", "waiting"} <=> host[v] \in {"called", "waiting"}
  BY <1>1, Zenon
<1>7. \A v \in Worker : \A b : Planned(v, b)' <=> Planned(v, b)
  BY <1>6, Zenon DEF Planned
<1>8. \A v, b, k : Good(v, b, k)' = Good(v, b, k)
  BY GoodUnchanged, Zenon
<1>9. Slots'
  BY <1>7, <1>8, Zenon DEF IInv, Slots
<1>10. \A v, m : Holds(v, m)' = Holds(v, m)
  BY HoldsUnchanged, Zenon
<1>11. Saves'
  BY <1>10, Zenon DEF IInv, Saves, QueueHolds, JobHolds
<1>12. Fenced' /\ Loads' /\ StoreRight'
  BY DEF IInv, Fenced, Loads, StoreRight, Right
<1> QED BY <1>2, <1>3, <1>5, <1>9, <1>11, <1>12, Zenon DEF IInv

\* Poll goes on waiting before the launch.
LEMMA PollPreserves ==
    ASSUME IInv, NEW w \in Worker, Poll(w)
    PROVE  IInv'
<1>1. /\ host' = [host EXCEPT ![w] = "waiting"] /\ host[w] = "called"
      /\ UNCHANGED <<align, epoch, status, blocks, step, finished, next_id, fence, mem, device, queue, job, store>>
  BY Zenon DEF Poll, schedulerVars, threadVars, faultVars
<1>2. device[w] = {}
  BY <1>1, Zenon DEF IInv, Phases
<1> QED BY <1>1, <1>2, HostMoves, ZenonT(40)

\* GetFinished waits for the writes of the step.
LEMMA GetFinishedPreserves ==
    ASSUME IInv, NEW w \in Worker, GetFinished(w)
    PROVE  IInv'
<1>1. /\ host' = [host EXCEPT ![w] = "done"] /\ host[w] = "launched" /\ device[w] = {}
      /\ UNCHANGED <<align, epoch, status, blocks, step, finished, next_id, fence, mem, device, queue, job, store>>
  BY Zenon DEF GetFinished, schedulerVars, faultVars
<1> QED BY <1>1, HostMoves, ZenonT(40)

\* What a block will hold once the writes are done, it holds when they are.
LEMMA WritesDone ==
    ASSUME IInv, NEW w \in Worker, Compute(w), NEW v \in Worker, NEW b \in Block, NEW k, Good(v, b, k)
    PROVE  Good(v, b, k)'
<1>1. /\ mem' = [mem EXCEPT ![w] = [c \in Block |->
             IF \E x \in device[w] : x[1] = c THEN (CHOOSE x \in device[w] : x[1] = c)[2] ELSE mem[w][c]]]
      /\ device' = [device EXCEPT ![w] = {}]
      /\ UNCHANGED <<align, epoch>>
  BY Zenon DEF Compute
<1>2. mem \in [Worker -> [Block -> Content]] /\ device \in [Worker -> SUBSET (Block \X Contents)]
  BY Zenon DEF IInv, Typed, WorkerTyped
<1>3. CASE v # w
  <2>1. mem'[v] = mem[v] /\ device'[v] = device[v]
    BY <1>1, <1>2, <1>3, Zenon
  <2> QED BY <1>1, <2>1, Zenon DEF Good, Right
<1>4. CASE v = w /\ \E x \in device[w] : x[1] = b
  <2> DEFINE y == CHOOSE x \in device[w] : x[1] = b
  <2>1. y \in device[w] /\ y[1] = b
    BY <1>4, Zenon
  <2>2. mem'[w][b] = y[2] /\ device'[w] = {}
    BY <1>1, <1>2, <1>4, Zenon
  <2> HIDE DEF y
  <2>3. Right(y[2], k)
    BY <1>4, <2>1, Zenon DEF Good
  <2>4. Right(mem'[w][b], k)
    BY <2>2, <2>3, Zenon
  <2> QED BY <1>1, <1>4, <2>2, <2>4, Zenon DEF Good, Right
<1>5. CASE v = w /\ ~ \E x \in device[w] : x[1] = b
  <2>1. mem'[w][b] = mem[w][b] /\ device'[w] = {}
    BY <1>1, <1>2, <1>5, Zenon
  <2> QED BY <1>1, <1>5, <2>1, Zenon DEF Good, Right
<1> QED BY <1>3, <1>4, <1>5, Zenon

\* What the saves rely on survives a step that takes no content from a block.
LEMMA SavesSurvive ==
    ASSUME IInv, NEW w \in Worker, NEW q \in Seq(ReqMeta \cup {Fence}), NEW n \in Job, QueueHolds(w, q), JobHolds(w, n),
           \A b \in Block : \A k : Good(w, b, k) => Good(w, b, k)'
    PROVE  QueueHolds(w, q)' /\ JobHolds(w, n)'
<1>1. ASSUME NEW m \in ReqMeta, Holds(w, m) PROVE Holds(w, m)'
  <2> SUFFICES ASSUME NEW i \in 1 .. m.len, m.blocks[i] # Null
               PROVE  Good(w, m.blocks[i], Prompt[m.req][i])'
    BY <1>1, Zenon DEF Holds
  <2>1. m.blocks[i] \in Block
    BY <1>1 DEF Holds, ReqMeta
  <2>2. Good(w, m.blocks[i], Prompt[m.req][i])
    BY <1>1, Zenon DEF Holds
  <2> QED BY <2>1, <2>2, Zenon
<1>2. QueueHolds(w, q)'
  BY <1>1 DEF QueueHolds
<1>3. JobHolds(w, n)'
  BY <1>1, Zenon DEF JobHolds
<1> QED BY <1>2, <1>3, Zenon

\* Compute carries out the writes.
LEMMA ComputePreserves ==
    ASSUME IInv, NEW w \in Worker, Compute(w)
    PROVE  IInv'
<1>1. /\ mem' = [mem EXCEPT ![w] = [c \in Block |->
             IF \E x \in device[w] : x[1] = c THEN (CHOOSE x \in device[w] : x[1] = c)[2] ELSE mem[w][c]]]
      /\ device' = [device EXCEPT ![w] = {}]
      /\ UNCHANGED <<align, epoch, status, blocks, step, finished, next_id, host, fence, queue, job, store>>
  BY Zenon DEF Compute, schedulerVars, hostVars, threadVars, faultVars
<1>2. \A v \in Worker : \A b \in Block : \A k : Good(v, b, k) => Good(v, b, k)'
  BY WritesDone, Zenon
<1>3. Typed'
  <2>1. PlanTyped' /\ ThreadTyped'
    BY <1>1, Zenon DEF IInv, Typed, PlanTyped, ThreadTyped
  <2>2. mem \in [Worker -> [Block -> Content]] /\ device \in [Worker -> SUBSET (Block \X Contents)]
    BY Zenon DEF IInv, Typed, WorkerTyped
  <2>3. ASSUME NEW c \in Block, \E x \in device[w] : x[1] = c
        PROVE  (CHOOSE x \in device[w] : x[1] = c)[2] \in Content
    <3>1. (CHOOSE x \in device[w] : x[1] = c) \in device[w]
      BY <2>3, Zenon
    <3> QED BY <2>2, <3>1 DEF Content
  <2>4. mem' \in [Worker -> [Block -> Content]]
    BY <1>1, <2>2, <2>3, Zenon
  <2>5. device' \in [Worker -> SUBSET (Block \X Contents)]
    BY <1>1, <2>2, Zenon
  <2>6. WorkerTyped'
    BY <1>1, <2>4, <2>5, Zenon DEF IInv, Typed, WorkerTyped
  <2> QED BY <2>1, <2>6, Zenon DEF Typed
<1>4. Disjoint' /\ Scheduled'
  BY <1>1, PlanUnchanged, Zenon DEF IInv
<1>5. Phases'
  BY <1>1, Zenon DEF IInv, Phases, Typed, WorkerTyped
<1>6. Slots'
  <2> SUFFICES ASSUME NEW v \in Worker, NEW r \in Req, NEW i \in DOMAIN blocks[r], blocks[r][i] # Null
               PROVE  IF Planned(v, blocks[r][i])
                      THEN \A k \in Key : <<blocks[r][i], k>> \in step.load \cup step.write => k = Prompt[r][i]
                      ELSE Good(v, blocks[r][i], Prompt[r][i])'
    BY <1>1 DEF Slots, Planned
  <2>1. blocks[r][i] \in Block
    BY DEF IInv, Typed, PlanTyped, Slot
  <2>2. IF Planned(v, blocks[r][i])
        THEN \A k \in Key : <<blocks[r][i], k>> \in step.load \cup step.write => k = Prompt[r][i]
        ELSE Good(v, blocks[r][i], Prompt[r][i])
    BY Zenon DEF IInv, Slots
  <2>3. CASE Planned(v, blocks[r][i])
    BY <2>2, <2>3, Zenon
  <2>4. CASE ~Planned(v, blocks[r][i])
    <3>1. PICK b, k : b \in Block /\ b = blocks[r][i] /\ k = Prompt[r][i]
      BY <2>1, Zenon
    <3>2. Good(v, b, k)'
      BY <1>2, <2>2, <2>4, <3>1, Zenon
    <3> QED BY <1>1, <2>4, <3>1, <3>2, Zenon DEF Good, Right
  <2> QED BY <2>3, <2>4, Zenon
<1>7. Saves'
  <2> SUFFICES ASSUME NEW v \in Worker PROVE QueueHolds(v, queue[v])' /\ JobHolds(v, job[v])'
    BY Zenon DEF Saves
  <2>1. queue[v] \in Seq(ReqMeta \cup {Fence}) /\ job[v] \in Job /\ QueueHolds(v, queue[v]) /\ JobHolds(v, job[v])
    BY Zenon DEF IInv, Typed, ThreadTyped, Saves
  <2>2. PICK q, n : q = queue[v] /\ n = job[v]
    BY Zenon
  <2>3. QueueHolds(v, q)' /\ JobHolds(v, n)'
    BY <1>2, <2>1, <2>2, SavesSurvive, Zenon
  <2> QED BY <1>1, <2>2, <2>3, Zenon DEF QueueHolds, JobHolds
<1>8. Fenced' /\ Loads' /\ StoreRight'
  BY <1>1, Zenon DEF IInv, Fenced, Loads, StoreRight, Right
<1> QED BY <1>3, <1>4, <1>5, <1>6, <1>7, <1>8, Zenon DEF IInv

\* The launch gives every slot of every request the KV of its chunk.
LEMMA LaunchFills ==
    ASSUME IInv, NEW w \in Worker, Launch(w), UNCHANGED <<align, epoch>>, host[w] \in {"called", "waiting"},
           NEW r \in Req, NEW i \in DOMAIN blocks[r], blocks[r][i] # Null,
           NEW b \in Block, NEW k, b = blocks[r][i], k = Prompt[r][i]
    PROVE  Good(w, b, k)'
<1>1. /\ mem \in [Worker -> [Block -> Content]] /\ device \in [Worker -> SUBSET (Block \X Contents)]
      /\ step.load \subseteq Block \X Key /\ step.write \subseteq Block \X Key
  BY Zenon DEF IInv, Typed, PlanTyped, WorkerTyped
<1>2. /\ device'[w] = {<<x[1], <<x[2], epoch>>>> : x \in step.write}
      /\ mem'[w][b] = IF \E c \in Key : <<b, c>> \in step.load
                      THEN store[w][CHOOSE c \in Key : <<b, c>> \in step.load] ELSE mem[w][b]
  BY <1>1, ZenonT(40) DEF Launch
<1>3. IF \E c \in Key : <<b, c>> \in step.load \cup step.write
      THEN \A c \in Key : <<b, c>> \in step.load \cup step.write => c = k
      ELSE Good(w, b, k)
  BY Zenon DEF IInv, Slots, Planned
<1>4. device[w] = {}
  BY Zenon DEF IInv, Phases
<1>5. CASE \E x \in step.write : x[1] = b
  <2>1. PICK x \in step.write : x[1] = b
    BY <1>5, Zenon
  <2>2. x = <<b, x[2]>> /\ x[2] \in Key
    BY <1>1, <2>1
  <2>3. \A c \in Key : <<b, c>> \in step.load \cup step.write => c = k
    BY <1>3, <2>1, <2>2, Zenon
  <2>4. \A y \in device'[w] : y[1] = b => Right(y[2], k)
    <3> SUFFICES ASSUME NEW y \in device'[w], y[1] = b PROVE Right(y[2], k)
      BY Zenon
    <3>1. PICK z \in step.write : y = <<z[1], <<z[2], epoch>>>>
      BY <1>2, Zenon
    <3>2. z = <<b, z[2]>> /\ z[2] \in Key
      BY <1>1, <3>1
    <3>3. z[2] = k
      BY <2>3, <3>1, <3>2, Zenon
    <3>4. <<k, epoch>> # Nothing
      BY <3>2, <3>3, NothingAssumption DEF Contents, IInv, Typed, PlanTyped
    <3> QED BY <3>1, <3>3, <3>4, Zenon DEF Right
  <2>5. \E y \in device'[w] : y[1] = b
    <3>1. <<x[1], <<x[2], epoch>>>> \in device'[w]
      BY <1>2, <2>1, Zenon
    <3> QED BY <2>1, <3>1, Zenon
  <2> QED BY <2>4, <2>5, Zenon DEF Good, Right
<1>6. CASE ~ \E x \in step.write : x[1] = b
  <2>1. ~ \E y \in device'[w] : y[1] = b
    BY <1>2, <1>6
  <2>2. Right(mem'[w][b], k)
    <3>1. CASE \E c \in Key : <<b, c>> \in step.load
      <4> DEFINE c == CHOOSE c \in Key : <<b, c>> \in step.load
      <4>1. c \in Key /\ <<b, c>> \in step.load
        BY <3>1, Zenon
      <4>2. mem'[w][b] = store[w][c]
        BY <1>2, <3>1, Zenon
      <4> HIDE DEF c
      <4>3. c = k
        BY <1>3, <4>1, Zenon
      <4>4. store[w][c] # Nothing
        BY <4>1, Zenon DEF IInv, Loads
      <4>5. Right(store[w][c], c)
        BY <4>1, <4>4, Zenon DEF IInv, StoreRight
      <4> QED BY <4>2, <4>3, <4>5, Zenon
    <3>2. CASE ~ \E c \in Key : <<b, c>> \in step.load
      <4>1. mem'[w][b] = mem[w][b]
        BY <1>2, <3>2, Zenon
      <4>2. ~ \E c \in Key : <<b, c>> \in step.load \cup step.write
        BY <1>6, <3>2, Zenon
      <4>3. Good(w, b, k)
        BY <1>3, <4>2, Zenon
      <4> QED BY <1>4, <4>1, <4>3, Zenon DEF Good
    <3> QED BY <3>1, <3>2, Zenon
  <2> QED BY <2>1, <2>2, Zenon DEF Good, Right
<1> QED BY <1>5, <1>6, Zenon

\* A save is no fence.
LEMMA SaveIsNoFence == ASSUME NEW m \in ReqMeta PROVE m # Fence
BY NothingAssumption DEF ReqMeta, Fence

\* The batch of a step is well formed, and its blocks hold its chunks.
LEMMA BatchHolds ==
    ASSUME IInv, NEW w \in Worker, Launch(w), UNCHANGED <<align, epoch>>, host[w] \in {"called", "waiting"},
           NEW q, q = step.save \o <<Fence>>
    PROVE  /\ q \in Seq(ReqMeta \cup {Fence}) /\ QueueHolds(w, q)'
           /\ \A i \in DOMAIN q : q[i] = Fence <=> i = Len(q)
<1>1. step.save \in Seq(ReqMeta) /\ step.scheduled \subseteq Req /\ blocks \in [Req -> Seq(Slot)]
  BY Zenon DEF IInv, Typed, PlanTyped
<1>2. /\ q \in Seq(ReqMeta \cup {Fence}) /\ Len(q) = Len(step.save) + 1 /\ DOMAIN q = 1 .. Len(q)
      /\ \A i \in DOMAIN q : IF i \in DOMAIN step.save THEN q[i] = step.save[i] ELSE i = Len(q) /\ q[i] = Fence
      /\ Len(q) \notin DOMAIN step.save
  BY <1>1
<1>3. \A i \in DOMAIN step.save : step.save[i] \in ReqMeta /\ step.save[i] # Fence
  BY <1>1, SaveIsNoFence
<1>4. QueueHolds(w, q)'
  <2> SUFFICES ASSUME NEW j \in DOMAIN q, q[j] # Fence PROVE Holds(w, q[j])'
    BY Zenon DEF QueueHolds
  <2>1. j \in DOMAIN step.save /\ q[j] = step.save[j]
    BY <1>2, Zenon
  <2>2. PICK m \in ReqMeta : m = q[j]
    BY <1>3, <2>1, Zenon
  <2>3. m.req \in step.scheduled /\ m.blocks = blocks[m.req] /\ m.len = Len(m.blocks)
        /\ Len(blocks[m.req]) =< Len(Prompt[m.req])
    BY <1>1, <2>1, <2>2, Zenon DEF IInv, Scheduled
  <2>4. ASSUME NEW i \in 1 .. m.len, m.blocks[i] # Null PROVE Good(w, m.blocks[i], Prompt[m.req][i])'
    <3>1. PICK b, k : b = m.blocks[i] /\ k = Prompt[m.req][i]
      BY Zenon
    <3>2. m.req \in Req /\ i \in DOMAIN blocks[m.req] /\ b = blocks[m.req][i] /\ b \in Block
      BY <1>1, <2>3, <2>4, <3>1 DEF Slot
    <3>3. Good(w, b, k)'
      BY <2>4, <3>1, <3>2, LaunchFills, Zenon
    <3> QED BY <3>1, <3>3, Zenon
  <2>5. Holds(w, m)'
    BY <2>3, <2>4 DEF Holds
  <2> QED BY <2>2, <2>5, Zenon
<1> QED BY <1>2, <1>3, <1>4, Zenon

\* Execute launches the step behind the fence of the batch before, and queues
\* a batch of its own.
LEMMA ExecutePreserves ==
    ASSUME IInv, NEW w \in Worker, Execute(w)
    PROVE  IInv'
<1>1. /\ Launch(w) /\ AddSaveBatch(w) /\ host[w] \in {"called", "waiting"} /\ fence[w] # "pending"
      /\ UNCHANGED <<align, epoch, status, blocks, step, finished, next_id, job, store>>
  BY Zenon DEF Execute, schedulerVars, faultVars
<1>2. /\ host' = [host EXCEPT ![w] = "launched"]
      /\ mem' = [mem EXCEPT ![w] = [b \in Block |->
                    IF \E k \in Key : <<b, k>> \in step.load
                    THEN store[w][CHOOSE k \in Key : <<b, k>> \in step.load] ELSE mem[w][b]]]
      /\ device' = [device EXCEPT ![w] = {<<x[1], <<x[2], epoch>>>> : x \in step.write}]
  BY <1>1, Zenon DEF Launch
<1>3. queue[w] = <<>> /\ job[w] = NoJob
  BY <1>1, Zenon DEF IInv, Fenced, IsFenced
<1>4. PICK q, f : /\ queue' = [queue EXCEPT ![w] = q] /\ fence' = [fence EXCEPT ![w] = f]
                  /\ \/ f \in {"none", "done"} /\ q = <<>>
                     \/ f = "pending" /\ q = step.save \o <<Fence>>
  <2>1. step.save \in Seq(ReqMeta) /\ queue \in [Worker -> Seq(ReqMeta \cup {Fence})]
    BY Zenon DEF IInv, Typed, PlanTyped, ThreadTyped
  <2>2. CASE step.save = <<>> \/ fatal[w]
    <3>1. queue' = [queue EXCEPT ![w] = <<>>]
      BY <1>1, <1>3, <2>1, <2>2, ZenonT(40) DEF AddSaveBatch
    <3> QED BY <1>1, <2>2, <3>1, ZenonT(40) DEF AddSaveBatch
  <2>3. CASE ~(step.save = <<>> \/ fatal[w])
    <3>1. <<>> \o step.save = step.save
      BY <2>1
    <3>2. queue' = [queue EXCEPT ![w] = step.save \o <<Fence>>]
      BY <1>1, <1>3, <2>3, <3>1, ZenonT(40) DEF AddSaveBatch
    <3> QED BY <1>1, <2>3, <3>2, ZenonT(40) DEF AddSaveBatch
  <2> QED BY <2>2, <2>3, ZenonT(40)
<1>5. q \in Seq(ReqMeta \cup {Fence}) /\ QueueHolds(w, q)' /\ IsFenced(f, q, NoJob)
  <2>1. CASE f \in {"none", "done"} /\ q = <<>>
    BY <2>1 DEF QueueHolds, IsFenced
  <2>2. CASE f = "pending" /\ q = step.save \o <<Fence>>
    BY <1>1, <2>2, BatchHolds, ZenonT(40) DEF IsFenced
  <2> QED BY <1>4, <2>1, <2>2, Zenon
<1>6. \A v \in Worker \ {w} : host'[v] = host[v] /\ mem'[v] = mem[v] /\ device'[v] = device[v]
                               /\ queue'[v] = queue[v] /\ fence'[v] = fence[v]
  BY <1>2, <1>4, Zenon DEF IInv, Typed, WorkerTyped, ThreadTyped
<1>7. host'[w] = "launched" /\ queue'[w] = q /\ fence'[w] = f
  BY <1>2, <1>4, Zenon DEF IInv, Typed, WorkerTyped, ThreadTyped
<1>8. Typed'
  <2>1. PlanTyped'
    BY <1>1, Zenon DEF IInv, Typed, PlanTyped
  <2>2. /\ mem \in [Worker -> [Block -> Content]] /\ device \in [Worker -> SUBSET (Block \X Contents)]
        /\ step.write \subseteq Block \X Key /\ epoch \in 0 .. MaxResets
        /\ store \in [Worker -> [Key -> Content]]
    BY Zenon DEF IInv, Typed, PlanTyped, WorkerTyped, ThreadTyped
  <2>3. ASSUME NEW b \in Block, \E k \in Key : <<b, k>> \in step.load
        PROVE  store[w][CHOOSE k \in Key : <<b, k>> \in step.load] \in Content
    <3>1. (CHOOSE k \in Key : <<b, k>> \in step.load) \in Key
      BY <2>3, Zenon
    <3> QED BY <2>2, <3>1, Zenon
  <2>4. mem' \in [Worker -> [Block -> Content]]
    BY <1>2, <2>2, <2>3, ZenonT(40)
  <2>5. {<<x[1], <<x[2], epoch>>>> : x \in step.write} \subseteq Block \X Contents
    BY <2>2 DEF Contents
  <2>6. device' \in [Worker -> SUBSET (Block \X Contents)]
    BY <1>2, <2>2, <2>5, Zenon
  <2>7. WorkerTyped'
    BY <1>2, <1>4, <2>4, <2>6, ZenonT(40) DEF IInv, Typed, WorkerTyped
  <2>8. ThreadTyped'
    BY <1>1, <1>4, <1>5, Zenon DEF IInv, Typed, ThreadTyped
  <2> QED BY <2>1, <2>7, <2>8, Zenon DEF Typed
<1>9. Disjoint' /\ Scheduled'
  BY <1>1, PlanUnchanged, Zenon DEF IInv
<1>10. step.phase = "run"
  BY <1>1, Zenon DEF IInv, Phases, Typed, PlanTyped
<1>11. Phases'
  BY <1>1, <1>6, <1>7, <1>10, Zenon DEF IInv, Phases
<1>12. Fenced'
  BY <1>1, <1>3, <1>5, <1>6, <1>7, ZenonT(40) DEF IInv, Fenced
<1>13. \A v \in Worker \ {w} : \A b : \A k : Good(v, b, k)' <=> Good(v, b, k)
  BY <1>1, <1>6, ZenonT(40) DEF Good, Right
<1>14. Slots'
  <2> SUFFICES ASSUME NEW v \in Worker, NEW r \in Req, NEW i \in DOMAIN blocks[r], blocks[r][i] # Null
               PROVE  IF Planned(v, blocks[r][i])'
                      THEN \A k \in Key : <<blocks[r][i], k>> \in step.load \cup step.write => k = Prompt[r][i]
                      ELSE Good(v, blocks[r][i], Prompt[r][i])'
    BY <1>1, Zenon DEF Slots
  <2>1. PICK b, k : b \in Block /\ b = blocks[r][i] /\ k = Prompt[r][i]
    BY DEF IInv, Typed, PlanTyped, Slot
  <2>2. CASE v = w
    <3>1. ~Planned(w, b)'
      BY <1>1, <1>7, <1>10, ZenonT(40) DEF Planned
    <3>2. Good(w, b, k)'
      BY <1>1, <2>1, LaunchFills, ZenonT(40)
    <3> QED BY <1>1, <2>1, <2>2, <3>1, <3>2, Zenon
  <2>3. CASE v # w
    <3>1. Planned(v, b)' <=> Planned(v, b)
      BY <1>1, <1>6, <2>3, Zenon DEF Planned
    <3>2. IF Planned(v, b)
          THEN \A c \in Key : <<b, c>> \in step.load \cup step.write => c = k
          ELSE Good(v, b, k)
      BY <2>1, Zenon DEF IInv, Slots
    <3>3. CASE Planned(v, b)
      BY <1>1, <2>1, <3>1, <3>2, <3>3, ZenonT(40)
    <3>4. CASE ~Planned(v, b)
      BY <1>1, <1>13, <2>1, <2>3, <3>1, <3>2, <3>4, ZenonT(40)
    <3> QED BY <3>3, <3>4, ZenonT(40)
  <2> QED BY <2>2, <2>3, Zenon
<1>15. Saves'
  <2> SUFFICES ASSUME NEW v \in Worker PROVE QueueHolds(v, queue[v])' /\ JobHolds(v, job[v])'
    BY Zenon DEF Saves
  <2>1. CASE v = w
    BY <1>1, <1>3, <1>5, <1>7, <2>1, Zenon DEF QueueHolds, JobHolds
  <2>2. CASE v # w
    <3>1. PICK qv, n : qv = queue[v] /\ n = job[v]
      BY Zenon
    <3>2. qv \in Seq(ReqMeta \cup {Fence}) /\ n \in Job /\ QueueHolds(v, qv) /\ JobHolds(v, n)
      BY <3>1, Zenon DEF IInv, Typed, ThreadTyped, Saves
    <3>3. QueueHolds(v, qv)' /\ JobHolds(v, n)'
      BY <1>13, <2>2, <3>2, SavesSurvive, Zenon
    <3> QED BY <1>1, <1>6, <2>2, <3>1, <3>3, Zenon DEF QueueHolds, JobHolds
  <2> QED BY <2>1, <2>2, Zenon
<1>16. Loads' /\ StoreRight'
  BY <1>1, Zenon DEF IInv, Loads, StoreRight, Right
<1> QED BY <1>8, <1>9, <1>11, <1>12, <1>14, <1>15, <1>16, Zenon DEF IInv

-----------------------------------------------------------------------------
(* The jobs of a thread *)

\* The entries of a queue are its head and the entries of its tail.
LEMMA HeadAndTail ==
    ASSUME NEW S, NEW q \in Seq(S), q # <<>>
    PROVE  /\ Entries(q) = {Head(q)} \cup Entries(Tail(q))
           /\ 1 \in DOMAIN q /\ Head(q) = q[1]
           /\ \A i \in DOMAIN Tail(q) : i + 1 \in DOMAIN q /\ Tail(q)[i] = q[i + 1] /\ i \in Nat /\ i + 1 # 1
<1>1. /\ DOMAIN q = 1 .. Len(q) /\ Len(q) \in Nat /\ Len(q) > 0 /\ Head(q) = q[1]
      /\ DOMAIN Tail(q) = 1 .. Len(q) - 1
      /\ \A i \in 1 .. Len(q) - 1 : Tail(q)[i] = q[i + 1]
  OBVIOUS
<1>2. \A i \in DOMAIN Tail(q) : i + 1 \in DOMAIN q /\ Tail(q)[i] = q[i + 1] /\ i \in Nat /\ i + 1 # 1
  BY <1>1
<1>3. ASSUME NEW i \in DOMAIN q, i # 1 PROVE \E j \in DOMAIN Tail(q) : Tail(q)[j] = q[i]
  <2>1. i - 1 \in 1 .. Len(q) - 1 /\ (i - 1) + 1 = i
    BY <1>1, <1>3
  <2>2. Tail(q)[i - 1] = q[i]
    BY <1>1, <2>1, Zenon
  <2> QED BY <1>1, <2>1, <2>2, Zenon
<1>4. 1 \in DOMAIN q
  BY <1>1
<1>5. Entries(q) \subseteq {Head(q)} \cup Entries(Tail(q))
  <2> SUFFICES ASSUME NEW i \in DOMAIN q
               PROVE  q[i] \in {Head(q)} \cup Entries(Tail(q))
    BY Zenon DEF Entries
  <2>1. CASE i = 1
    BY <1>1, <2>1, Zenon
  <2>2. CASE i # 1
    BY <1>3, <2>2, Zenon DEF Entries
  <2> QED BY <2>1, <2>2, Zenon
<1>6. {Head(q)} \cup Entries(Tail(q)) \subseteq Entries(q)
  <2>1. Head(q) \in Entries(q)
    BY <1>1, <1>4, Zenon DEF Entries
  <2>2. Entries(Tail(q)) \subseteq Entries(q)
    BY <1>2, Zenon DEF Entries
  <2> QED BY <2>1, <2>2, Zenon
<1> QED BY <1>1, <1>2, <1>4, <1>5, <1>6, Zenon

\* A queue without its head has the events it had, but for the head's.
LEMMA OnceTail ==
    ASSUME NEW q \in Seq(ReqMeta \cup {Fence}), q # <<>>, NEW n, Once(q, n)
    PROVE  /\ Once(Tail(q), NoJob)
           /\ \A i \in DOMAIN Tail(q) : Tail(q)[i].id # Head(q).id
<1>1. /\ 1 \in DOMAIN q /\ Head(q) = q[1]
      /\ \A i \in DOMAIN Tail(q) : i + 1 \in DOMAIN q /\ Tail(q)[i] = q[i + 1] /\ i \in Nat /\ i + 1 # 1
  BY HeadAndTail, Zenon
<1>2. \A i, j \in DOMAIN Tail(q) : Tail(q)[i].id = Tail(q)[j].id => i = j
  <2> SUFFICES ASSUME NEW i \in DOMAIN Tail(q), NEW j \in DOMAIN Tail(q), Tail(q)[i].id = Tail(q)[j].id
               PROVE  i = j
    BY Zenon
  <2>1. i + 1 = j + 1
    BY <1>1 DEF Once
  <2> QED BY <1>1, <2>1
<1>3. \A i \in DOMAIN Tail(q) : Tail(q)[i].id # Head(q).id
  BY <1>1, Zenon DEF Once
<1> QED BY <1>2, <1>3, Zenon DEF Once

\* What a thread works on are saves.
LEMMA UnfinishedTyped ==
    ASSUME IInv, NEW w \in Worker
    PROVE  Unfinished(w) \subseteq ReqMeta
<1>1. queue[w] \in Seq(ReqMeta \cup {Fence}) /\ JobHolds(w, job[w])
  BY Zenon DEF IInv, Typed, ThreadTyped, Saves
<1>2. Jobs(w) \subseteq ReqMeta
  BY <1>1 DEF Jobs
<1> QED BY <1>1, <1>2, Zenon DEF Unfinished, JobHolds

-----------------------------------------------------------------------------
(* Steps that leave the events where they are *)

\* A worker that owes an event: the step brings it the save, its thread has it,
\* or its completion is on its way.
Owes(w, e) ==
    (Before(w) /\ e \in StepIds) \/ e \in OpenIds(w) \/ e \in completed[w] \cup reported[w]

\* The workers the ledger counts on for an event are those that owe it.
LEMMA OwingIs == \A e : Owing(e) = {w \in Worker : Owes(w, e)}
BY Zenon DEF Owing, Owes, Before, StepIds, StepSaves, Entries, OpenIds

\* Nobody starts or stops to owe an event.
LEMMA OwingSame ==
    ASSUME EventsConserved, UNCHANGED <<align, sending>>, \A w \in Worker : \A e : Owes(w, e)' <=> Owes(w, e)
    PROVE  EventsConserved'
<1>1. \A e : Owing(e) = {w \in Worker : Owes(w, e)}
  BY OwingIs, Zenon
<1>2. \A e : Owing(e)' = {w \in Worker : Owes(w, e)'}
  BY Zenon DEF Owing, Owes, Before, StepIds, StepSaves, Entries, OpenIds
<1>3. \A e : Owing(e)' = Owing(e)
  BY <1>1, <1>2, Zenon
<1> QED BY <1>3, Zenon DEF EventsConserved

\* A step that changes neither the plan nor what the threads have to do.
LEMMA QuietStep ==
    ASSUME EInv, LedgerTyped',
           UNCHANGED <<align, step, next_id, sending, status, finished, live, completed, reported, retired>>,
           \A w \in Worker : /\ Unfinished(w)' = Unfinished(w) /\ Once(queue'[w], job'[w])
                             /\ host'[w] = host[w] \/ (host[w] = "called" /\ host'[w] = "waiting"),
           step.phase = "run" \/ host' = host
    PROVE  EInv'
<1>1. StepSaves' = StepSaves /\ StepIds' = StepIds
  BY Zenon DEF StepSaves, StepIds
<1>2. \A w \in Worker : OpenIds(w)' = OpenIds(w)
  BY Zenon DEF OpenIds
<1>3. \A w \in Worker : Before(w)' <=> Before(w)
  BY Zenon DEF Before
<1>4. Ids' /\ Ended'
  BY <1>1, Zenon DEF EInv, Ids, Ended
<1>5. \A w \in Worker : Tracked(w)'
  <2> SUFFICES ASSUME NEW w \in Worker PROVE Tracked(w)'
    BY Zenon
  <2>1. Tracked(w)
    BY Zenon DEF EInv
  <2> QED BY <1>1, <1>2, <1>3, <2>1, Zenon DEF Tracked
<1>6. EventsConserved'
  <2>1. \A w \in Worker : \A e : Owes(w, e)' <=> Owes(w, e)
    BY <1>1, <1>2, <1>3, Zenon DEF Owes
  <2> QED BY <2>1, OwingSame, Zenon DEF EInv
<1> QED BY <1>4, <1>5, <1>6, Zenon DEF EInv

-----------------------------------------------------------------------------
(* The store thread *)

\* Take moves a live job from the queue to the thread.
LEMMA TakeEvents ==
    ASSUME IInv, EInv, NEW w \in Worker, Take(w)
    PROVE  EInv'
<1> DEFINE m == Head(queue[w])
           S == Entries(queue[w])
           T == Entries(Tail(queue[w]))
<1>1. queue[w] \in Seq(ReqMeta \cup {Fence}) /\ queue[w] # <<>> /\ m # Fence /\ job[w] = NoJob
  BY Zenon DEF Take, IInv, Typed, ThreadTyped
<1>2. S = {m} \cup T
  BY <1>1, HeadAndTail, Zenon
<1>3. m \in ReqMeta /\ m # Nothing
  BY <1>1, <1>2, NothingAssumption
<1>4. Unfinished(w) = S \ {Fence}
  BY <1>1, Zenon DEF Unfinished, Jobs, Entries
<1>5. Tracked(w)
  BY Zenon DEF EInv
<1>6. <<m.req, m.id>> \in live[w]
  BY <1>1, <1>2, <1>4, <1>5, Zenon DEF Tracked
<1>7. /\ job' = [job EXCEPT ![w] = [meta |-> m, todo |-> Missing(w, m), ok |-> TRUE]]
      /\ queue' = [queue EXCEPT ![w] = Tail(queue[w])]
      /\ UNCHANGED <<align, schedulerVars, step, hostVars, live, offset, completed, fatal, faultVars>>
  BY <1>6, Zenon DEF Take
<1>8. /\ job'[w] # NoJob /\ job'[w].meta = m /\ queue'[w] = Tail(queue[w])
      /\ \A v \in Worker \ {w} : job'[v] = job[v] /\ queue'[v] = queue[v]
  BY <1>3, <1>7, Zenon DEF IInv, Typed, ThreadTyped, NoJob
<1>9. Unfinished(w)' = (T \ {Fence}) \cup {m}
  BY <1>8, Zenon DEF Unfinished, Jobs, Entries
<1>10. \A v \in Worker : Unfinished(v)' = Unfinished(v)
  <2>1. Unfinished(w)' = Unfinished(w)
    <3> HIDE DEF m, S, T
    <3> QED BY <1>1, <1>2, <1>4, <1>9, Zenon
  <2>2. \A v \in Worker \ {w} : Unfinished(v)' = Unfinished(v)
    BY <1>8, Zenon DEF Unfinished, Jobs, Entries
  <2> QED BY <2>1, <2>2, Zenon
<1>11. Once(Tail(queue[w]), NoJob) /\ \A i \in DOMAIN Tail(queue[w]) : Tail(queue[w])[i].id # m.id
  BY <1>1, <1>5, OnceTail, Zenon DEF Tracked
<1>12. \A v \in Worker : Once(queue'[v], job'[v])
  <2>1. Once(queue'[w], job'[w])
    <3>1. \A i \in DOMAIN queue'[w] : queue'[w][i].id # job'[w].meta.id
      BY <1>8, <1>11, Zenon
    <3>2. \A i, j \in DOMAIN queue'[w] : queue'[w][i].id = queue'[w][j].id => i = j
      BY <1>8, <1>11, Zenon DEF Once
    <3> QED BY <3>1, <3>2, Zenon DEF Once
  <2>2. \A v \in Worker \ {w} : Once(queue'[v], job'[v])
    BY <1>8, Zenon DEF EInv, Tracked
  <2> QED BY <2>1, <2>2, Zenon
<1>13. LedgerTyped'
  BY <1>7, Zenon DEF EInv, LedgerTyped, schedulerVars, hostVars, faultVars
<1>14. /\ UNCHANGED <<align, step, next_id, sending, status, finished, live, completed, reported, retired>>
       /\ host' = host
  BY <1>7, Zenon DEF schedulerVars, hostVars
<1> HIDE DEF m, S, T
<1> QED BY <1>10, <1>12, <1>13, <1>14, QuietStep, Zenon

\* Put goes on with its job.
LEMMA PutEvents ==
    ASSUME IInv, EInv, NEW w \in Worker, Put(w)
    PROVE  EInv'
<1>1. PICK n : job' = [job EXCEPT ![w] = n] /\ n.meta = job[w].meta
  BY ZenonT(40) DEF Put
<1>2. /\ UNCHANGED <<align, schedulerVars, step, hostVars, queue, live, offset, completed, fatal, crashed>>
      /\ faults' \in {faults, faults + 1} /\ faults' =< MaxFaults
  BY Zenon DEF Put
<1>3. job[w] # NoJob
  BY DEF Put, NoJob
<1>4. job[w].meta \in ReqMeta
  BY <1>3, Zenon DEF IInv, Saves, JobHolds
<1>5. job'[w] = n /\ n # NoJob /\ \A v \in Worker \ {w} : job'[v] = job[v]
  BY <1>1, <1>4, NothingAssumption DEF IInv, Typed, ThreadTyped, NoJob
<1>6. \A v \in Worker : Unfinished(v)' = Unfinished(v)
  BY <1>1, <1>2, <1>3, <1>5, Zenon DEF Unfinished, Jobs, Entries
<1>7. \A v \in Worker : Once(queue'[v], job'[v])
  BY <1>1, <1>2, <1>3, <1>5 DEF Once, EInv, Tracked
<1>8. LedgerTyped'
  BY <1>2, BoundAssumption DEF EInv, LedgerTyped, schedulerVars, hostVars
<1> QED BY <1>2, <1>6, <1>7, <1>8, QuietStep, Zenon DEF schedulerVars, hostVars

\* The fence is no job.
LEMMA PassFenceEvents ==
    ASSUME IInv, EInv, NEW w \in Worker, PassFence(w)
    PROVE  EInv'
<1> DEFINE S == Entries(queue[w])
           T == Entries(Tail(queue[w]))
<1>1. /\ queue[w] \in Seq(ReqMeta \cup {Fence}) /\ queue[w] # <<>> /\ Head(queue[w]) = Fence /\ job[w] = NoJob
      /\ queue' = [queue EXCEPT ![w] = Tail(queue[w])]
      /\ UNCHANGED <<align, schedulerVars, step, host, retired, reported, job, live, offset, completed, fatal, faultVars>>
  BY Zenon DEF PassFence, IInv, Typed, ThreadTyped
<1>2. S = {Fence} \cup T
  <2>1. S = {Head(queue[w])} \cup T
    BY <1>1, HeadAndTail, Zenon
  <2> QED BY <1>1, <2>1, Zenon
<1>3. queue'[w] = Tail(queue[w]) /\ \A v \in Worker \ {w} : queue'[v] = queue[v]
  BY <1>1, Zenon DEF IInv, Typed, ThreadTyped
<1>4. Unfinished(w) = S \ {Fence} /\ Unfinished(w)' = T \ {Fence}
  <2>1. Unfinished(w) = S \ {Fence}
    BY <1>1, Zenon DEF Unfinished, Jobs, Entries
  <2>2. Unfinished(w)' = T \ {Fence}
    <3>1. queue'[w] = Tail(queue[w]) /\ job'[w] = NoJob
      BY <1>1, <1>3, Zenon
    <3>2. Jobs(w)' = T \ {Fence}
      BY <3>1, Zenon DEF Jobs, Entries
    <3> QED BY <3>1, <3>2, Zenon DEF Unfinished
  <2> QED BY <2>1, <2>2, Zenon
<1>5. \A v \in Worker : Unfinished(v)' = Unfinished(v)
  <2>1. Unfinished(w)' = Unfinished(w)
    <3> HIDE DEF S, T
    <3> QED BY <1>2, <1>4, Zenon
  <2>2. \A v \in Worker \ {w} : Unfinished(v)' = Unfinished(v)
    BY <1>1, <1>3, Zenon DEF Unfinished, Jobs, Entries
  <2> QED BY <2>1, <2>2, Zenon
<1>6. Once(Tail(queue[w]), NoJob)
  BY <1>1, OnceTail, Zenon DEF EInv, Tracked
<1>7. \A v \in Worker : Once(queue'[v], job'[v])
  BY <1>1, <1>3, <1>6, Zenon DEF EInv, Tracked
<1>8. LedgerTyped'
  BY <1>1, Zenon DEF EInv, LedgerTyped, schedulerVars, faultVars
<1> HIDE DEF S, T
<1> QED BY <1>1, <1>5, <1>7, <1>8, QuietStep, Zenon DEF schedulerVars

\* The jobs in D are over: they are live no longer, and their events are
\* completed.
LEMMA Completes ==
    ASSUME EInv, LedgerTyped', NEW w \in Worker, NEW D, D \subseteq Unfinished(w),
           Unfinished(w)' = Unfinished(w) \ D, Once(queue'[w], job'[w]),
           \A m \in D : \A n \in Unfinished(w) \ D : n.id # m.id,
           live' = [live EXCEPT ![w] = @ \ {<<m.req, m.id>> : m \in D}],
           Report(w, {m.id : m \in D}),
           \A v \in Worker \ {w} : Unfinished(v)' = Unfinished(v) /\ queue'[v] = queue[v] /\ job'[v] = job[v],
           UNCHANGED <<align, step, next_id, sending, status, finished, host, reported, retired>>
    PROVE  EInv'
<1> DEFINE I == {m.id : m \in D}
<1>1. StepSaves' = StepSaves /\ StepIds' = StepIds /\ \A v \in Worker : Before(v)' <=> Before(v)
  BY Zenon DEF StepSaves, StepIds, Before
<1>2. /\ completed'[w] = IF align THEN completed[w] \cup I ELSE completed[w]
      /\ \A v \in Worker \ {w} : completed'[v] = completed[v]
  BY Zenon DEF Report, EInv, LedgerTyped
<1>3. /\ live'[w] = live[w] \ {<<m.req, m.id>> : m \in D}
      /\ \A v \in Worker \ {w} : live'[v] = live[v]
  BY Zenon DEF EInv, LedgerTyped
<1>4. OpenIds(w)' = OpenIds(w) \ I /\ I \subseteq OpenIds(w)
  BY Zenon DEF OpenIds
<1>5. \A v \in Worker \ {w} : OpenIds(v)' = OpenIds(v)
  BY Zenon DEF OpenIds
<1>6. Ids' /\ Ended'
  BY <1>1, Zenon DEF EInv, Ids, Ended
<1>7. Tracked(w)'
  <2>1. Tracked(w)
    BY Zenon DEF EInv
  <2>2. live'[w] = {<<m.req, m.id>> : m \in Unfinished(w) \ D}
    BY <1>3, <2>1 DEF Tracked
  <2> HIDE DEF I
  <2>3. /\ OpenIds(w)' \cup completed'[w] \cup reported'[w] \subseteq OpenIds(w) \cup completed[w] \cup reported[w]
        /\ OpenIds(w)' \cap (completed'[w] \cup reported'[w]) = {} /\ completed'[w] \cap reported'[w] = {}
    BY <1>2, <1>4, <2>1, Zenon DEF Tracked
  <2> QED BY <1>1, <2>1, <2>2, <2>3, ZenonT(40) DEF Tracked
<1>8. ASSUME NEW v \in Worker \ {w} PROVE Tracked(v)'
  <2>1. Tracked(v)
    BY Zenon DEF EInv
  <2> QED BY <1>1, <1>2, <1>3, <1>5, <2>1, Zenon DEF Tracked
<1>9. EventsConserved'
  <2>1. CASE align
    <3>1. \A v \in Worker : \A e : Owes(v, e)' <=> Owes(v, e)
      BY <1>1, <1>2, <1>4, <1>5, <2>1, Zenon DEF Owes
    <3> QED BY <3>1, OwingSame, Zenon DEF EInv
  <2>2. CASE ~align
    BY <2>2, Zenon DEF EventsConserved
  <2> QED BY <2>1, <2>2, Zenon
<1> QED BY <1>6, <1>7, <1>8, <1>9, Zenon DEF EInv

\* Done completes the job.
LEMMA DoneEvents ==
    ASSUME IInv, EInv, NEW w \in Worker, Done(w)
    PROVE  EInv'
<1> DEFINE m == job[w].meta
<1>1. /\ job[w] # NoJob /\ job' = [job EXCEPT ![w] = NoJob]
      /\ live' = [live EXCEPT ![w] = @ \ {<<m.req, m.id>>}] /\ Report(w, {m.id})
      /\ offset' \in {offset, [offset EXCEPT ![w][m.req] = m.len]}
      /\ UNCHANGED <<align, schedulerVars, step, hostVars, queue, fatal, faultVars>>
  BY Zenon DEF Done
<1>2. m \in ReqMeta
  BY <1>1, Zenon DEF IInv, Saves, JobHolds
<1>3. job'[w] = NoJob /\ \A v \in Worker \ {w} : job'[v] = job[v]
  BY <1>1, Zenon DEF IInv, Typed, ThreadTyped
<1>4. Once(queue[w], job[w])
  BY Zenon DEF EInv, Tracked
<1>5. \A n \in Jobs(w) : n.id # m.id
  BY <1>1, <1>4, Zenon DEF Once, Jobs
<1>6. Unfinished(w) = Jobs(w) \cup {m} /\ Unfinished(w)' = Jobs(w)
  BY <1>1, <1>3, Zenon DEF Unfinished, Jobs, Entries
<1>7. \A v \in Worker \ {w} : Unfinished(v)' = Unfinished(v)
  BY <1>1, <1>3, Zenon DEF Unfinished, Jobs, Entries
<1>8. Once(queue'[w], job'[w])
  BY <1>1, <1>3, <1>4, Zenon DEF Once
<1>9. LedgerTyped'
  <2>1. offset' \in [Worker -> [Req -> Nat]]
    <3>1. m.req \in Req /\ m.len \in Nat /\ offset \in [Worker -> [Req -> Nat]]
      BY <1>2, Zenon DEF EInv, LedgerTyped, ReqMeta
    <3> HIDE DEF m
    <3>2. [offset EXCEPT ![w][m.req] = m.len] \in [Worker -> [Req -> Nat]]
      BY <3>1, Zenon
    <3> QED BY <1>1, <3>1, <3>2, Zenon DEF m
  <2>2. live' \in [Worker -> SUBSET (Req \X Nat)] /\ completed' \in [Worker -> SUBSET Nat]
    BY <1>1, <1>2 DEF EInv, LedgerTyped, Report, ReqMeta
  <2> QED BY <1>1, <2>1, <2>2, Zenon DEF EInv, LedgerTyped, schedulerVars, hostVars, faultVars
<1> DEFINE D == {m}
<1>10. /\ {<<n.req, n.id>> : n \in D} = {<<m.req, m.id>>} /\ {n.id : n \in D} = {m.id}
       /\ D \subseteq Unfinished(w) /\ Unfinished(w)' = Unfinished(w) \ D
       /\ \A x \in D : \A n \in Unfinished(w) \ D : n.id # x.id
  BY <1>5, <1>6, Zenon
<1> HIDE DEF D, m
<1>11. /\ live' = [live EXCEPT ![w] = @ \ {<<n.req, n.id>> : n \in D}] /\ Report(w, {n.id : n \in D})
       /\ UNCHANGED <<align, step, next_id, sending, status, finished, host, reported, retired>>
       /\ \A v \in Worker \ {w} : Unfinished(v)' = Unfinished(v) /\ queue'[v] = queue[v] /\ job'[v] = job[v]
  <2>1. live' = [live EXCEPT ![w] = @ \ {<<n.req, n.id>> : n \in D}] /\ Report(w, {n.id : n \in D})
    BY <1>1, <1>10, Zenon DEF m
  <2>2. UNCHANGED <<align, step, next_id, sending, status, finished, host, reported, retired, queue>>
    BY <1>1, Zenon DEF schedulerVars, hostVars
  <2> QED BY <1>3, <1>7, <2>1, <2>2, Zenon
<1> QED BY <1>8, <1>9, <1>10, <1>11, Completes, ZenonT(40)

\* Fail completes every job of the thread: all of them are live.
LEMMA FailEvents ==
    ASSUME IInv, EInv, NEW w \in Worker, Fail(w)
    PROVE  EInv'
<1> DEFINE D == Unfinished(w)
<1>1. /\ job[w] # NoJob
      /\ job' = [job EXCEPT ![w] = NoJob] /\ queue' = [queue EXCEPT ![w] = <<>>]
      /\ fatal' = [fatal EXCEPT ![w] = TRUE] /\ faults' = faults + 1 /\ faults < MaxFaults
      /\ UNCHANGED <<align, schedulerVars, step, host, retired, reported, offset, crashed>>
  BY Zenon DEF Fail
<1>2. D = Jobs(w) \cup {job[w].meta} /\ D \subseteq ReqMeta
  BY <1>1, UnfinishedTyped, Zenon DEF Unfinished
<1>3. \A m \in D : <<m.req, m.id>> \in live[w]
  BY Zenon DEF EInv, Tracked
<1>4. {m \in Jobs(w) \cup {job[w].meta} : <<m.req, m.id>> \in live[w]} = D
  BY <1>2, <1>3, Zenon
<1>5. live' = [live EXCEPT ![w] = @ \ {<<m.req, m.id>> : m \in D}] /\ Report(w, {m.id : m \in D})
  BY <1>4, ZenonT(40) DEF Fail
<1>6. /\ job'[w] = NoJob /\ queue'[w] = <<>>
      /\ \A v \in Worker \ {w} : job'[v] = job[v] /\ queue'[v] = queue[v]
  BY <1>1, Zenon DEF IInv, Typed, ThreadTyped
<1>7. Unfinished(w)' = {} /\ \A v \in Worker \ {w} : Unfinished(v)' = Unfinished(v)
  BY <1>6 DEF Unfinished, Jobs, Entries
<1>8. Once(queue'[w], job'[w])
  BY <1>6 DEF Once
<1>9. LedgerTyped'
  <2>1. {m.id : m \in D} \subseteq Nat
    BY <1>2, Zenon DEF ReqMeta
  <2>2. live' \in [Worker -> SUBSET (Req \X Nat)] /\ completed' \in [Worker -> SUBSET Nat]
    BY <1>5, <2>1, Zenon DEF EInv, LedgerTyped, Report
  <2>3. fatal' \in [Worker -> BOOLEAN] /\ faults' \in 0 .. MaxFaults
    BY <1>1, BoundAssumption DEF EInv, LedgerTyped
  <2> QED BY <1>1, <2>2, <2>3, Zenon DEF EInv, LedgerTyped, schedulerVars
<1> HIDE DEF D
<1>10. /\ D \subseteq Unfinished(w) /\ Unfinished(w)' = Unfinished(w) \ D
       /\ \A x \in D : \A n \in Unfinished(w) \ D : n.id # x.id
       /\ UNCHANGED <<align, step, next_id, sending, status, finished, host, reported, retired>>
       /\ \A v \in Worker \ {w} : Unfinished(v)' = Unfinished(v) /\ queue'[v] = queue[v] /\ job'[v] = job[v]
  BY <1>1, <1>6, <1>7, Zenon DEF D, schedulerVars
<1> QED BY <1>5, <1>8, <1>9, <1>10, Completes, ZenonT(40)

-----------------------------------------------------------------------------
(* The worker *)

\* The launch queues the saves of the step, or reports them when the thread is
\* dead; its queue was empty.
LEMMA ExecuteEvents ==
    ASSUME IInv, EInv, NEW w \in Worker, Execute(w)
    PROVE  EInv'
<1>1. /\ AddSaveBatch(w) /\ host[w] \in {"called", "waiting"} /\ fence[w] # "pending"
      /\ host' = [host EXCEPT ![w] = "launched"]
      /\ UNCHANGED <<align, schedulerVars, step, retired, reported, job, offset, fatal, faultVars>>
  BY Zenon DEF Execute, Launch
<1>2. queue[w] = <<>> /\ job[w] = NoJob /\ step.phase = "run"
  BY <1>1, Zenon DEF IInv, Fenced, IsFenced, Phases, Typed, PlanTyped
<1>3. Unfinished(w) = {} /\ OpenIds(w) = {}
  BY <1>2 DEF Unfinished, Jobs, OpenIds
<1>4. Tracked(w) /\ live[w] = {} /\ reported[w] = {}
  BY <1>1, <1>3, ZenonT(40) DEF EInv, Tracked
<1>5. StepSaves' = StepSaves /\ StepIds' = StepIds /\ step.save \in Seq(ReqMeta)
  BY <1>1, Zenon DEF StepSaves, StepIds, IInv, Typed, PlanTyped
<1>6. /\ host'[w] = "launched" /\ Before(w) /\ ~Before(w)'
      /\ \A v \in Worker \ {w} : host'[v] = host[v] /\ (Before(v)' <=> Before(v))
  BY <1>1, <1>2, ZenonT(40) DEF Before, IInv, Typed, WorkerTyped
<1> DEFINE X == {<<step.save[i].req, step.save[i].id>> : i \in DOMAIN step.save}
           I == {step.save[i].id : i \in DOMAIN step.save}
<1>7. /\ queue \in [Worker -> Seq(ReqMeta \cup {Fence})] /\ live \in [Worker -> SUBSET (Req \X Nat)]
      /\ completed \in [Worker -> SUBSET Nat]
  BY Zenon DEF IInv, Typed, ThreadTyped, EInv, LedgerTyped
<1>8. X \subseteq Req \X Nat /\ I \subseteq Nat
  <2>1. \A i \in DOMAIN step.save : step.save[i] \in ReqMeta
    BY <1>5
  <2> QED BY <2>1 DEF ReqMeta
<1>9. /\ \A v \in Worker \ {w} : queue'[v] = queue[v] /\ live'[v] = live[v] /\ completed'[v] = completed[v]
      /\ live' \in [Worker -> SUBSET (Req \X Nat)] /\ completed' \in [Worker -> SUBSET Nat]
  <2>1. CASE step.save = <<>>
    BY <1>1, <1>7, <2>1, Zenon DEF AddSaveBatch
  <2>2. CASE step.save # <<>> /\ fatal[w]
    <3>1. /\ queue' = queue /\ live' = live
          /\ completed' = [completed EXCEPT ![w] = IF align THEN completed[w] \cup I ELSE completed[w]]
      BY <1>1, <2>2, Zenon DEF AddSaveBatch, Report
    <3> HIDE DEF X, I
    <3> QED BY <1>7, <1>8, <3>1, ZenonT(40)
  <2>3. CASE step.save # <<>> /\ ~fatal[w]
    <3>1. /\ queue' = [queue EXCEPT ![w] = queue[w] \o step.save \o <<Fence>>] /\ completed' = completed
          /\ live' = [live EXCEPT ![w] = live[w] \cup X]
      BY <1>1, <2>3, ZenonT(40) DEF AddSaveBatch
    <3> HIDE DEF X, I
    <3> QED BY <1>7, <1>8, <3>1, Zenon
  <2> QED BY <2>1, <2>2, <2>3, Zenon
<1>10. PICK U, C :
        /\ Unfinished(w)' = U /\ completed'[w] = C /\ live'[w] = {<<m.req, m.id>> : m \in U}
        /\ Once(queue'[w], job'[w]) /\ U \subseteq StepSaves
        /\ C \subseteq completed[w] \cup StepIds /\ {m.id : m \in U} \cap C = {}
        /\ align => {m.id : m \in U} \cup C = completed[w] \cup StepIds
  <2>1. job'[w] = NoJob
    BY <1>1, <1>2, Zenon
  <2>2. CASE step.save = <<>>
    <3>1. queue'[w] = <<>> /\ completed'[w] = completed[w] /\ live'[w] = {} /\ StepIds = {}
      BY <1>1, <1>2, <1>4, <2>2 DEF AddSaveBatch, StepIds, StepSaves, Entries
    <3>2. Unfinished(w)' = {} /\ Once(queue'[w], job'[w])
      BY <2>1, <3>1 DEF Unfinished, Jobs, Once
    <3> WITNESS {}, completed[w]
    <3> QED BY <3>1, <3>2, Zenon
  <2>3. CASE step.save # <<>> /\ fatal[w]
    <3>1. queue'[w] = <<>> /\ live'[w] = {}
      BY <1>1, <1>2, <1>4, <2>3, Zenon DEF AddSaveBatch
    <3>2. completed'[w] = IF align THEN completed[w] \cup StepIds ELSE completed[w]
      <4>1. {step.save[i].id : i \in DOMAIN step.save} = StepIds
        BY Zenon DEF StepIds, StepSaves, Entries
      <4> QED BY <1>1, <2>3, <4>1, Zenon DEF AddSaveBatch, Report, EInv, LedgerTyped
    <3>3. Unfinished(w)' = {} /\ Once(queue'[w], job'[w])
      BY <2>1, <3>1 DEF Unfinished, Jobs, Once
    <3> WITNESS {}, completed'[w]
    <3> QED BY <3>1, <3>2, <3>3, Zenon
  <2>4. CASE step.save # <<>> /\ ~fatal[w]
    <3> DEFINE q == step.save \o <<Fence>>
    <3>1. queue'[w] = q /\ completed'[w] = completed[w]
      <4>1. <<>> \o step.save = step.save
        BY <1>5
      <4>2. queue' = [queue EXCEPT ![w] = q]
        BY <1>1, <1>2, <2>4, <4>1, ZenonT(40) DEF AddSaveBatch
      <4> QED BY <1>1, <2>4, <4>2, Zenon DEF AddSaveBatch, IInv, Typed, ThreadTyped
    <3>2. live'[w] = {<<m.req, m.id>> : m \in StepSaves}
      <4>1. {<<step.save[i].req, step.save[i].id>> : i \in DOMAIN step.save} = {<<m.req, m.id>> : m \in StepSaves}
        BY Zenon DEF StepSaves, Entries
      <4>2. live' = [live EXCEPT ![w] = live[w] \cup X]
        BY <1>1, <2>4, Zenon DEF AddSaveBatch
      <4>3. live'[w] = X
        <5> HIDE DEF X
        <5> QED BY <1>4, <1>7, <4>2, Zenon
      <4> QED BY <4>1, <4>3, Zenon
    <3>3. /\ DOMAIN q = 1 .. Len(step.save) + 1 /\ Len(step.save) \in Nat /\ q[Len(step.save) + 1] = Fence
          /\ DOMAIN step.save = 1 .. Len(step.save) /\ \A i \in DOMAIN step.save : q[i] = step.save[i]
      BY <1>5
    <3>4. \A i \in DOMAIN q : i = Len(step.save) + 1 \/ i \in DOMAIN step.save
      BY <3>3
    <3>5. \A i \in DOMAIN step.save : step.save[i] # Fence /\ step.save[i].id # Fence.id
      <4> SUFFICES ASSUME NEW i \in DOMAIN step.save
                   PROVE  step.save[i] # Fence /\ step.save[i].id # Fence.id
        BY Zenon
      <4>1. step.save[i].id \in StepIds
        BY Zenon DEF StepIds, StepSaves, Entries
      <4>2. StepIds \subseteq 1 .. next_id - 1 /\ next_id \in Nat
        BY DEF EInv, Ids
      <4>3. step.save[i].id # 0
        BY <4>1, <4>2
      <4>4. Fence.id = 0
        BY Zenon DEF Fence
      <4> QED BY <4>3, <4>4, Zenon
    <3> HIDE DEF q
    <3>6. Entries(q) \ {Fence} = StepSaves
      BY <3>3, <3>4, <3>5 DEF StepSaves, Entries
    <3>7. Unfinished(w)' = StepSaves
      BY <2>1, <3>1, <3>6, Zenon DEF Unfinished, Jobs, Entries
    <3>8. Once(queue'[w], job'[w])
      BY <2>1, <3>1, <3>3, <3>4, <3>5 DEF Once, EInv, Ids
    <3>9. StepIds \cap completed[w] = {}
      BY <1>4, <1>6, Zenon DEF Tracked
    <3> WITNESS StepSaves, completed[w]
    <3> QED BY <3>1, <3>2, <3>7, <3>8, <3>9, Zenon DEF StepIds
  <2> QED BY <2>2, <2>3, <2>4, Zenon
<1>11. OpenIds(w)' = {m.id : m \in U} /\ OpenIds(w)' \subseteq StepIds
  BY <1>10, Zenon DEF OpenIds, StepIds
<1>12. \A v \in Worker \ {w} : Unfinished(v)' = Unfinished(v) /\ OpenIds(v)' = OpenIds(v)
  BY <1>1, <1>9 DEF Unfinished, Jobs, OpenIds
<1>13. next_id \in Nat /\ StepIds \subseteq 1 .. next_id - 1 /\ UNCHANGED <<next_id, sending, status, finished>>
  BY <1>1 DEF EInv, Ids, schedulerVars
<1>14. LedgerTyped'
  <2>1. live' \in [Worker -> SUBSET (Req \X Nat)] /\ completed' \in [Worker -> SUBSET Nat]
    BY <1>9, Zenon
  <2> QED BY <1>1, <2>1, Zenon DEF EInv, LedgerTyped, schedulerVars, faultVars
<1>15. Ids' /\ Ended'
  BY <1>1, <1>5, <1>13, Zenon DEF EInv, Ids, Ended
<1>16. Tracked(w)'
  <2>1. OpenIds(w)' \cup completed'[w] \cup reported'[w] \subseteq 1 .. next_id' - 1
    <3>1. completed[w] \subseteq 1 .. next_id - 1
      BY <1>4, Zenon DEF Tracked
    <3>2. reported'[w] = {} /\ completed'[w] \subseteq completed[w] \cup StepIds
      BY <1>1, <1>4, <1>10, Zenon
    <3>3. completed'[w] \subseteq 1 .. next_id - 1 /\ OpenIds(w)' \subseteq 1 .. next_id - 1 /\ next_id' = next_id
      BY <1>11, <1>13, <3>1, <3>2, ZenonT(40)
    <3> QED BY <3>2, <3>3, Zenon
  <2>2. retired'[w] = {} /\ reported'[w] = {}
    BY <1>1, <1>4, Zenon DEF Tracked
  <2> QED BY <1>5, <1>6, <1>10, <1>11, <2>1, <2>2, Zenon DEF Tracked
<1>17. ASSUME NEW v \in Worker \ {w} PROVE Tracked(v)'
  <2>1. Tracked(v)
    BY Zenon DEF EInv
  <2> QED BY <1>1, <1>5, <1>6, <1>9, <1>12, <1>13, <2>1, Zenon DEF Tracked
<1>18. EventsConserved'
  <2>1. CASE align
    <3>1. \A e : Owes(w, e)' <=> Owes(w, e)
      BY <1>1, <1>3, <1>4, <1>6, <1>10, <1>11, <2>1, ZenonT(40) DEF Owes
    <3>2. \A v \in Worker \ {w} : \A e : Owes(v, e)' <=> Owes(v, e)
      BY <1>1, <1>5, <1>6, <1>9, <1>12, Zenon DEF Owes
    <3> QED BY <1>1, <1>13, <3>1, <3>2, OwingSame, Zenon DEF EInv
  <2>2. CASE ~align
    BY <1>1, <2>2, Zenon DEF EventsConserved
  <2> QED BY <2>1, <2>2, Zenon
<1> QED BY <1>14, <1>15, <1>16, <1>17, <1>18, Zenon DEF EInv

\* get_finished forgets no live job: those belong to requests of the step, which
\* are running.  The completed events are reported.
LEMMA GetFinishedEvents ==
    ASSUME IInv, EInv, NEW w \in Worker, GetFinished(w)
    PROVE  EInv'
<1> DEFINE left == {x \in live[w] : x[1] \notin step.preempted}
           stored == {x[1] : x \in left}
           ended == (retired[w] \ step.preempted) \cup step.finished
<1>1. /\ host[w] = "launched" /\ host' = [host EXCEPT ![w] = "done"]
      /\ live' = [live EXCEPT ![w] = left] /\ retired' = [retired EXCEPT ![w] = ended \cap stored]
      /\ offset' = [offset EXCEPT ![w] = [r \in Req |->
                       IF r \in step.preempted \cup (ended \ stored) THEN 0 ELSE offset[w][r]]]
      /\ reported' = [reported EXCEPT ![w] = completed[w]] /\ completed' = [completed EXCEPT ![w] = {}]
      /\ UNCHANGED <<align, schedulerVars, step, queue, job, fatal, faultVars>>
  BY Zenon DEF GetFinished
<1>2. Tracked(w) /\ reported[w] = {} /\ step.phase = "run"
  <2>1. Tracked(w) /\ reported[w] = {}
    BY <1>1, Zenon DEF EInv, Tracked
  <2>2. step.phase = "run"
    BY <1>1, Zenon DEF IInv, Phases
  <2> QED BY <2>1, <2>2, Zenon
<1>3. \A x \in live[w] : status[x[1]] = "running"
  <2> SUFFICES ASSUME NEW x \in live[w] PROVE status[x[1]] = "running"
    BY Zenon
  <2>1. PICK m \in StepSaves : x = <<m.req, m.id>>
    BY <1>1, <1>2, Zenon DEF Tracked
  <2>2. m.req \in step.scheduled
    BY Zenon DEF StepSaves, Entries, IInv, Scheduled
  <2> QED BY <2>1, <2>2, Zenon DEF IInv, Scheduled
<1>4. left = live[w]
  BY <1>3, Zenon DEF EInv, Ended
<1>5. ended \cap stored = {}
  BY <1>2, <1>3, <1>4 DEF EInv, Ended, Tracked
<1>6. /\ host'[w] = "done" /\ live' = live /\ retired'[w] = {} /\ reported'[w] = completed[w] /\ completed'[w] = {}
      /\ \A v \in Worker \ {w} : /\ host'[v] = host[v] /\ retired'[v] = retired[v]
                                 /\ reported'[v] = reported[v] /\ completed'[v] = completed[v]
  BY <1>1, <1>4, <1>5, Zenon DEF EInv, LedgerTyped, IInv, Typed, WorkerTyped
<1>7. LedgerTyped'
  <2>1. offset' \in [Worker -> [Req -> Nat]]
    BY <1>1, Zenon DEF EInv, LedgerTyped
  <2>2. retired' = retired
    BY <1>1, <1>2, <1>5, Zenon DEF EInv, LedgerTyped, Tracked
  <2>3. completed' \in [Worker -> SUBSET Nat] /\ reported' \in [Worker -> SUBSET Nat]
    BY <1>1, Zenon DEF EInv, LedgerTyped
  <2> QED BY <1>1, <1>6, <2>1, <2>2, <2>3, Zenon DEF EInv, LedgerTyped, schedulerVars, faultVars
<1> HIDE DEF left, stored, ended
<1>8. /\ StepSaves' = StepSaves /\ StepIds' = StepIds
      /\ \A v \in Worker : Unfinished(v)' = Unfinished(v) /\ OpenIds(v)' = OpenIds(v)
  BY <1>1, Zenon DEF StepSaves, StepIds, Unfinished, Jobs, OpenIds
<1>9. \A v \in Worker : Before(v)' <=> Before(v)
  BY <1>1, <1>2, <1>6 DEF Before
<1>10. Ids' /\ Ended'
  BY <1>1, <1>8, Zenon DEF EInv, Ids, Ended, schedulerVars
<1>11. Tracked(w)'
  BY <1>1, <1>2, <1>6, <1>8, <1>9, ZenonT(40) DEF Tracked, schedulerVars
<1>12. ASSUME NEW v \in Worker \ {w} PROVE Tracked(v)'
  <2>1. Tracked(v)
    BY Zenon DEF EInv
  <2> QED BY <1>1, <1>6, <1>8, <1>9, <2>1, Zenon DEF Tracked, schedulerVars
<1>13. EventsConserved'
  <2>1. \A v \in Worker : \A e : Owes(v, e)' <=> Owes(v, e)
    BY <1>2, <1>6, <1>8, <1>9, Zenon DEF Owes
  <2> QED BY <1>1, <2>1, OwingSame, Zenon DEF EInv, schedulerVars
<1> QED BY <1>7, <1>10, <1>11, <1>12, <1>13, Zenon DEF EInv

-----------------------------------------------------------------------------
(* The scheduler *)

\* A step of the engine that plans no save and counts no event.
LEMMA PlanQuiet ==
    ASSUME EInv, LedgerTyped', Ended', step'.save = step.save,
           UNCHANGED <<align, next_id, sending, queue, job, live, completed, reported, retired>>,
           \A w \in Worker : host'[w] = host[w] \/ (host[w] = "idle" /\ host'[w] = "called"),
           \A w \in Worker : (Before(w)' <=> Before(w)) \/ StepSaves = {}
    PROVE  EInv'
<1>1. StepSaves' = StepSaves /\ StepIds' = StepIds
  BY Zenon DEF StepSaves, StepIds
<1>2. \A w \in Worker : Unfinished(w)' = Unfinished(w) /\ OpenIds(w)' = OpenIds(w)
  BY ZenonT(40) DEF Unfinished, Jobs, OpenIds
<1>3. \A w \in Worker : (Before(w)' <=> Before(w)) \/ StepIds = {}
  BY Zenon DEF StepIds
<1>4. Ids'
  BY <1>1, Zenon DEF EInv, Ids
<1>5. ASSUME NEW w \in Worker PROVE Tracked(w)'
  <2>1. Tracked(w)
    BY Zenon DEF EInv
  <2> QED BY <1>1, <1>2, <1>3, <2>1, Zenon DEF Tracked
<1>6. EventsConserved'
  <2>1. \A w \in Worker : \A e : Owes(w, e)' <=> Owes(w, e)
    BY <1>1, <1>2, <1>3, Zenon DEF Owes
  <2> QED BY <2>1, OwingSame, ZenonT(40) DEF EInv
<1> QED BY <1>4, <1>5, <1>6, Zenon DEF EInv

\* BeginPass starts an empty plan.
LEMMA BeginPassEvents ==
    ASSUME IInv, EInv, BeginPass
    PROVE  EInv'
<1>1. /\ step.phase = "none" /\ step'.phase = "plan" /\ step'.save = <<>> /\ step'.preempted = {}
      /\ step'.finished = finished /\ finished' = {}
      /\ UNCHANGED <<align, status, blocks, saved, sending, next_id, hostVars, threadVars, faultVars>>
  BY Zenon DEF BeginPass
<1>2. step.save = <<>> /\ StepSaves = {}
  BY <1>1 DEF IInv, Phases, StepSaves, Entries
<1>3. LedgerTyped'
  BY <1>1, Zenon DEF EInv, LedgerTyped, hostVars, threadVars, faultVars
<1>4. Ended'
  BY <1>1, Zenon DEF EInv, Ended
<1> QED BY <1>1, <1>2, <1>3, <1>4, PlanQuiet, Zenon DEF hostVars, threadVars

\* Preempt changes the state of the request alone.
LEMMA PreemptEvents ==
    ASSUME IInv, EInv, NEW r \in Req, Preempt(r)
    PROVE  EInv'
<1>1. /\ step.phase = "plan" /\ status[r] = "running" /\ status' = [status EXCEPT ![r] = "waiting"]
      /\ saved' = [saved EXCEPT ![r] = 0] /\ step' = [step EXCEPT !.preempted = step.preempted \cup {r}]
      /\ UNCHANGED <<align, finished, sending, next_id, hostVars, threadVars, faultVars>>
  BY Zenon DEF Preempt
<1>2. /\ step'.phase = step.phase /\ step'.save = step.save /\ step'.finished = step.finished
      /\ step'.preempted = step.preempted \cup {r}
  BY <1>1, Zenon DEF IInv, Typed, PlanTyped
<1>3. LedgerTyped'
  BY <1>1, Zenon DEF EInv, LedgerTyped, hostVars, threadVars, faultVars
<1>4. Ended'
  <2>1. status \in [Req -> {"waiting", "running", "finished"}] /\ step.preempted \subseteq Req
    BY Zenon DEF IInv, Typed, PlanTyped
  <2>2. \A p \in step'.preempted : status'[p] = "waiting"
    BY <1>1, <1>2, <2>1, Zenon DEF EInv, Ended
  <2>3. \A p \in finished' \cup step'.finished : status'[p] = "finished"
    BY <1>1, <1>2, <2>1 DEF EInv, Ended
  <2> QED BY <1>1, <1>2, <2>2, <2>3, Zenon DEF Ended
<1>5. \A w \in Worker : Before(w)' <=> Before(w)
  BY <1>1, <1>2, Zenon DEF Before, hostVars
<1> QED BY <1>1, <1>2, <1>3, <1>4, <1>5, PlanQuiet, Zenon DEF hostVars, threadVars

\* So does Finish.
LEMMA FinishEvents ==
    ASSUME IInv, EInv, NEW r \in Req, Finish(r)
    PROVE  EInv'
<1>1. /\ step.phase = "none" /\ status' = [status EXCEPT ![r] = "finished"]
      /\ saved' = [saved EXCEPT ![r] = 0] /\ finished' = finished \cup {r}
      /\ UNCHANGED <<align, sending, next_id, step, hostVars, threadVars, faultVars>>
  BY Zenon DEF Finish
<1>2. LedgerTyped'
  BY <1>1, Zenon DEF EInv, LedgerTyped, hostVars, threadVars, faultVars
<1>3. Ended'
  <2>1. status \in [Req -> {"waiting", "running", "finished"}] /\ finished \cup step.finished \subseteq Req
    BY Zenon DEF IInv, Typed, PlanTyped
  <2>2. \A p \in finished' \cup step'.finished : status'[p] = "finished"
    BY <1>1, <2>1, Zenon DEF EInv, Ended
  <2> QED BY <1>1, <2>2, Zenon DEF EInv, Ended
<1>4. \A w \in Worker : Before(w)' <=> Before(w)
  BY <1>1, Zenon DEF Before, hostVars
<1> QED BY <1>1, <1>2, <1>3, <1>4, PlanQuiet, Zenon DEF hostVars, threadVars

\* Dispatch hands the plan to workers that have yet to carry it out.
LEMMA DispatchEvents ==
    ASSUME IInv, EInv, Dispatch
    PROVE  EInv'
<1>1. /\ step.phase = "plan" /\ step' = [step EXCEPT !.phase = "run"] /\ host' = [w \in Worker |-> "called"]
      /\ UNCHANGED <<align, schedulerVars, fence, retired, reported, threadVars, faultVars>>
  BY Zenon DEF Dispatch
<1>2. /\ step'.phase = "run" /\ step'.save = step.save /\ step'.preempted = step.preempted
      /\ step'.finished = step.finished
  BY <1>1, Zenon DEF IInv, Typed, PlanTyped
<1>3. \A w \in Worker : host[w] = "idle" /\ host'[w] = "called"
  BY <1>1, Zenon DEF IInv, Phases
<1>4. LedgerTyped'
  BY <1>1, Zenon DEF EInv, LedgerTyped, schedulerVars, threadVars, faultVars
<1>5. Ended'
  BY <1>1, <1>2, Zenon DEF EInv, Ended, schedulerVars
<1>6. \A w \in Worker : Before(w)' <=> Before(w)
  BY <1>1, <1>2, <1>3, Zenon DEF Before
<1> QED BY <1>1, <1>2, <1>3, <1>4, <1>5, <1>6, PlanQuiet, Zenon DEF schedulerVars, threadVars

\* A reset leaves the scheduler and the threads as they are.
LEMMA ResetEvents ==
    ASSUME EInv, Reset
    PROVE  EInv'
<1>1. UNCHANGED <<align, schedulerVars, step, hostVars, threadVars, faultVars>>
  BY Zenon DEF Reset
<1>2. LedgerTyped' /\ Ended'
  BY <1>1, Zenon DEF EInv, LedgerTyped, Ended, schedulerVars, hostVars, threadVars, faultVars
<1>3. \A w \in Worker : Before(w)' <=> Before(w)
  BY <1>1, Zenon DEF Before, hostVars
<1> QED BY <1>1, <1>2, <1>3, PlanQuiet, Zenon DEF schedulerVars, hostVars, threadVars

\* A save planned with a fresh event is owed by every worker.
LEMMA RetainEvents ==
    ASSUME IInv, EInv, NEW r \in Req, NEW q \in Seq(Slot), Retain(r, q), Ended',
           step.phase = "plan", step'.phase = "plan", StepSaves' = StepSaves \cup {Meta(r, q)},
           \A i, j \in DOMAIN step'.save : step'.save[i].id = step'.save[j].id => i = j,
           UNCHANGED <<align, hostVars, threadVars, faultVars>>
    PROVE  EInv'
<1> PICK n : n = next_id
  BY Zenon
<1>1. /\ n = next_id /\ n \in Nat /\ n \in 1 .. MaxSaves /\ next_id' = n + 1
      /\ StepIds \cup DOMAIN sending \subseteq 1 .. n - 1
  BY BoundAssumption DEF EInv, Ids, Retain
<1>2. StepIds' = StepIds \cup {n}
  <2>1. Meta(r, q).id = n
    BY <1>1, Zenon DEF Meta
  <2> QED BY <2>1, Zenon DEF StepIds
<1>3. LedgerTyped'
  <2>1. saved' \in [Req -> Nat]
    <3>1. Len(q) \in Nat
      OBVIOUS
    <3> QED BY <3>1, Zenon DEF EInv, LedgerTyped, Retain
  <2>2. \A e \in DOMAIN sending' : sending'[e] \in [blocks : SUBSET Block, count : Nat]
    <3>1. Held(q) \subseteq Block
      BY DEF Held, Slot
    <3>2. CASE align
      <4>1. sending' = [e \in DOMAIN sending \cup {n} |->
                           IF e = n THEN [blocks |-> Held(q), count |-> 0] ELSE sending[e]]
        BY <1>1, <3>2, Zenon DEF Retain
      <4>2. \A e \in DOMAIN sending \cup {n} :
               (IF e = n THEN [blocks |-> Held(q), count |-> 0] ELSE sending[e]) \in [blocks : SUBSET Block, count : Nat]
        BY <3>1, Zenon DEF EInv, LedgerTyped
      <4> QED BY <4>1, <4>2, Zenon
    <3>3. CASE ~align
      BY <3>3, Zenon DEF EInv, LedgerTyped, Retain
    <3> QED BY <3>2, <3>3, Zenon
  <2> QED BY <2>1, <2>2, Zenon DEF EInv, LedgerTyped, hostVars, threadVars, faultVars
<1>4. Ids'
  <2>1. DOMAIN sending' \subseteq DOMAIN sending \cup {n}
    BY <1>1, Zenon DEF Retain
  <2>2. StepIds' \cup DOMAIN sending' \subseteq 1 .. next_id' - 1
    BY <1>1, <1>2, <2>1
  <2>3. next_id' \in 1 .. MaxSaves + 1
    BY <1>1, BoundAssumption
  <2> QED BY <2>2, <2>3, Zenon DEF Ids
<1>5. \A w \in Worker : Unfinished(w)' = Unfinished(w) /\ OpenIds(w)' = OpenIds(w)
  BY DEF threadVars, Unfinished, Jobs, OpenIds
<1>6. \A w \in Worker : host[w] = "idle" /\ host'[w] = "idle" /\ Before(w) /\ Before(w)'
  BY Zenon DEF IInv, Phases, Before, hostVars
<1>7. \A w \in Worker : OpenIds(w) \cup completed[w] \cup reported[w] \subseteq 1 .. n - 1
  BY <1>1, Zenon DEF EInv, Tracked
<1>8. ASSUME NEW w \in Worker PROVE Tracked(w)'
  <2>1. Tracked(w)
    BY Zenon DEF EInv
  <2>2. n \notin OpenIds(w) \cup completed[w] \cup reported[w]
    BY <1>1, <1>7
  <2>3. StepIds' \cap (OpenIds(w)' \cup completed'[w] \cup reported'[w]) = {}
    BY <1>2, <1>5, <1>6, <2>1, <2>2, ZenonT(40) DEF Tracked, threadVars, hostVars
  <2>4. OpenIds(w)' \cup completed'[w] \cup reported'[w] \subseteq 1 .. next_id' - 1
    <3>1. 1 .. n - 1 \subseteq 1 .. next_id' - 1
      BY <1>1
    <3> QED BY <1>5, <1>7, <3>1, Zenon DEF threadVars, hostVars
  <2> QED BY <1>5, <1>6, <2>1, <2>3, <2>4, Zenon DEF Tracked, threadVars, hostVars
<1>9. EventsConserved'
  <2> SUFFICES ASSUME align
               PROVE  /\ \A e \in DOMAIN sending' : sending'[e].count + Cardinality(Owing(e)') = Cardinality(Worker)
                      /\ \A e \in 1 .. MaxSaves : Owing(e)' # {} => e \in DOMAIN sending'
    BY Zenon DEF EventsConserved
  <2>1. \A w \in Worker : \A e : Owes(w, e)' <=> Owes(w, e) \/ e = n
    BY <1>2, <1>5, <1>6, Zenon DEF Owes, threadVars, hostVars
  <2>2. \A e : Owing(e) = {w \in Worker : Owes(w, e)} /\ Owing(e)' = {w \in Worker : Owes(w, e)'}
    BY DEF Owing, Owes, Before, StepIds, StepSaves, Entries, OpenIds
  <2>3. Owing(n)' = Worker /\ \A e : e # n => Owing(e)' = Owing(e)
    <3>1. Owing(n)' = Worker
      BY <2>1, <2>2, Zenon
    <3>2. ASSUME NEW e, e # n PROVE Owing(e)' = Owing(e)
      BY <2>1, <2>2, <3>2, Zenon
    <3> QED BY <3>1, <3>2, Zenon
  <2>4. /\ DOMAIN sending' = DOMAIN sending \cup {n} /\ n \notin DOMAIN sending
        /\ sending'[n].count = 0 /\ \A e \in DOMAIN sending : sending'[e] = sending[e]
    <3>1. n \notin DOMAIN sending
      BY <1>1
    <3>2. sending' = [e \in DOMAIN sending \cup {n} |->
                         IF e = n THEN [blocks |-> Held(q), count |-> 0] ELSE sending[e]]
      BY <1>1, Zenon DEF Retain
    <3> QED BY <3>1, <3>2, Zenon
  <2>5. Cardinality(Worker) \in Nat
    BY WorkerAssumption, FS_CardinalityType, Zenon
  <2>6. ASSUME NEW e \in DOMAIN sending'
        PROVE  sending'[e].count + Cardinality(Owing(e)') = Cardinality(Worker)
    <3>1. CASE e = n
      BY <2>3, <2>4, <2>5, <3>1
    <3>2. CASE e # n
      BY <2>3, <2>4, <3>2, Zenon DEF EInv, EventsConserved
    <3> QED BY <3>1, <3>2, Zenon
  <2>7. ASSUME NEW e \in 1 .. MaxSaves, Owing(e)' # {} PROVE e \in DOMAIN sending'
    BY <2>3, <2>4, <2>7, Zenon DEF EInv, EventsConserved
  <2> QED BY <2>6, <2>7, Zenon
<1> QED BY <1>3, <1>4, <1>8, <1>9, Zenon DEF EInv

\* A save that is planned names its request and its blocks.
LEMMA MetaTyped ==
    ASSUME IInv, NEW r \in Req, NEW q \in Seq(Slot)
    PROVE  Meta(r, q) \in ReqMeta /\ Meta(r, q).req = r /\ Meta(r, q).blocks = q /\ Meta(r, q).len = Len(q)
<1>1. next_id \in Nat /\ Len(q) \in Nat
  BY DEF IInv, Typed, PlanTyped
<1> QED BY <1>1, Zenon DEF Meta, ReqMeta, Slot

\* Run plans a save behind the others.
LEMMA RunEvents ==
    ASSUME IInv, EInv, NEW r \in Req, Run(r)
    PROVE  EInv'
<1>1. PICK new \in {<<>>} \cup {<<b>> : b \in Free} :
        /\ Retain(r, Cut(blocks[r]) \o new)
        /\ step' = [step EXCEPT !.scheduled = @ \cup {r}, !.save = Append(@, Meta(r, Cut(blocks[r]) \o new)),
                                !.write = @ \cup {<<b, Prompt[r][Len(Cut(blocks[r]) \o new)]>> : b \in Held(new)}]
  BY ZenonT(40) DEF Run
<1>2. /\ step.phase = "plan" /\ status[r] = "running"
      /\ UNCHANGED <<align, status, finished, hostVars, threadVars, faultVars>>
  BY Zenon DEF Run
<1>3. PICK q : q = Cut(blocks[r]) \o new
  BY Zenon
<1>4. q \in Seq(Slot)
  <2>1. blocks[r] \in Seq(Slot)
    BY ZenonT(40) DEF IInv, Typed, PlanTyped
  <2>2. Cut(blocks[r]) \in Seq(Slot)
    BY <2>1 DEF Cut, Slot
  <2>3. new \in Seq(Slot)
    <3>1. Free \subseteq Slot
      BY Zenon DEF Free, Slot
    <3>2. CASE new = <<>>
      BY <3>2
    <3>3. ASSUME NEW b \in Free, new = <<b>> PROVE new \in Seq(Slot)
      <4>1. b \in Slot
        BY <3>1, Zenon
      <4> QED BY <3>3, <4>1
    <3> QED BY <3>2, <3>3, Zenon
  <2> QED BY <1>3, <2>2, <2>3
<1>5. PICK m : m = Meta(r, q)
  BY Zenon
<1>6. m \in ReqMeta /\ m.id = next_id
  BY <1>4, <1>5, MetaTyped, Zenon DEF Meta
<1>7. /\ step'.phase = "plan" /\ step'.save = Append(step.save, m) /\ step'.preempted = step.preempted
      /\ step'.finished = step.finished
  BY <1>1, <1>2, <1>3, <1>5, Zenon DEF IInv, Typed, PlanTyped
<1>8. Ended'
  BY <1>2, <1>7, Zenon DEF EInv, Ended
<1>9. step.save \in Seq(ReqMeta)
  BY Zenon DEF IInv, Typed, PlanTyped
<1>10. /\ DOMAIN step'.save = 1 .. Len(step.save) + 1 /\ DOMAIN step.save = 1 .. Len(step.save) /\ Len(step.save) \in Nat
       /\ step'.save[Len(step.save) + 1] = m /\ \A i \in DOMAIN step.save : step'.save[i] = step.save[i]
  BY <1>6, <1>7, <1>9
<1>11. \A i \in DOMAIN step'.save : i = Len(step.save) + 1 \/ i \in DOMAIN step.save
  BY <1>10
<1>12. StepSaves' = StepSaves \cup {m}
  BY <1>10, <1>11 DEF StepSaves, Entries
<1>13. \A i \in DOMAIN step.save : step.save[i].id # m.id
  <2> SUFFICES ASSUME NEW i \in DOMAIN step.save PROVE step.save[i].id # m.id
    BY Zenon
  <2>1. step.save[i].id \in StepIds
    BY Zenon DEF StepIds, StepSaves, Entries
  <2>2. StepIds \subseteq 1 .. next_id - 1 /\ next_id \in Nat
    BY DEF EInv, Ids
  <2> QED BY <1>6, <2>1, <2>2
<1>14. \A i, j \in DOMAIN step'.save : step'.save[i].id = step'.save[j].id => i = j
  BY <1>10, <1>11, <1>13, ZenonT(40) DEF EInv, Ids
<1> QED BY <1>1, <1>2, <1>3, <1>4, <1>5, <1>7, <1>8, <1>12, <1>14, RetainEvents, Zenon

\* Admit plans a save in front of the others when the store has nothing of the
\* prompt, and no save otherwise.
LEMMA AdmitEvents ==
    ASSUME IInv, PlanTyped', EInv, NEW r \in Req, Admit(r)
    PROVE  EInv'
<1>1. PICK hit : hit = Hit(r)
  BY Zenon
<1>2. PICK len : len = IF hit < Len(Prompt[r]) THEN hit + 1 ELSE hit
  BY Zenon
<1>3. PICK q \in [1 .. len -> Free \cup {Null}] :
        /\ blocks' = [blocks EXCEPT ![r] = q]
        /\ step' = [step EXCEPT !.scheduled = @ \cup {r}, !.admitted = TRUE,
                                !.load = @ \cup {<<q[i], Prompt[r][i]>> : i \in {j \in 1 .. hit : q[j] # Null}},
                                !.write = @ \cup {<<q[i], Prompt[r][i]>> : i \in hit + 1 .. Len(q)},
                                !.save = IF hit = 0 THEN <<Meta(r, q)>> \o @ ELSE @]
        /\ IF hit = 0 THEN Retain(r, q) ELSE UNCHANGED <<saved, sending, next_id>>
  BY <1>1, <1>2, ZenonT(40) DEF Admit
<1>4. /\ step.phase = "plan" /\ status[r] = "waiting" /\ step.preempted = {} /\ status' = [status EXCEPT ![r] = "running"]
      /\ UNCHANGED <<align, finished, hostVars, threadVars, faultVars>>
  BY Zenon DEF Admit
<1>5. q \in Seq(Slot)
  <2>1. blocks'[r] = q
    BY <1>3, Zenon DEF IInv, Typed, PlanTyped
  <2> QED BY <2>1, Zenon DEF PlanTyped
<1>6. PICK m : m = Meta(r, q)
  BY Zenon
<1>7. m \in ReqMeta /\ m.id = next_id
  BY <1>5, <1>6, MetaTyped, Zenon DEF Meta
<1>8. /\ step'.phase = "plan" /\ step'.preempted = step.preempted /\ step'.finished = step.finished
      /\ step'.save = IF hit = 0 THEN <<m>> \o step.save ELSE step.save
  BY <1>3, <1>4, <1>6, Zenon DEF IInv, Typed, PlanTyped
<1>9. Ended'
  <2>1. status \in [Req -> {"waiting", "running", "finished"}] /\ finished \cup step.finished \subseteq Req
    BY Zenon DEF IInv, Typed, PlanTyped
  <2>2. \A p \in finished' \cup step'.finished : status'[p] = "finished"
    BY <1>4, <1>8, <2>1, Zenon DEF EInv, Ended
  <2> QED BY <1>4, <1>8, <2>2, Zenon DEF Ended
<1>10. CASE hit = 0
  <2>1. step'.save = <<m>> \o step.save /\ Retain(r, q)
    BY <1>3, <1>8, <1>10, Zenon
  <2>2. step.save \in Seq(ReqMeta)
    BY Zenon DEF IInv, Typed, PlanTyped
  <2>3. /\ DOMAIN step'.save = 1 .. Len(step.save) + 1 /\ DOMAIN step.save = 1 .. Len(step.save) /\ Len(step.save) \in Nat
        /\ step'.save[1] = m /\ \A i \in DOMAIN step'.save : i # 1 => step'.save[i] = step.save[i - 1]
    BY <1>7, <2>1, <2>2
  <2>4. \A i \in DOMAIN step'.save : i # 1 => i - 1 \in DOMAIN step.save
    BY <2>3
  <2>5. \A i \in DOMAIN step.save : i + 1 \in DOMAIN step'.save /\ step'.save[i + 1] = step.save[i]
    BY <2>3
  <2>6. StepSaves' = StepSaves \cup {m}
    <3>1. 1 \in DOMAIN step'.save
      BY <2>3
    <3>2. StepSaves' \subseteq StepSaves \cup {m}
      BY <2>3, <2>4 DEF StepSaves, Entries
    <3>3. StepSaves \cup {m} \subseteq StepSaves'
      BY <2>3, <2>5, <3>1 DEF StepSaves, Entries
    <3> QED BY <3>2, <3>3, Zenon
  <2>7. \A i \in DOMAIN step.save : step.save[i].id # m.id
    <3> SUFFICES ASSUME NEW i \in DOMAIN step.save PROVE step.save[i].id # m.id
      BY Zenon
    <3>1. step.save[i].id \in StepIds
      BY Zenon DEF StepIds, StepSaves, Entries
    <3>2. StepIds \subseteq 1 .. next_id - 1 /\ next_id \in Nat
      BY DEF EInv, Ids
    <3> QED BY <1>7, <3>1, <3>2
  <2>8. ASSUME NEW i \in DOMAIN step'.save, NEW j \in DOMAIN step'.save, step'.save[i].id = step'.save[j].id
        PROVE  i = j
    <3>1. CASE i # 1 /\ j # 1
      <4>1. /\ i - 1 \in DOMAIN step.save /\ j - 1 \in DOMAIN step.save
            /\ step.save[i - 1].id = step.save[j - 1].id
        BY <2>3, <2>4, <2>8, <3>1, Zenon
      <4>2. i - 1 = j - 1
        BY <4>1, Zenon DEF EInv, Ids
      <4> QED BY <2>3, <4>2
    <3>2. CASE i = 1 \/ j = 1
      BY <2>3, <2>4, <2>7, <2>8, <3>2, Zenon
    <3> QED BY <3>1, <3>2, Zenon
  <2> QED BY <1>4, <1>5, <1>6, <1>8, <1>9, <2>1, <2>6, <2>8, RetainEvents, Zenon
<1>11. CASE hit # 0
  <2>1. UNCHANGED <<saved, sending, next_id>> /\ step'.save = step.save
    BY <1>3, <1>8, <1>11, Zenon
  <2>2. LedgerTyped'
    BY <1>4, <2>1, Zenon DEF EInv, LedgerTyped, hostVars, threadVars, faultVars
  <2>3. \A w \in Worker : Before(w)' <=> Before(w)
    BY <1>4, <1>8, Zenon DEF Before, hostVars
  <2> QED BY <1>4, <1>9, <2>1, <2>2, <2>3, PlanQuiet, Zenon DEF hostVars, threadVars
<1> QED BY <1>10, <1>11, Zenon

\* There is no save at the start.
LEMMA InitEvents == Init => EInv
<1> SUFFICES ASSUME Init PROVE EInv
  BY Zenon
<1>1. /\ sending = <<>> /\ next_id = 1 /\ finished = {} /\ crashed = FALSE /\ faults = 0
      /\ step.save = <<>> /\ step.preempted = {} /\ step.finished = {} /\ saved = [r \in Req |-> 0]
  BY Zenon DEF Init, NoStep
<1>2. \A w \in Worker : /\ queue[w] = <<>> /\ job[w] = NoJob /\ host[w] = "idle"
                        /\ live[w] = {} /\ retired[w] = {} /\ completed[w] = {} /\ reported[w] = {}
  BY Zenon DEF Init
<1>3. DOMAIN sending = {} /\ StepSaves = {} /\ StepIds = {}
  BY <1>1 DEF StepSaves, StepIds, Entries
<1>4. LedgerTyped
  <2>1. crashed \in BOOLEAN /\ faults \in 0 .. MaxFaults
    <3>1. crashed \in BOOLEAN
      BY <1>1, Zenon
    <3>2. faults \in 0 .. MaxFaults
      BY <1>1, BoundAssumption
    <3> QED BY <3>1, <3>2, Zenon
  <2>2. /\ saved \in [Req -> Nat] /\ live \in [Worker -> SUBSET (Req \X Nat)] /\ retired \in [Worker -> SUBSET Req]
        /\ offset \in [Worker -> [Req -> Nat]] /\ fatal \in [Worker -> BOOLEAN]
    BY Zenon DEF Init
  <2>3. completed \in [Worker -> SUBSET Nat] /\ reported \in [Worker -> SUBSET Nat]
    BY Zenon DEF Init
  <2> QED BY <1>3, <2>1, <2>2, <2>3, Zenon DEF LedgerTyped
<1>5. Ids /\ Ended
  BY <1>1, <1>3, BoundAssumption DEF Ids, Ended
<1>6. \A w \in Worker : Unfinished(w) = {} /\ OpenIds(w) = {}
  BY <1>2 DEF Unfinished, Jobs, OpenIds
<1>7. \A w \in Worker : Tracked(w)
  BY <1>2, <1>3, <1>6 DEF Tracked, Once
<1>8. \A e : Owing(e) = {}
  <2>1. \A w \in Worker : \A e : ~Owes(w, e)
    BY <1>2, <1>3, <1>6, Zenon DEF Owes
  <2> QED BY <2>1, OwingIs, Zenon
<1>9. EventsConserved
  BY <1>3, <1>8, Zenon DEF EventsConserved
<1> QED BY <1>4, <1>5, <1>7, <1>9, Zenon DEF EInv
-----------------------------------------------------------------------------
(* The saved offsets *)

\* The chunks below an offset, and those of a job, are chunks of a prompt.
LEMMA ChunkKeys ==
    ASSUME IInv, EInv, OInv, NEW w \in Worker, NEW r \in Req, status[r] = "running"
    PROVE  /\ offset[w][r] \in Nat /\ Len(blocks[r]) \in Nat /\ \A i \in 1 .. offset[w][r] : Prompt[r][i] \in Key
           /\ job[w] # NoJob /\ job[w].meta.req = r =>
                job[w].meta.len \in Nat /\ \A i \in 1 .. job[w].meta.len : Prompt[r][i] \in Key
<1>1. /\ offset[w][r] \in Nat /\ blocks[r] \in Seq(Slot) /\ Prompt[r] \in Seq(Key)
      /\ offset[w][r] =< Len(blocks[r]) /\ Len(blocks[r]) =< Len(Prompt[r])
  <2>1. offset \in [Worker -> [Req -> Nat]] /\ blocks \in [Req -> Seq(Slot)] /\ Len(blocks[r]) =< Len(Prompt[r])
    BY Zenon DEF IInv, EInv, LedgerTyped, Typed, PlanTyped, Scheduled
  <2>2. offset[w][r] =< Len(blocks[r])
    BY Zenon DEF OInv, Durable
  <2> QED BY <2>1, <2>2, PromptAssumption, Zenon
<1>2. Len(blocks[r]) \in Nat /\ \A i \in 1 .. offset[w][r] : Prompt[r][i] \in Key
  BY <1>1
<1>3. ASSUME job[w] # NoJob, job[w].meta.req = r
      PROVE  job[w].meta.len \in Nat /\ \A i \in 1 .. job[w].meta.len : Prompt[r][i] \in Key
  <2>1. job[w].meta \in ReqMeta /\ job[w].meta.len =< Len(Prompt[job[w].meta.req])
    BY <1>3, Zenon DEF IInv, Saves, JobHolds, Holds
  <2>2. job[w].meta.len \in Nat /\ job[w].meta.len =< Len(Prompt[r])
    BY <1>3, <2>1, Zenon DEF ReqMeta
  <2> QED BY <1>1, <2>2
<1> QED BY <1>1, <1>2, <1>3, Zenon

\* A step that stores nothing of request r on rank w, and loses nothing.
LEMMA OffsetKept ==
    ASSUME IInv, EInv, OInv, NEW w \in Worker, NEW r \in Req,
           align' = align, status'[r] = status[r], r \in step.preempted => r \in step'.preempted,
           status[r] = "running" => blocks'[r] \in Seq(Slot) /\ Len(blocks[r]) =< Len(blocks'[r]),
           host'[w] = host[w] \/ host'[w] # "done", offset'[w][r] = offset[w][r],
           \A m \in Unfinished(w)' : m.req = r => m \in Unfinished(w),
           job'[w] = job[w] \/ job'[w] = NoJob \/ job'[w].meta.req # r,
           \A k \in Key : store[w][k] # Nothing => store'[w][k] # Nothing
    PROVE  Forgotten(w, r)' /\ Durable(w, r)'
<1>1. Forgotten(w, r) /\ Durable(w, r)
  BY Zenon DEF OInv
<1>2. Forgotten(w, r)'
  BY <1>1, Zenon DEF Forgotten
<1>3. ASSUME status[r] = "running" PROVE Durable(w, r)'
  <2>1. /\ offset[w][r] \in Nat /\ Len(blocks[r]) \in Nat /\ \A i \in 1 .. offset[w][r] : Prompt[r][i] \in Key
        /\ job[w] # NoJob /\ job[w].meta.req = r => \A i \in 1 .. job[w].meta.len : Prompt[r][i] \in Key
    BY <1>3, ChunkKeys, Zenon
  <2>2. offset'[w][r] =< Len(blocks'[r])
    BY <1>1, <1>3, <2>1 DEF Durable
  <2>3. ASSUME NEW m \in Unfinished(w)', m.req = r PROVE m.len =< Len(blocks'[r])
    <3>1. m \in ReqMeta /\ m.len =< Len(blocks[r])
      BY <1>1, <1>3, <2>3, UnfinishedTyped, Zenon DEF Durable
    <3> QED BY <1>3, <2>1, <3>1 DEF ReqMeta
  <2>4. ~align => \A i \in 1 .. offset[w][r] : Stored(w, r, i)'
    BY <1>1, <1>3, <2>1, Zenon DEF Durable, Stored
  <2>5. ~align /\ job'[w] # NoJob /\ job'[w].ok /\ job'[w].meta.req = r =>
           \A i \in 1 .. job'[w].meta.len : i \in job'[w].todo \/ Stored(w, r, i)'
    BY <1>1, <1>3, <2>1, Zenon DEF Durable, Stored
  <2> QED BY <2>2, <2>3, <2>4, <2>5, Zenon DEF Durable
<1>4. status[r] # "running" => Durable(w, r)'
  BY Zenon DEF Durable
<1> QED BY <1>2, <1>3, <1>4, Zenon
\* A step that leaves requests, offsets and the store alone and adds no job.
LEMMA OffsetsAside ==
    ASSUME IInv, EInv, OInv, UNCHANGED <<align, status, blocks, offset, store>>, step'.preempted = step.preempted,
           \A w \in Worker : /\ host'[w] = host[w] \/ host'[w] # "done"
                             /\ Unfinished(w)' \subseteq Unfinished(w)
                             /\ job'[w] = job[w] \/ job'[w] = NoJob
    PROVE  OInv'
<1>1. \A r \in Req : blocks'[r] \in Seq(Slot) /\ Len(blocks[r]) =< Len(blocks'[r])
  BY DEF IInv, Typed, PlanTyped
<1>2. \A w \in Worker, r \in Req : Forgotten(w, r)' /\ Durable(w, r)'
  BY <1>1, OffsetKept, Zenon
<1>3. NoneSkipped'
  BY Zenon DEF OInv, NoneSkipped
<1> QED BY <1>2, <1>3, Zenon DEF OInv

\* Take leaves out only what the store has.
LEMMA TakeOffsets ==
    ASSUME IInv, EInv, OInv, NEW w \in Worker, Take(w)
    PROVE  OInv'
<1> DEFINE m == Head(queue[w])
<1>1. /\ queue[w] \in Seq(ReqMeta \cup {Fence}) /\ queue[w] # <<>> /\ m # Fence /\ job[w] = NoJob
      /\ queue' = [queue EXCEPT ![w] = Tail(queue[w])]
      /\ UNCHANGED <<align, schedulerVars, step, hostVars, offset, store>>
  BY Zenon DEF Take, IInv, Typed, ThreadTyped
<1>2. Entries(queue[w]) = {m} \cup Entries(Tail(queue[w]))
  BY <1>1, HeadAndTail, Zenon
<1>3. m \in Unfinished(w) /\ Entries(Tail(queue[w])) \ {Fence} \subseteq Unfinished(w)
  BY <1>1, <1>2, Zenon DEF Unfinished, Jobs, Entries
<1>4. <<m.req, m.id>> \in live[w]
  BY <1>3, Zenon DEF EInv, Tracked
<1>5. job' = [job EXCEPT ![w] = [meta |-> m, todo |-> Missing(w, m), ok |-> TRUE]]
  BY <1>4, Zenon DEF Take
<1>6. /\ job'[w].meta = m /\ job'[w].todo = Missing(w, m) /\ queue'[w] = Tail(queue[w])
      /\ \A v \in Worker \ {w} : job'[v] = job[v] /\ queue'[v] = queue[v]
  BY <1>1, <1>5, Zenon DEF IInv, Typed, ThreadTyped
<1>7. \A v \in Worker : Unfinished(v)' \subseteq Unfinished(v)
  <2>1. Unfinished(w)' \subseteq (Entries(Tail(queue[w])) \ {Fence}) \cup {m}
    BY <1>6, Zenon DEF Unfinished, Jobs, Entries
  <2>2. \A v \in Worker \ {w} : Unfinished(v)' = Unfinished(v)
    BY <1>6, Zenon DEF Unfinished, Jobs
  <2> HIDE DEF m
  <2> QED BY <1>3, <2>1, <2>2, Zenon
<1>8. \A r \in Req : blocks'[r] \in Seq(Slot) /\ Len(blocks[r]) =< Len(blocks'[r])
  BY <1>1 DEF IInv, Typed, PlanTyped, schedulerVars
<1>9. NoneSkipped'
  BY <1>1, <1>7, Zenon DEF OInv, NoneSkipped, schedulerVars
<1> HIDE DEF m
<1>10. ASSUME NEW v \in Worker, NEW r \in Req, ~(v = w /\ m.req = r)
       PROVE  Forgotten(v, r)' /\ Durable(v, r)'
  <2>1. job'[v] = job[v] \/ job'[v].meta.req # r
    BY <1>6, <1>10, Zenon
  <2>2. /\ align' = align /\ status'[r] = status[r] /\ step'.preempted = step.preempted
        /\ host'[v] = host[v] /\ offset'[v][r] = offset[v][r] /\ store' = store
    BY <1>1, Zenon DEF schedulerVars, hostVars
  <2> QED BY <1>7, <1>8, <2>1, <2>2, OffsetKept, Zenon
<1>11. ASSUME NEW r \in Req, m.req = r PROVE Forgotten(w, r)' /\ Durable(w, r)'
  <2>1. Forgotten(w, r) /\ Durable(w, r)
    BY Zenon DEF OInv
  <2>2. Forgotten(w, r)'
    BY <1>1, <1>7, <2>1, Zenon DEF Forgotten, schedulerVars, hostVars
  <2>3. ASSUME status[r] = "running", ~align, NEW i \in 1 .. m.len, i \notin Missing(w, m) PROVE Stored(w, r, i)
    <3>1. m.blocks[i] # Null
      BY <1>3, <2>3, Zenon DEF OInv, NoneSkipped
    <3>2. \A j \in 1 .. offset[w][r] : Stored(w, r, j)
      BY <2>1, <2>3, Zenon DEF Durable
    <3>3. offset[w][r] \in Nat
      BY DEF EInv, LedgerTyped
    <3>4. ~(i > offset[w][r]) => i \in 1 .. offset[w][r]
      BY <3>3
    <3> QED BY <1>11, <2>3, <3>1, <3>2, <3>4, Zenon DEF Missing, Stored
  <2>4. Durable(w, r)'
    BY <1>1, <1>6, <1>7, <2>1, <2>3, Zenon DEF Durable, Stored, schedulerVars
  <2> QED BY <2>2, <2>4, Zenon
<1> QED BY <1>9, <1>10, <1>11, Zenon DEF OInv
\* Put stores what its block holds, which is something, or the job has failed.
LEMMA PutOffsets ==
    ASSUME IInv, EInv, OInv, NEW w \in Worker, Put(w)
    PROVE  OInv'
<1> DEFINE m == job[w].meta
<1>1. PICK i \in job[w].todo, ok \in BOOLEAN :
         /\ job' = [job EXCEPT ![w] = [meta |-> @.meta, todo |-> @.todo \ {i}, ok |-> @.ok /\ ok]]
         /\ store' = IF ok THEN [store EXCEPT ![w][Prompt[m.req][i]] = mem[w][m.blocks[i]]] ELSE store
  BY Zenon DEF Put
<1>2. /\ device[w] = {} /\ job[w].todo # {}
      /\ UNCHANGED <<align, schedulerVars, step, hostVars, queue, offset>>
  BY Zenon DEF Put
<1>3. job[w] # NoJob
  BY <1>2 DEF NoJob
<1>4. m \in ReqMeta /\ Holds(w, m) /\ i \in 1 .. m.len /\ m.blocks[i] # Null
  BY <1>3 DEF IInv, Saves, JobHolds
<1>5. mem[w][m.blocks[i]] # Nothing
  BY <1>2, <1>4, Zenon DEF Holds, Good, Right
<1>6. Prompt[m.req][i] \in Key /\ m.req \in Req
  <2>1. m.len \in Nat /\ m.len =< Len(Prompt[m.req]) /\ m.req \in Req
    BY <1>4, Zenon DEF Holds, ReqMeta
  <2>2. Prompt[m.req] \in Seq(Key)
    BY <2>1, PromptAssumption, Zenon
  <2> HIDE DEF m
  <2> QED BY <1>4, <2>1, <2>2
<1>7. /\ ok => store'[w][Prompt[m.req][i]] # Nothing
      /\ \A v \in Worker : \A k \in Key : store[v][k] # Nothing => store'[v][k] # Nothing
  <2>1. store \in [Worker -> [Key -> Content]]
    BY Zenon DEF IInv, Typed, ThreadTyped
  <2>2. CASE ok
    <3> PICK k0, x : k0 = Prompt[m.req][i] /\ x = mem[w][m.blocks[i]]
      BY Zenon
    <3>1. store' = [store EXCEPT ![w][k0] = x] /\ k0 \in Key /\ x # Nothing
      BY <1>1, <1>5, <1>6, <2>2, Zenon
    <3>2. store'[w][k0] = x /\ \A v \in Worker : \A k \in Key : ~(v = w /\ k = k0) => store'[v][k] = store[v][k]
      BY <2>1, <3>1, Zenon
    <3> QED BY <3>1, <3>2, Zenon
  <2>3. CASE ~ok
    BY <1>1, <2>3, Zenon
  <2> QED BY <2>2, <2>3, Zenon
<1>8. /\ job'[w] = [meta |-> m, todo |-> job[w].todo \ {i}, ok |-> job[w].ok /\ ok]
      /\ \A v \in Worker \ {w} : job'[v] = job[v]
  BY <1>1, Zenon DEF IInv, Typed, ThreadTyped
<1>9. job'[w].meta = m /\ job'[w].todo = job[w].todo \ {i} /\ (job'[w].ok => job[w].ok /\ ok)
  <2>1. PICK b : b = (job[w].ok /\ ok)
    BY Zenon
  <2>2. job'[w] = [meta |-> m, todo |-> job[w].todo \ {i}, ok |-> b]
    BY <1>8, <2>1, Zenon
  <2>3. job'[w].meta = m /\ job'[w].todo = job[w].todo \ {i} /\ job'[w].ok = b
    BY <2>2
  <2> QED BY <2>1, <2>3, Zenon
<1>10. \A v \in Worker : Unfinished(v)' \subseteq Unfinished(v)
  <2>1. Unfinished(w)' \subseteq Jobs(w) \cup {m} /\ Unfinished(w) = Jobs(w) \cup {m}
    BY <1>2, <1>3, <1>9, Zenon DEF Unfinished, Jobs
  <2>2. \A v \in Worker \ {w} : Unfinished(v)' = Unfinished(v)
    BY <1>2, <1>8, Zenon DEF Unfinished, Jobs
  <2> QED BY <2>1, <2>2, Zenon
<1>11. \A r \in Req : blocks'[r] \in Seq(Slot) /\ Len(blocks[r]) =< Len(blocks'[r])
  BY <1>2 DEF IInv, Typed, PlanTyped, schedulerVars
<1>12. NoneSkipped'
  BY <1>2, <1>10, Zenon DEF OInv, NoneSkipped, schedulerVars
<1> HIDE DEF m
<1>13. ASSUME NEW v \in Worker, NEW r \in Req, ~(v = w /\ m.req = r)
       PROVE  Forgotten(v, r)' /\ Durable(v, r)'
  <2>1. job'[v] = job[v] \/ job'[v].meta.req # r
    BY <1>8, <1>9, <1>13, Zenon
  <2>2. /\ align' = align /\ status'[r] = status[r] /\ step'.preempted = step.preempted
        /\ host'[v] = host[v] /\ offset'[v][r] = offset[v][r]
    BY <1>2, Zenon DEF schedulerVars, hostVars
  <2> QED BY <1>7, <1>10, <1>11, <2>1, <2>2, OffsetKept, Zenon
<1>14. ASSUME NEW r \in Req, m.req = r PROVE Forgotten(w, r)' /\ Durable(w, r)'
  <2>1. Forgotten(w, r) /\ Durable(w, r)
    BY Zenon DEF OInv
  <2>2. Forgotten(w, r)'
    BY <1>2, <1>10, <2>1, Zenon DEF Forgotten, schedulerVars, hostVars
  <2>3. status[r] = "running" =>
           /\ \A j \in 1 .. offset[w][r] : Prompt[r][j] \in Key
           /\ \A j \in 1 .. m.len : Prompt[r][j] \in Key
    BY <1>3, <1>14, ChunkKeys, Zenon DEF m
  <2>4. ASSUME status[r] = "running", ~align, job'[w].ok, NEW j \in 1 .. m.len, j \notin job'[w].todo PROVE Stored(w, r, j)'
    <3>1. j = i \/ Stored(w, r, j)
      BY <1>3, <1>9, <1>14, <2>1, <2>4, Zenon DEF Durable, m
    <3> QED BY <1>7, <1>9, <1>14, <2>3, <2>4, <3>1, Zenon DEF Stored
  <2>5. status[r] = "running" /\ ~align => \A j \in 1 .. offset[w][r] : Stored(w, r, j)'
    BY <1>7, <2>1, <2>3, Zenon DEF Durable, Stored
  <2>6. Durable(w, r)'
    BY <1>2, <1>9, <1>10, <2>1, <2>4, <2>5, Zenon DEF Durable, schedulerVars
  <2> QED BY <2>2, <2>6, Zenon
<1> QED BY <1>12, <1>13, <1>14, Zenon DEF OInv

\* Done advances the offset of a request to what its job has stored.
LEMMA DoneOffsets ==
    ASSUME IInv, EInv, OInv, NEW w \in Worker, Done(w)
    PROVE  OInv'
<1> DEFINE m == job[w].meta
<1>1. /\ job[w] # NoJob /\ job[w].todo = {} /\ job' = [job EXCEPT ![w] = NoJob]
      /\ offset' = offset \/ (job[w].ok /\ offset' = [offset EXCEPT ![w][m.req] = m.len])
      /\ UNCHANGED <<align, schedulerVars, step, hostVars, queue, store>>
  BY Zenon DEF Done
<1>2. m \in ReqMeta /\ m.req \in Req /\ m \in Unfinished(w)
  BY <1>1, Zenon DEF IInv, Saves, JobHolds, ReqMeta, Unfinished
<1>3. job'[w] = NoJob /\ \A v \in Worker \ {w} : job'[v] = job[v]
  BY <1>1, Zenon DEF IInv, Typed, ThreadTyped
<1>4. \A v \in Worker : Unfinished(v)' \subseteq Unfinished(v)
  BY <1>1, <1>3, Zenon DEF Unfinished, Jobs
<1>5. \A r \in Req : blocks'[r] \in Seq(Slot) /\ Len(blocks[r]) =< Len(blocks'[r])
  BY <1>1 DEF IInv, Typed, PlanTyped, schedulerVars
<1>6. NoneSkipped'
  BY <1>1, <1>4, Zenon DEF OInv, NoneSkipped, schedulerVars
<1> HIDE DEF m
<1>7. \A v \in Worker, r \in Req : \/ offset'[v][r] = offset[v][r]
                                   \/ v = w /\ r = m.req /\ job[w].ok /\ offset'[v][r] = m.len
  <2>1. offset \in [Worker -> [Req -> Nat]]
    BY Zenon DEF EInv, LedgerTyped
  <2>2. CASE offset' = offset
    BY <2>2, Zenon
  <2>3. CASE job[w].ok /\ offset' = [offset EXCEPT ![w][m.req] = m.len]
    BY <1>2, <2>1, <2>3, Zenon
  <2> QED BY <1>1, <2>2, <2>3, Zenon
<1>8. ASSUME NEW v \in Worker, NEW r \in Req PROVE Forgotten(v, r)' /\ Durable(v, r)'
  <2>1. Forgotten(v, r) /\ Durable(v, r)
    BY Zenon DEF OInv
  <2>2. CASE offset'[v][r] = offset[v][r]
    <3>1. /\ align' = align /\ status'[r] = status[r] /\ step'.preempted = step.preempted
          /\ host'[v] = host[v] /\ store' = store /\ (job'[v] = job[v] \/ job'[v] = NoJob)
      BY <1>1, <1>3, Zenon DEF schedulerVars, hostVars
    <3> QED BY <1>4, <1>5, <2>2, <3>1, OffsetKept, Zenon
  <2>3. CASE v = w /\ r = m.req /\ job[w].ok /\ offset'[v][r] = m.len
    <3>1. Forgotten(v, r)'
      BY <1>1, <1>2, <2>1, <2>3, Zenon DEF Forgotten, schedulerVars, hostVars
    <3>2. status[r] = "running" => m.len =< Len(blocks[r]) /\ (~align => \A i \in 1 .. m.len : Stored(w, r, i))
      BY <1>1, <1>2, <2>1, <2>3, Zenon DEF Durable, m
    <3>3. Durable(v, r)'
      BY <1>1, <1>3, <1>4, <2>1, <2>3, <3>2, Zenon DEF Durable, Stored, schedulerVars
    <3> QED BY <3>1, <3>3, Zenon
  <2> QED BY <1>7, <2>2, <2>3, Zenon
<1> QED BY <1>6, <1>8, Zenon DEF OInv
\* The entries of two queues joined are those of either.
LEMMA EntriesOfBoth ==
    ASSUME NEW S, NEW p \in Seq(S), NEW q \in Seq(S)
    PROVE  Entries(p \o q) \subseteq Entries(p) \cup Entries(q)
<1> SUFFICES ASSUME NEW i \in DOMAIN (p \o q) PROVE (p \o q)[i] \in Entries(p) \cup Entries(q)
  BY Zenon DEF Entries
<1>1. CASE i \in DOMAIN p
  BY <1>1 DEF Entries
<1>2. CASE i \notin DOMAIN p
  <2>1. i - Len(p) \in DOMAIN q /\ (p \o q)[i] = q[i - Len(p)]
    BY <1>2
  <2> QED BY <2>1, Zenon DEF Entries
<1> QED BY <1>1, <1>2, Zenon

\* The thread is given saves of all the chunks of running requests.
LEMMA ExecuteOffsets ==
    ASSUME IInv, EInv, OInv, NEW w \in Worker, Execute(w)
    PROVE  OInv'
<1>1. /\ AddSaveBatch(w) /\ host' = [host EXCEPT ![w] = "launched"]
      /\ UNCHANGED <<align, schedulerVars, step, job, offset, store>>
  BY Zenon DEF Execute, Launch
<1>2. \A v \in Worker : host'[v] = host[v] \/ host'[v] # "done"
  BY <1>1 DEF IInv, Typed, WorkerTyped
<1>3. \A v \in Worker \ {w} : queue'[v] = queue[v]
  BY <1>1, Zenon DEF AddSaveBatch, IInv, Typed, ThreadTyped
<1>4. queue'[w] \in {queue[w], queue[w] \o step.save \o <<Fence>>}
  BY <1>1, Zenon DEF AddSaveBatch, IInv, Typed, ThreadTyped
<1>5. Unfinished(w)' \subseteq Unfinished(w) \cup StepSaves
  <2>1. queue[w] \in Seq(ReqMeta \cup {Fence}) /\ step.save \in Seq(ReqMeta \cup {Fence})
    BY DEF IInv, Typed, ThreadTyped, PlanTyped
  <2>2. Entries(queue[w] \o step.save \o <<Fence>>) \subseteq Entries(queue[w]) \cup Entries(step.save) \cup {Fence}
    <3>1. /\ queue[w] \o step.save \in Seq(ReqMeta \cup {Fence}) /\ <<Fence>> \in Seq(ReqMeta \cup {Fence})
          /\ Entries(<<Fence>>) = {Fence}
      BY <2>1 DEF Entries
    <3>2. Entries(queue[w] \o step.save) \subseteq Entries(queue[w]) \cup Entries(step.save)
      BY <2>1, EntriesOfBoth, Zenon
    <3>3. Entries(queue[w] \o step.save \o <<Fence>>) \subseteq Entries(queue[w] \o step.save) \cup Entries(<<Fence>>)
      BY <3>1, EntriesOfBoth, Zenon
    <3> QED BY <3>1, <3>2, <3>3, Zenon
  <2>3. Entries(queue[w])' \subseteq Entries(queue[w]) \cup Entries(step.save) \cup {Fence}
    BY <1>4, <2>2, Zenon DEF Entries
  <2>4. Jobs(w) = Entries(queue[w]) \ {Fence} /\ Jobs(w)' = Entries(queue[w])' \ {Fence}
    BY Zenon DEF Jobs, Entries
  <2> QED BY <1>1, <2>3, <2>4, Zenon DEF Unfinished, StepSaves
<1>6. \A v \in Worker \ {w} : Unfinished(v)' = Unfinished(v)
  BY <1>1, <1>3, Zenon DEF Unfinished, Jobs
<1>7. ASSUME NEW m \in StepSaves
      PROVE  m.req \in Req /\ status[m.req] = "running" /\ m.blocks = blocks[m.req] /\ m.len = Len(blocks[m.req])
  <2>1. PICK i \in DOMAIN step.save : m = step.save[i]
    BY <1>7, Zenon DEF StepSaves, Entries
  <2>2. m.req \in step.scheduled /\ m.blocks = blocks[m.req] /\ m.len = Len(m.blocks)
    BY <2>1, Zenon DEF IInv, Scheduled
  <2>3. step.scheduled \subseteq Req /\ \A r \in step.scheduled : status[r] = "running"
    BY Zenon DEF IInv, Scheduled, Typed, PlanTyped
  <2> QED BY <2>2, <2>3, Zenon
<1>8. \A r \in Req : blocks[r] \in Seq(Slot) /\ Len(blocks[r]) \in Nat /\ DOMAIN blocks[r] = 1 .. Len(blocks[r])
  BY DEF IInv, Typed, PlanTyped
<1>9. NoneSkipped'
  <2>1. ASSUME ~align, NEW m \in StepSaves PROVE \A i \in 1 .. m.len : m.blocks[i] # Null
    BY <1>7, <1>8, <2>1, Zenon DEF OInv, NoneSkipped
  <2> QED BY <1>1, <1>5, <1>6, <2>1, Zenon DEF OInv, NoneSkipped, schedulerVars
<1>10. ASSUME NEW v \in Worker, NEW r \in Req PROVE Forgotten(v, r)' /\ Durable(v, r)'
  <2>1. Forgotten(v, r) /\ Durable(v, r)
    BY Zenon DEF OInv
  <2>2. \A m \in Unfinished(v)' : m \in Unfinished(v) \/ m \in StepSaves
    BY <1>5, <1>6, Zenon
  <2>3. Forgotten(v, r)'
    BY <1>1, <1>2, <1>7, <2>1, <2>2, Zenon DEF Forgotten, schedulerVars
  <2>4. ASSUME NEW m \in Unfinished(v)', m.req = r, status[r] = "running" PROVE m.len =< Len(blocks[r])
    <3>1. CASE m \in Unfinished(v)
      BY <2>1, <2>4, <3>1, Zenon DEF Durable
    <3>2. CASE m \in StepSaves
      BY <1>7, <1>8, <2>4, <3>2
    <3> QED BY <2>2, <3>1, <3>2, Zenon
  <2>5. Durable(v, r)'
    BY <1>1, <2>1, <2>4, Zenon DEF Durable, Stored, schedulerVars
  <2> QED BY <2>3, <2>5, Zenon
<1> QED BY <1>9, <1>10, Zenon DEF OInv

\* get_finished forgets the offsets of preempted requests, which have no saves
\* in this step, and of no running request.
LEMMA GetFinishedOffsets ==
    ASSUME IInv, EInv, OInv, NEW w \in Worker, GetFinished(w)
    PROVE  OInv'
<1> DEFINE left == {x \in live[w] : x[1] \notin step.preempted}
           stored == {x[1] : x \in left}
           ended == (retired[w] \ step.preempted) \cup step.finished
           new == [r \in Req |-> IF r \in step.preempted \cup (ended \ stored) THEN 0 ELSE offset[w][r]]
<1>1. /\ host[w] = "launched" /\ offset' = [offset EXCEPT ![w] = new] /\ host' = [host EXCEPT ![w] = "done"]
      /\ UNCHANGED <<align, schedulerVars, step, queue, job, store>>
  BY Zenon DEF GetFinished
<1>2. ended \subseteq step.finished
  BY Zenon DEF EInv, Tracked
<1>3. \A r \in ended : status[r] = "finished"
  BY <1>2, Zenon DEF EInv, Ended
<1> HIDE DEF ended, stored
<1>4. /\ \A r \in Req : new[r] \in {0, offset[w][r]}
      /\ \A r \in Req \cap step.preempted : new[r] = 0
      /\ \A r \in Req : status[r] = "running" => new[r] = offset[w][r]
  BY <1>3, Zenon DEF EInv, Ended
<1> HIDE DEF new
<1>5. offset'[w] = new /\ \A v \in Worker \ {w} : offset'[v] = offset[v] /\ host'[v] = host[v]
  BY <1>1, Zenon DEF EInv, LedgerTyped, IInv, Typed, WorkerTyped
<1>6. \A v \in Worker : Unfinished(v)' = Unfinished(v)
  BY <1>1, Zenon DEF Unfinished, Jobs
<1>7. \A m \in Unfinished(w) : status[m.req] = "running"
  <2>1. \A m \in Unfinished(w) : m \in StepSaves
    BY <1>1, Zenon DEF EInv, Tracked
  <2>2. \A m \in StepSaves : status[m.req] = "running"
    BY Zenon DEF StepSaves, Entries, IInv, Scheduled
  <2> QED BY <2>1, <2>2, Zenon
<1>8. NoneSkipped'
  BY <1>1, <1>6, Zenon DEF OInv, NoneSkipped, schedulerVars
<1>9. \A r \in Req : blocks'[r] \in Seq(Slot) /\ Len(blocks[r]) =< Len(blocks'[r])
  BY <1>1 DEF IInv, Typed, PlanTyped, schedulerVars
<1>10. ASSUME NEW v \in Worker \ {w}, NEW r \in Req PROVE Forgotten(v, r)' /\ Durable(v, r)'
  <2>1. /\ align' = align /\ status'[r] = status[r] /\ step'.preempted = step.preempted
        /\ store' = store /\ job' = job /\ host'[v] = host[v] /\ offset'[v] = offset[v]
    BY <1>1, <1>5, Zenon DEF schedulerVars
  <2> QED BY <1>6, <1>9, <2>1, OffsetKept, Zenon
<1>11. ASSUME NEW r \in Req PROVE Forgotten(w, r)' /\ Durable(w, r)'
  <2>1. Forgotten(w, r) /\ Durable(w, r)
    BY Zenon DEF OInv
  <2>2. Forgotten(w, r)'
    <3>1. CASE r \in step.preempted
      BY <1>1, <1>4, <1>5, <1>6, <1>7, <3>1 DEF Forgotten, schedulerVars
    <3>2. CASE r \notin step.preempted
      BY <1>1, <1>4, <1>5, <1>6, <2>1, <3>2, Zenon DEF Forgotten, schedulerVars
    <3> QED BY <3>1, <3>2, Zenon
  <2>3. Durable(w, r)'
    BY <1>1, <1>4, <1>5, <1>6, <2>1, Zenon DEF Durable, Stored, schedulerVars
  <2> QED BY <2>2, <2>3, Zenon
<1> QED BY <1>8, <1>10, <1>11, Zenon DEF OInv
\* A pass begins with no request preempted, as the last one ended.
LEMMA BeginPassOffsets ==
    ASSUME IInv, EInv, OInv, BeginPass
    PROVE  OInv'
<1>1. /\ step.phase = "none" /\ step'.preempted = {}
      /\ UNCHANGED <<align, status, blocks, hostVars, threadVars, store>>
  BY Zenon DEF BeginPass
<1>2. step'.preempted = step.preempted
  BY <1>1, Zenon DEF EInv, Ended
<1>3. \A w \in Worker : Unfinished(w)' = Unfinished(w)
  BY <1>1, Zenon DEF Unfinished, Jobs, threadVars
<1> QED BY <1>1, <1>2, <1>3, OffsetsAside, Zenon DEF hostVars, threadVars

\* Dispatch tells the workers of the preemptions.
LEMMA DispatchOffsets ==
    ASSUME IInv, EInv, OInv, Dispatch
    PROVE  OInv'
<1>1. /\ step' = [step EXCEPT !.phase = "run"] /\ host' = [w \in Worker |-> "called"]
      /\ UNCHANGED <<align, schedulerVars, threadVars, store>>
  BY Zenon DEF Dispatch
<1>2. step'.preempted = step.preempted /\ \A w \in Worker : host'[w] # "done"
  BY <1>1 DEF IInv, Typed, PlanTyped
<1>3. \A w \in Worker : Unfinished(w)' = Unfinished(w)
  BY <1>1, Zenon DEF Unfinished, Jobs, threadVars
<1> QED BY <1>1, <1>2, <1>3, OffsetsAside, Zenon DEF schedulerVars, threadVars

\* At the end of a step every worker has forgotten the preempted requests.
LEMMA UpdateConnectorOutputOffsets ==
    ASSUME IInv, EInv, OInv, UpdateConnectorOutput
    PROVE  OInv'
<1>1. /\ \A w \in Worker : host[w] = "done"
      /\ UNCHANGED <<align, status, blocks, threadVars, store>>
  BY Zenon DEF UpdateConnectorOutput
<1>2. \A w \in Worker : Unfinished(w)' = Unfinished(w)
  BY <1>1, Zenon DEF Unfinished, Jobs, threadVars
<1>3. NoneSkipped'
  BY <1>1, <1>2, Zenon DEF OInv, NoneSkipped
<1>4. ASSUME NEW w \in Worker, NEW r \in Req PROVE Forgotten(w, r)' /\ Durable(w, r)'
  <2>1. Forgotten(w, r) /\ Durable(w, r)
    BY Zenon DEF OInv
  <2>2. Forgotten(w, r)'
    BY <1>1, <1>2, <2>1, Zenon DEF Forgotten, threadVars
  <2>3. Durable(w, r)'
    BY <1>1, <1>2, <2>1, Zenon DEF Durable, Stored, threadVars
  <2> QED BY <2>2, <2>3, Zenon
<1> QED BY <1>3, <1>4, Zenon DEF OInv

\* A request that loses its blocks is preempted in this step, or finished.
LEMMA LosesBlocksOffsets ==
    ASSUME IInv, EInv, OInv, NEW r \in Req, blocks' = [blocks EXCEPT ![r] = <<>>],
           \A q \in Req \ {r} : status'[q] = status[q], status'[r] # "running",
           status'[r] = "waiting" => r \in step'.preempted /\ \A w \in Worker : host[w] # "done",
           step.preempted \subseteq step'.preempted, UNCHANGED <<align, host, threadVars, store>>
    PROVE  OInv'
<1>1. \A w \in Worker : Unfinished(w)' = Unfinished(w)
  BY Zenon DEF Unfinished, Jobs, threadVars
<1>2. blocks'[r] = <<>> /\ \A q \in Req \ {r} : blocks'[q] = blocks[q]
  BY Zenon DEF IInv, Typed, PlanTyped
<1>3. NoneSkipped'
  <2>1. \A q \in Req : \A i \in DOMAIN blocks'[q] : i \in DOMAIN blocks[q] /\ blocks'[q][i] = blocks[q][i]
    BY <1>2
  <2>2. NoneSkipped /\ align' = align
    BY Zenon DEF OInv
  <2> QED BY <1>1, <2>1, <2>2 DEF NoneSkipped
<1>4. \A q \in Req : blocks[q] \in Seq(Slot) /\ Len(blocks[q]) =< Len(blocks[q])
  BY DEF IInv, Typed, PlanTyped
<1>5. ASSUME NEW w \in Worker, NEW q \in Req \ {r} PROVE Forgotten(w, q)' /\ Durable(w, q)'
  <2>1. host'[w] = host[w] /\ offset'[w][q] = offset[w][q] /\ job'[w] = job[w] /\ store' = store
    BY Zenon DEF threadVars
  <2> QED BY <1>1, <1>2, <1>4, <2>1, OffsetKept, Zenon
<1>6. ASSUME NEW w \in Worker PROVE Forgotten(w, r)' /\ Durable(w, r)'
  BY Zenon DEF Forgotten, Durable
<1>7. \A w \in Worker, q \in Req : Forgotten(w, q)' /\ Durable(w, q)'
  BY <1>5, <1>6
<1> QED BY <1>3, <1>7, Zenon DEF OInv

\* Preempt: the workers forget the offset before the request runs again.
LEMMA PreemptOffsets ==
    ASSUME IInv, EInv, OInv, NEW r \in Req, Preempt(r)
    PROVE  OInv'
<1>1. /\ step.phase = "plan" /\ status' = [status EXCEPT ![r] = "waiting"] /\ blocks' = [blocks EXCEPT ![r] = <<>>]
      /\ step' = [step EXCEPT !.preempted = step.preempted \cup {r}]
      /\ UNCHANGED <<align, hostVars, threadVars, store>>
  BY Zenon DEF Preempt
<1>2. step'.preempted = step.preempted \cup {r} /\ status'[r] = "waiting" /\ \A q \in Req \ {r} : status'[q] = status[q]
  BY <1>1, Zenon DEF IInv, Typed, PlanTyped
<1>3. \A w \in Worker : host[w] # "done"
  BY <1>1 DEF IInv, Phases
<1> QED BY <1>1, <1>2, <1>3, LosesBlocksOffsets, Zenon DEF hostVars

\* Finish: a request that has ended has no offset to keep.
LEMMA FinishOffsets ==
    ASSUME IInv, EInv, OInv, NEW r \in Req, Finish(r)
    PROVE  OInv'
<1>1. /\ status' = [status EXCEPT ![r] = "finished"] /\ blocks' = [blocks EXCEPT ![r] = <<>>]
      /\ UNCHANGED <<align, step, hostVars, threadVars, store>>
  BY Zenon DEF Finish
<1>2. status'[r] = "finished" /\ \A q \in Req \ {r} : status'[q] = status[q]
  BY <1>1, Zenon DEF IInv, Typed, PlanTyped
<1> QED BY <1>1, <1>2, LosesBlocksOffsets, Zenon DEF hostVars
\* A running request gets a block more, or none.
LEMMA RunOffsets ==
    ASSUME IInv, EInv, OInv, NEW r \in Req, Run(r)
    PROVE  OInv'
<1>1. PICK new \in {<<>>} \cup {<<b>> : b \in Free} :
        /\ blocks' = [blocks EXCEPT ![r] = Cut(blocks[r]) \o new]
        /\ step'.preempted = step.preempted
  <2>1. PICK new \in {<<>>} \cup {<<b>> : b \in Free} :
          /\ blocks' = [blocks EXCEPT ![r] = Cut(blocks[r]) \o new]
          /\ step' = [step EXCEPT !.scheduled = @ \cup {r}, !.save = Append(@, Meta(r, Cut(blocks[r]) \o new)),
                                  !.write = @ \cup {<<b, Prompt[r][Len(Cut(blocks[r]) \o new)]>> : b \in Held(new)}]
    BY ZenonT(40) DEF Run
  <2>2. step'.preempted = step.preempted
    BY <2>1, Zenon DEF IInv, Typed, PlanTyped
  <2> QED BY <2>1, <2>2, Zenon
<1>2. UNCHANGED <<align, status, hostVars, threadVars, store>>
  BY Zenon DEF Run
<1>3. PICK q : q = Cut(blocks[r]) \o new
  BY Zenon
<1>4. /\ q \in Seq(Slot) /\ Len(blocks[r]) =< Len(q)
      /\ ~align => \A i \in DOMAIN q : q[i] # Null \/ (i \in DOMAIN blocks[r] /\ blocks[r][i] = Null)
  <2>1. blocks[r] \in Seq(Slot)
    BY ZenonT(40) DEF IInv, Typed, PlanTyped
  <2>2. /\ Cut(blocks[r]) \in Seq(Slot) /\ Len(Cut(blocks[r])) = Len(blocks[r])
        /\ ~align => \A i \in DOMAIN blocks[r] : Cut(blocks[r])[i] = blocks[r][i]
    BY <2>1 DEF Cut, Slot
  <2>3. CASE new = <<>>
    BY <1>3, <2>1, <2>2, <2>3
  <2>4. ASSUME NEW b \in Free, new = <<b>>
        PROVE  /\ q \in Seq(Slot) /\ Len(blocks[r]) =< Len(q)
               /\ ~align => \A i \in DOMAIN q : q[i] # Null \/ (i \in DOMAIN blocks[r] /\ blocks[r][i] = Null)
    <3>1. b \in Slot /\ b # Null
      BY PromptAssumption, Zenon DEF Free, Slot
    <3> QED BY <1>3, <2>1, <2>2, <2>4, <3>1
  <2> QED BY <2>3, <2>4, Zenon
<1>5. blocks'[r] = q /\ \A p \in Req \ {r} : blocks'[p] = blocks[p]
  BY <1>1, <1>3, Zenon DEF IInv, Typed, PlanTyped
<1>6. \A w \in Worker : Unfinished(w)' = Unfinished(w)
  BY <1>2, Zenon DEF Unfinished, Jobs, threadVars
<1>7. NoneSkipped'
  <2>1. ASSUME ~align, NEW p \in Req, NEW i \in DOMAIN blocks'[p] PROVE blocks'[p][i] # Null
    BY <1>4, <1>5, <2>1, Zenon DEF OInv, NoneSkipped
  <2> QED BY <1>2, <1>6, <2>1, Zenon DEF OInv, NoneSkipped
<1>8. \A p \in Req : blocks[p] \in Seq(Slot) /\ Len(blocks[p]) =< Len(blocks[p])
  BY DEF IInv, Typed, PlanTyped
<1>9. \A p \in Req : blocks'[p] \in Seq(Slot) /\ Len(blocks[p]) =< Len(blocks'[p])
  BY <1>4, <1>5, <1>8
<1>10. ASSUME NEW w \in Worker, NEW p \in Req PROVE Forgotten(w, p)' /\ Durable(w, p)'
  <2>1. /\ align' = align /\ status'[p] = status[p] /\ host'[w] = host[w] /\ offset'[w][p] = offset[w][p]
        /\ job'[w] = job[w] /\ store' = store
    BY <1>2, Zenon DEF hostVars, threadVars
  <2> QED BY <1>1, <1>6, <1>9, <2>1, OffsetKept, Zenon
<1> QED BY <1>7, <1>10, Zenon DEF OInv

\* A request starts, again or for the first time, when every worker has
\* forgotten it.
LEMMA AdmitOffsets ==
    ASSUME IInv, PlanTyped', EInv, OInv, NEW r \in Req, Admit(r)
    PROVE  OInv'
<1>1. PICK hit : hit = Hit(r)
  BY Zenon
<1>2. PICK len : len = IF hit < Len(Prompt[r]) THEN hit + 1 ELSE hit
  BY Zenon
<1>3. PICK q \in [1 .. len -> Free \cup {Null}] :
        /\ \A i \in DOMAIN q : (q[i] = Null) = (align /\ i < hit)
        /\ \A i, j \in DOMAIN q : i # j /\ q[i] # Null => q[i] # q[j]
        /\ blocks' = [blocks EXCEPT ![r] = q]
        /\ step' = [step EXCEPT !.scheduled = @ \cup {r}, !.admitted = TRUE,
                                !.load = @ \cup {<<q[i], Prompt[r][i]>> : i \in {j \in 1 .. hit : q[j] # Null}},
                                !.write = @ \cup {<<q[i], Prompt[r][i]>> : i \in hit + 1 .. Len(q)},
                                !.save = IF hit = 0 THEN <<Meta(r, q)>> \o @ ELSE @]
        /\ IF hit = 0 THEN Retain(r, q) ELSE UNCHANGED <<saved, sending, next_id>>
  BY <1>1, <1>2, ZenonT(40) DEF Admit
<1>4. /\ status[r] = "waiting" /\ step.preempted = {} /\ status' = [status EXCEPT ![r] = "running"]
      /\ UNCHANGED <<align, hostVars, threadVars, store>>
  BY Zenon DEF Admit
<1>5. step'.preempted = step.preempted
  <2>1. \E x, l, y, z : step' = [step EXCEPT !.scheduled = x, !.admitted = TRUE, !.load = l, !.write = y, !.save = z]
    BY <1>3, Zenon
  <2> QED BY <2>1 DEF IInv, Typed, PlanTyped
<1>6. blocks'[r] = q /\ \A p \in Req \ {r} : blocks'[p] = blocks[p] /\ status'[p] = status[p]
  <2>1. blocks' = [blocks EXCEPT ![r] = q]
    BY <1>3, Zenon
  <2>2. blocks \in [Req -> Seq(Slot)] /\ status \in [Req -> {"waiting", "running", "finished"}]
    BY Zenon DEF IInv, Typed, PlanTyped
  <2> QED BY <1>4, <2>1, <2>2, Zenon
<1>7. \A w \in Worker : Unfinished(w)' = Unfinished(w)
  BY <1>4, Zenon DEF Unfinished, Jobs, threadVars
<1>8. NoneSkipped'
  <2>1. ASSUME ~align, NEW p \in Req, NEW i \in DOMAIN blocks'[p] PROVE blocks'[p][i] # Null
    <3>1. CASE p = r
      BY <1>3, <1>6, <2>1, <3>1, Zenon
    <3>2. CASE p # r
      BY <1>6, <2>1, <3>2, Zenon DEF OInv, NoneSkipped
    <3> QED BY <3>1, <3>2, Zenon
  <2>2. align' = align
    BY <1>4, Zenon
  <2> QED BY <1>7, <2>1, <2>2, Zenon DEF OInv, NoneSkipped
<1>9. \A p \in Req : blocks[p] \in Seq(Slot) /\ Len(blocks[p]) =< Len(blocks[p])
  BY DEF IInv, Typed, PlanTyped
<1>10. ASSUME NEW w \in Worker, NEW p \in Req \ {r} PROVE Forgotten(w, p)' /\ Durable(w, p)'
  <2>1. /\ align' = align /\ host'[w] = host[w] /\ offset'[w][p] = offset[w][p]
        /\ job'[w] = job[w] /\ store' = store
    BY <1>4, Zenon DEF hostVars, threadVars
  <2> QED BY <1>5, <1>6, <1>7, <1>9, <2>1, OffsetKept, Zenon
<1>11. ASSUME NEW w \in Worker PROVE Forgotten(w, r)' /\ Durable(w, r)'
  <2>1. offset[w][r] = 0 /\ \A m \in Unfinished(w) : m.req # r
    BY <1>4, Zenon DEF OInv, Forgotten
  <2>2. offset'[w][r] = 0 /\ \A m \in Unfinished(w)' : m.req # r
    BY <1>4, <1>7, <2>1, Zenon DEF threadVars
  <2>3. job'[w] # NoJob => job'[w].meta.req # r
    BY <2>2, Zenon DEF Unfinished
  <2>4. Len(blocks'[r]) \in Nat /\ status'[r] = "running"
    BY <1>4 DEF PlanTyped, IInv, Typed
  <2> QED BY <2>2, <2>3, <2>4 DEF Forgotten, Durable
<1>12. \A w \in Worker, p \in Req : Forgotten(w, p)' /\ Durable(w, p)'
  BY <1>10, <1>11
<1> QED BY <1>8, <1>12, Zenon DEF OInv

\* A reset empties the store when no request has blocks, nor an offset.
LEMMA ResetOffsets ==
    ASSUME IInv, EInv, OInv, Reset
    PROVE  OInv'
<1>1. /\ \A r \in Req : blocks[r] = <<>>
      /\ UNCHANGED <<align, schedulerVars, step, hostVars, threadVars>>
  BY Zenon DEF Reset
<1>2. \A w \in Worker : Unfinished(w)' = Unfinished(w)
  BY <1>1, Zenon DEF Unfinished, Jobs, threadVars
<1>3. NoneSkipped'
  BY <1>1, <1>2, Zenon DEF OInv, NoneSkipped, schedulerVars
<1>4. ASSUME NEW w \in Worker, NEW r \in Req PROVE Forgotten(w, r)' /\ Durable(w, r)'
  <2>1. Forgotten(w, r) /\ Durable(w, r)
    BY Zenon DEF OInv
  <2>2. Forgotten(w, r)'
    BY <1>1, <1>2, <2>1, Zenon DEF Forgotten, schedulerVars, hostVars, threadVars
  <2>3. ASSUME status[r] = "running" PROVE Durable(w, r)'
    <3>1. Len(blocks[r]) = 0
      BY <1>1
    <3>2. offset[w][r] \in Nat /\ offset[w][r] =< 0
      BY <2>1, <2>3, <3>1, ChunkKeys, Zenon DEF Durable
    <3>3. 1 .. offset[w][r] = {}
      BY <3>2
    <3>4. job[w] # NoJob /\ job[w].meta.req = r => 1 .. job[w].meta.len = {}
      <4> SUFFICES ASSUME job[w] # NoJob, job[w].meta.req = r PROVE 1 .. job[w].meta.len = {}
        BY Zenon
      <4>1. job[w].meta.len \in Nat /\ job[w].meta.len =< 0
        BY <2>1, <2>3, <3>1, ChunkKeys, Zenon DEF Durable, Unfinished
      <4> QED BY <4>1
    <3> QED BY <1>1, <1>2, <2>1, <3>3, <3>4, Zenon DEF Durable, schedulerVars, threadVars
  <2>4. status[r] # "running" => Durable(w, r)'
    BY <1>1, Zenon DEF Durable, schedulerVars
  <2> QED BY <2>2, <2>3, <2>4, Zenon
<1> QED BY <1>3, <1>4, Zenon DEF OInv

\* PassFence: a fence is no save.
LEMMA PassFenceOffsets ==
    ASSUME IInv, EInv, OInv, NEW w \in Worker, PassFence(w)
    PROVE  OInv'
<1>1. /\ queue[w] \in Seq(ReqMeta \cup {Fence}) /\ queue[w] # <<>>
      /\ queue' = [queue EXCEPT ![w] = Tail(queue[w])]
      /\ UNCHANGED <<align, schedulerVars, step, host, job, offset, store>>
  BY Zenon DEF PassFence, IInv, Typed, ThreadTyped
<1>2. queue'[w] = Tail(queue[w]) /\ \A v \in Worker \ {w} : queue'[v] = queue[v]
  BY <1>1, Zenon DEF IInv, Typed, ThreadTyped
<1>3. Entries(Tail(queue[w])) \subseteq Entries(queue[w])
  BY <1>1, HeadAndTail, Zenon
<1>4. \A v \in Worker : Jobs(v) = Entries(queue[v]) \ {Fence} /\ Jobs(v)' = Entries(queue'[v]) \ {Fence}
  BY Zenon DEF Jobs, Entries
<1>5. \A v \in Worker : Jobs(v)' \subseteq Jobs(v)
  BY <1>2, <1>3, <1>4, Zenon
<1>6. \A v \in Worker : Unfinished(v)' \subseteq Unfinished(v)
  BY <1>1, <1>5, Zenon DEF Unfinished
<1> QED BY <1>1, <1>6, OffsetsAside, Zenon DEF schedulerVars

\* Fail: the thread drops its queue and its job.
LEMMA FailOffsets ==
    ASSUME IInv, EInv, OInv, NEW w \in Worker, Fail(w)
    PROVE  OInv'
<1>1. /\ job' = [job EXCEPT ![w] = NoJob] /\ queue' = [queue EXCEPT ![w] = <<>>]
      /\ UNCHANGED <<align, schedulerVars, step, host, offset, store>>
  BY Zenon DEF Fail
<1>2. /\ job'[w] = NoJob /\ queue'[w] = <<>>
      /\ \A v \in Worker \ {w} : job'[v] = job[v] /\ queue'[v] = queue[v]
  BY <1>1, Zenon DEF IInv, Typed, ThreadTyped
<1>3. Unfinished(w)' = {} /\ \A v \in Worker \ {w} : Unfinished(v)' = Unfinished(v)
  BY <1>2 DEF Unfinished, Jobs, Entries
<1>4. \A v \in Worker : Unfinished(v)' \subseteq Unfinished(v) /\ (job'[v] = job[v] \/ job'[v] = NoJob)
  BY <1>2, <1>3, Zenon
<1> QED BY <1>1, <1>4, OffsetsAside, Zenon DEF schedulerVars

\* Nothing is saved at the start.
LEMMA InitOffsets == Init => OInv
<1> SUFFICES ASSUME Init PROVE OInv
  BY Zenon
<1>1. \A w \in Worker : queue[w] = <<>> /\ job[w] = NoJob
  BY Zenon DEF Init
<1>2. \A w \in Worker : Unfinished(w) = {}
  BY <1>1 DEF Unfinished, Jobs
<1>3. \A r \in Req : blocks[r] = <<>> /\ status[r] = "waiting" /\ \A w \in Worker : offset[w][r] = 0
  BY Zenon DEF Init
<1>4. NoneSkipped
  BY <1>2, <1>3 DEF NoneSkipped
<1> QED BY <1>2, <1>3, <1>4 DEF OInv, Forgotten, Durable
=============================================================================
