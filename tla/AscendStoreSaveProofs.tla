------------------------- MODULE AscendStoreSaveProofs -------------------------
(***************************************************************************)
(* The steps of the scheduler side of AscendStore, and the reset, keep     *)
(* IInv; with it and EInv, the theorems about AscendStoreSave.             *)
(***************************************************************************)
EXTENDS AscendStoreActionProofs

-----------------------------------------------------------------------------
(* The scheduler *)

\* The scheduler touches neither the memory nor the threads.
LEMMA EngineStep ==
    ASSUME IInv, UNCHANGED <<align, epoch, fence, mem, device, queue, job>>,
           PlanTyped', host' \in [Worker -> {"idle", "called", "waiting", "launched", "done"}],
           store' \in [Worker -> [Key -> Content]],
           Phases', Disjoint', Scheduled', Slots', Loads', StoreRight'
    PROVE  IInv'
<1>1. Typed'
  BY Zenon DEF IInv, Typed, WorkerTyped, ThreadTyped
<1>2. Fenced'
  BY ZenonT(40) DEF IInv, Fenced
<1>3. \A v, m : Holds(v, m)' = Holds(v, m)
  BY HoldsUnchanged, Zenon
<1>4. Saves'
  BY <1>3, Zenon DEF IInv, Saves, QueueHolds, JobHolds
<1> QED BY <1>1, <1>2, <1>4, Zenon DEF IInv

\* BeginPass opens an empty plan.
LEMMA BeginPassPreserves ==
    ASSUME IInv, BeginPass
    PROVE  IInv'
<1>1. /\ step' = [phase |-> "plan", scheduled |-> {}, admitted |-> FALSE, preempted |-> {}, finished |-> finished,
                  load |-> {}, write |-> {}, save |-> <<>>]
      /\ finished' = {} /\ step.phase = "none"
      /\ UNCHANGED <<align, epoch, status, blocks, next_id, host, fence, mem, device, queue, job, store>>
  BY ZenonT(40) DEF BeginPass, hostVars, threadVars, faultVars
<1>2. step.load = {} /\ step.write = {} /\ step.save = <<>>
  BY <1>1, Zenon DEF IInv, Phases
<1>3. PlanTyped'
  <2>1. finished \subseteq Req
    BY ZenonT(40) DEF IInv, Typed, PlanTyped
  <2>2. step' \in [phase : {"none", "plan", "run"}, scheduled : SUBSET Req, admitted : BOOLEAN, preempted : SUBSET Req,
                  finished : SUBSET Req, load : SUBSET (Block \X Key), write : SUBSET (Block \X Key), save : Seq(ReqMeta)]
    BY <1>1, <2>1
  <2>3. finished' \subseteq Req
    BY <1>1, Zenon
  <2> QED BY <1>1, <2>2, <2>3, ZenonT(40) DEF IInv, Typed, PlanTyped
<1>4. /\ host' \in [Worker -> {"idle", "called", "waiting", "launched", "done"}]
      /\ store' \in [Worker -> [Key -> Content]]
  BY <1>1, Zenon DEF IInv, Typed, WorkerTyped, ThreadTyped
<1>5. Phases'
  BY <1>1, Zenon DEF IInv, Phases
<1>6. Disjoint' /\ Loads' /\ StoreRight'
  BY <1>1 DEF IInv, Disjoint, Loads, StoreRight, Right
<1>10. Scheduled'
  <2>1. step'.scheduled = {} /\ step'.load \cup step'.write = {} /\ DOMAIN step'.save = {}
    BY <1>1
  <2>2. \A r \in Req : Len(blocks'[r]) =< Len(Prompt[r])
    BY <1>1, ZenonT(40) DEF IInv, Scheduled
  <2> QED BY <2>1, <2>2, ZenonT(40) DEF Scheduled
<1>7. \A v, b : ~Planned(v, b) /\ ~Planned(v, b)'
  BY <1>1, <1>2, Zenon DEF Planned
<1>8. \A v, b, k : Good(v, b, k)' = Good(v, b, k)
  BY <1>1, GoodUnchanged, Zenon
<1>9. Slots'
  BY <1>1, <1>7, <1>8, ZenonT(40) DEF IInv, Slots
<1> QED BY <1>1, <1>3, <1>4, <1>5, <1>6, <1>9, <1>10, EngineStep, Zenon

\* Dispatch hands the plan to the workers.
LEMMA DispatchPreserves ==
    ASSUME IInv, Dispatch
    PROVE  IInv'
<1>1. /\ step' = [step EXCEPT !.phase = "run"] /\ host' = [w \in Worker |-> "called"] /\ step.phase = "plan"
      /\ UNCHANGED <<align, epoch, status, blocks, finished, next_id, fence, mem, device, queue, job, store>>
  BY Zenon DEF Dispatch, schedulerVars, threadVars, faultVars
<1>2. /\ step'.phase = "run" /\ step'.load = step.load /\ step'.write = step.write /\ step'.save = step.save
      /\ step'.scheduled = step.scheduled
      /\ PlanTyped'
  BY <1>1, ZenonT(40) DEF IInv, Typed, PlanTyped
<1>3. /\ host' \in [Worker -> {"idle", "called", "waiting", "launched", "done"}]
      /\ store' \in [Worker -> [Key -> Content]]
  BY <1>1, Zenon DEF IInv, Typed, ThreadTyped
<1>4. Phases'
  BY <1>1, <1>2, Zenon DEF IInv, Phases
<1>5. Disjoint' /\ Scheduled' /\ Loads' /\ StoreRight'
  BY <1>1, <1>2 DEF IInv, Disjoint, Scheduled, Loads, StoreRight, Right
<1>6. \A v \in Worker : \A b : Planned(v, b)' <=> Planned(v, b)
  BY <1>1, <1>2, Zenon DEF Planned
<1>7. \A v, b, k : Good(v, b, k)' = Good(v, b, k)
  BY <1>1, GoodUnchanged, Zenon
<1>8. Slots'
  BY <1>1, <1>2, <1>6, <1>7, Zenon DEF IInv, Slots
<1> QED BY <1>1, <1>2, <1>3, <1>4, <1>5, <1>8, EngineStep, Zenon

\* The empty plan.
LEMMA NoStepTyped ==
    NoStep \in [phase : {"none", "plan", "run"}, scheduled : SUBSET Req, admitted : BOOLEAN, preempted : SUBSET Req,
            finished : SUBSET Req, load : SUBSET (Block \X Key), write : SUBSET (Block \X Key), save : Seq(ReqMeta)]
BY DEF NoStep

\* UpdateConnectorOutput closes a step that every worker has carried out.
LEMMA UpdateConnectorOutputPreserves ==
    ASSUME IInv, UpdateConnectorOutput
    PROVE  IInv'
<1>1. /\ step' = NoStep /\ host' = [w \in Worker |-> "idle"] /\ step.phase = "run"
      /\ \A w \in Worker : host[w] = "done"
      /\ UNCHANGED <<align, epoch, status, blocks, finished, next_id, fence, mem, device, queue, job, store>>
  BY Zenon DEF UpdateConnectorOutput, threadVars, faultVars
<1>2. PlanTyped'
  BY <1>1, NoStepTyped, Zenon DEF IInv, Typed, PlanTyped
<1>3. /\ host' \in [Worker -> {"idle", "called", "waiting", "launched", "done"}]
      /\ store' \in [Worker -> [Key -> Content]]
  BY <1>1, Zenon DEF IInv, Typed, ThreadTyped
<1>4. Phases'
  BY <1>1, ZenonT(40) DEF IInv, Phases, NoStep
<1>5. Disjoint' /\ StoreRight'
  BY <1>1 DEF IInv, Disjoint, StoreRight, Right
<1>6. Loads'
  BY <1>1, Zenon DEF Loads, NoStep
<1>7. Scheduled'
  <2>1. step'.scheduled = {} /\ step'.load \cup step'.write = {} /\ DOMAIN step'.save = {}
    BY <1>1 DEF NoStep
  <2>2. \A r \in Req : Len(blocks'[r]) =< Len(Prompt[r])
    BY <1>1, ZenonT(40) DEF IInv, Scheduled
  <2> QED BY <2>1, <2>2, ZenonT(40) DEF Scheduled
<1>8. \A v \in Worker : \A b : ~Planned(v, b)' /\ ~Planned(v, b)
  BY <1>1, ZenonT(40) DEF Planned, NoStep
<1>9. \A v, b, k : Good(v, b, k)' = Good(v, b, k)
  BY <1>1, GoodUnchanged, Zenon
<1>10. Slots'
  BY <1>1, <1>8, <1>9, ZenonT(40) DEF IInv, Slots
<1> QED BY <1>1, <1>2, <1>3, <1>4, <1>5, <1>6, <1>7, <1>10, EngineStep, Zenon

\* A request outside the step gives up its blocks.
LEMMA BlocksDropped ==
    ASSUME IInv, NEW r \in Req, r \notin step.scheduled, blocks' = [blocks EXCEPT ![r] = <<>>],
           NEW t, status' = [status EXCEPT ![r] = t], PlanTyped',
           step'.phase = step.phase, step'.load = step.load, step'.write = step.write, step'.save = step.save,
           step'.scheduled = step.scheduled,
           UNCHANGED <<align, epoch, host, fence, mem, device, queue, job, store>>
    PROVE  IInv'
<1>1. /\ blocks \in [Req -> Seq(Slot)] /\ step.scheduled \subseteq Req /\ step.save \in Seq(ReqMeta)
      /\ status \in [Req -> {"waiting", "running", "finished"}]
  BY Zenon DEF IInv, Typed, PlanTyped
<1>2. blocks'[r] = <<>> /\ \A q \in Req \ {r} : blocks'[q] = blocks[q] /\ status'[q] = status[q]
  BY <1>1, Zenon
<1>3. /\ host' \in [Worker -> {"idle", "called", "waiting", "launched", "done"}]
      /\ store' \in [Worker -> [Key -> Content]]
  BY Zenon DEF IInv, Typed, WorkerTyped, ThreadTyped
<1>4. Phases'
  BY Zenon DEF IInv, Phases
<1>5. Disjoint'
  BY <1>2 DEF IInv, Disjoint
<1>6. Scheduled'
  <2>1. \A q \in step.scheduled : status'[q] = "running" /\ blocks'[q] = blocks[q]
    BY <1>1, <1>2, Zenon DEF IInv, Scheduled
  <2>2. \A q \in Req : Len(blocks'[q]) =< Len(Prompt[q])
    BY <1>2, PromptAssumption DEF IInv, Scheduled
  <2>3. \A x \in step.load \cup step.write : \E q \in step.scheduled : \E i \in DOMAIN blocks'[q] : blocks'[q][i] = x[1]
    BY <2>1 DEF IInv, Scheduled
  <2>4. \A i \in DOMAIN step.save : /\ step.save[i].req \in step.scheduled
                                   /\ step.save[i].blocks = blocks'[step.save[i].req]
                                   /\ step.save[i].len = Len(step.save[i].blocks)
    BY <2>1, Zenon DEF IInv, Scheduled
  <2> QED BY <2>1, <2>2, <2>3, <2>4 DEF Scheduled
<1>7. \A v, b : Planned(v, b)' <=> Planned(v, b)
  BY Zenon DEF Planned
<1>8. \A v, b, k : Good(v, b, k)' = Good(v, b, k)
  BY GoodUnchanged, Zenon
<1>9. Slots'
  <2> SUFFICES ASSUME NEW v \in Worker, NEW q \in Req, NEW i \in DOMAIN blocks'[q], blocks'[q][i] # Null
               PROVE  IF Planned(v, blocks'[q][i])
                      THEN \A k \in Key : <<blocks'[q][i], k>> \in step.load \cup step.write => k = Prompt[q][i]
                      ELSE Good(v, blocks'[q][i], Prompt[q][i])
    BY <1>7, <1>8, ZenonT(40) DEF Slots
  <2>1. q # r /\ blocks'[q] = blocks[q]
    BY <1>2
  <2> QED BY <2>1, Zenon DEF IInv, Slots
<1>10. Loads' /\ StoreRight'
  BY DEF IInv, Loads, StoreRight, Right
<1> QED BY <1>3, <1>4, <1>5, <1>6, <1>9, <1>10, EngineStep, Zenon

\* Preempt takes the blocks of a running request.
LEMMA PreemptPreserves ==
    ASSUME IInv, NEW r \in Req, Preempt(r)
    PROVE  IInv'
<1>1. /\ r \notin step.scheduled /\ blocks' = [blocks EXCEPT ![r] = <<>>] /\ status' = [status EXCEPT ![r] = "waiting"]
      /\ step' = [step EXCEPT !.preempted = @ \cup {r}]
      /\ UNCHANGED <<align, epoch, finished, next_id, host, fence, mem, device, queue, job, store>>
  BY Zenon DEF Preempt, hostVars, threadVars, faultVars
<1>2. /\ step'.phase = step.phase /\ step'.load = step.load /\ step'.write = step.write /\ step'.save = step.save
      /\ step'.scheduled = step.scheduled
  BY <1>1, Zenon DEF IInv, Typed, PlanTyped
<1>3. PlanTyped'
  <2>1. status' \in [Req -> {"waiting", "running", "finished"}] /\ blocks' \in [Req -> Seq(Slot)]
    BY <1>1 DEF IInv, Typed, PlanTyped
  <2>2. step' \in [phase : {"none", "plan", "run"}, scheduled : SUBSET Req, admitted : BOOLEAN, preempted : SUBSET Req,
                   finished : SUBSET Req, load : SUBSET (Block \X Key), write : SUBSET (Block \X Key), save : Seq(ReqMeta)]
    BY <1>1, ZenonT(40) DEF IInv, Typed, PlanTyped
  <2> QED BY <1>1, <2>1, <2>2, ZenonT(40) DEF IInv, Typed, PlanTyped
<1> QED BY <1>1, <1>2, <1>3, BlocksDropped, ZenonT(40)

\* Finish frees the blocks between steps.
LEMMA FinishPreserves ==
    ASSUME IInv, NEW r \in Req, Finish(r)
    PROVE  IInv'
<1>1. /\ step.phase = "none" /\ blocks' = [blocks EXCEPT ![r] = <<>>] /\ status' = [status EXCEPT ![r] = "finished"]
      /\ finished' = finished \cup {r}
      /\ UNCHANGED <<align, epoch, step, next_id, host, fence, mem, device, queue, job, store>>
  BY Zenon DEF Finish, hostVars, threadVars, faultVars
<1>2. r \notin step.scheduled
  BY <1>1, Zenon DEF IInv, Phases
<1>3. PlanTyped'
  BY <1>1 DEF IInv, Typed, PlanTyped
<1> QED BY <1>1, <1>2, <1>3, BlocksDropped, ZenonT(40)

\* Reset empties the store between steps, when no request has a block; in an
\* align-state group there must be no save under way.
LEMMA ResetPreserves ==
    ASSUME IInv, Reset, align => \A w \in Worker : Unfinished(w) = {}
    PROVE  IInv'
<1>1. /\ step.phase = "none" /\ store' = [w \in Worker |-> [k \in Key |-> Nothing]]
      /\ epoch' = epoch + 1 /\ epoch < MaxResets /\ \A r \in Req : blocks[r] = <<>>
      /\ UNCHANGED <<align, status, blocks, finished, step, next_id, host, fence, mem, device, queue, job>>
  BY Zenon DEF Reset, schedulerVars, hostVars, threadVars, faultVars
<1>2. Typed'
  <2>1. PlanTyped'
    BY <1>1, BoundAssumption DEF IInv, Typed, PlanTyped
  <2>2. WorkerTyped' /\ ThreadTyped'
    BY <1>1, Zenon DEF IInv, Typed, WorkerTyped, ThreadTyped, Content
  <2> QED BY <2>1, <2>2, Zenon DEF Typed
<1>3. Phases' /\ Fenced' /\ Disjoint' /\ Scheduled'
  <2>1. Phases' /\ Fenced'
    BY <1>1, Zenon DEF IInv, Phases, Fenced
  <2>2. Disjoint' /\ Scheduled'
    BY <1>1, PlanUnchanged, Zenon DEF IInv
  <2> QED BY <2>1, <2>2, Zenon
<1>4. Slots'
  BY <1>1 DEF Slots
<1>5. Loads' /\ StoreRight'
  BY <1>1, Zenon DEF IInv, Phases, Loads, StoreRight
<1>6. Saves'
  <2>1. CASE ~align
    <3>1. ASSUME NEW v, NEW b, NEW k PROVE Good(v, b, k)' <=> Good(v, b, k)
      <4> DEFINE Of(c) == c # Nothing /\ c[1] = k
      <4>1. Good(v, b, k) <=> IF \E x \in device[v] : x[1] = b
                              THEN \A x \in device[v] : x[1] = b => Of(x[2])
                              ELSE Of(mem[v][b])
        BY <2>1, Zenon DEF Good, Right
      <4>2. Good(v, b, k)' <=> IF \E x \in device[v] : x[1] = b
                               THEN \A x \in device[v] : x[1] = b => Of(x[2])
                               ELSE Of(mem[v][b])
        BY <1>1, <2>1, Zenon DEF Good, Right
      <4> QED BY <4>1, <4>2, Zenon
    <3>2. ASSUME NEW v, NEW m PROVE Holds(v, m)' <=> Holds(v, m)
      BY <3>1, Zenon DEF Holds
    <3> QED BY <1>1, <3>2, Zenon DEF IInv, Saves, QueueHolds, JobHolds
  <2>2. CASE align
    <3>1. \A w \in Worker : job[w] = NoJob /\ \A i \in DOMAIN queue[w] : queue[w][i] = Fence
      BY <2>2 DEF Unfinished, Jobs
    <3> QED BY <1>1, <3>1, Zenon DEF Saves, QueueHolds, JobHolds
  <2> QED BY <2>1, <2>2, Zenon
<1> QED BY <1>2, <1>3, <1>4, <1>5, <1>6, Zenon DEF IInv

\* A free block is in no slot.
LEMMA FreeIsUnheld ==
    ASSUME NEW b \in Free, NEW r \in Req, NEW i \in DOMAIN blocks[r]
    PROVE  b \in Block /\ b # Null /\ blocks[r][i] # b
<1>1. b \in Block /\ b # Null
  BY PromptAssumption, Zenon DEF Free
<1>2. b \notin Held(blocks[r])
  BY Zenon DEF Free
<1> QED BY <1>1, <1>2, Zenon DEF Held

\* A request joins the plan with block list q, in which every block is its own
\* or free; the free ones, and only they, are loaded or computed.
Joins(r, q, ld, wr) ==
    /\ q \in Seq(Slot) /\ Len(q) =< Len(Prompt[r])
    /\ ld \subseteq Block \X Key /\ wr \subseteq Block \X Key
    /\ \A i \in DOMAIN q : q[i] # Null => q[i] \in Free \/ (i \in DOMAIN blocks[r] /\ q[i] = blocks[r][i])
    /\ \A i, j \in DOMAIN q : q[i] = q[j] /\ q[i] # Null => i = j
    /\ \A x \in ld \cup wr : \E i \in DOMAIN q : q[i] = x[1] /\ q[i] \in Free /\ x[2] = Prompt[r][i]
    /\ \A i \in DOMAIN q : q[i] \in Free => \E k \in Key : <<q[i], k>> \in ld \cup wr
    /\ \A w \in Worker, x \in ld : store[w][x[2]] # Nothing

\* It takes no block from another request.
LEMMA JoinDisjoint ==
    ASSUME IInv, NEW r \in Req, NEW q, NEW ld, NEW wr, Joins(r, q, ld, wr), blocks' = [blocks EXCEPT ![r] = q]
    PROVE  Disjoint'
<1>1. blocks'[r] = q /\ \A p \in Req \ {r} : blocks'[p] = blocks[p]
  BY Zenon DEF IInv, Typed, PlanTyped
<1>2. ASSUME NEW p \in Req \ {r}, NEW i \in DOMAIN q, NEW j \in DOMAIN blocks[p], q[i] # Null
      PROVE  q[i] # blocks[p][j]
  <2>1. CASE q[i] \in Free
    BY <2>1, FreeIsUnheld, Zenon
  <2>2. CASE i \in DOMAIN blocks[r] /\ q[i] = blocks[r][i]
    BY <1>2, <2>2, Zenon DEF IInv, Disjoint
  <2> QED BY <1>2, <2>1, <2>2, Zenon DEF Joins
<1> SUFFICES ASSUME NEW p1 \in Req, NEW p2 \in Req, NEW i \in DOMAIN blocks'[p1], NEW j \in DOMAIN blocks'[p2],
                    blocks'[p1][i] = blocks'[p2][j], blocks'[p1][i] # Null
             PROVE  p1 = p2 /\ i = j
  BY DEF Disjoint
<1>3. CASE p1 = r /\ p2 = r
  BY <1>1, <1>3 DEF Joins
<1>4. CASE p1 = r /\ p2 # r
  BY <1>1, <1>2, <1>4
<1>5. CASE p1 # r /\ p2 = r
  BY <1>1, <1>2, <1>5
<1>6. CASE p1 # r /\ p2 # r
  BY <1>1, <1>6 DEF IInv, Disjoint
<1> QED BY <1>3, <1>4, <1>5, <1>6, Zenon

\* What the plan does to the blocks it already has is not changed.
LEMMA JoinSlots ==
    ASSUME IInv, step.phase = "plan", step'.phase = "plan", NEW r \in Req, r \notin step.scheduled,
           NEW q, NEW ld, NEW wr, Joins(r, q, ld, wr), blocks' = [blocks EXCEPT ![r] = q],
           step'.load = step.load \cup ld, step'.write = step.write \cup wr,
           UNCHANGED <<align, epoch, host, mem, device>>
    PROVE  Slots'
<1> DEFINE Pair(b, k) == <<b, k>> \in step.load \cup step.write
           New(b, k) == <<b, k>> \in ld \cup wr
           Any(b, k) == <<b, k>> \in step'.load \cup step'.write
<1>1. blocks'[r] = q /\ \A p \in Req \ {r} : blocks'[p] = blocks[p]
  BY ZenonT(40) DEF IInv, Typed, PlanTyped
<1>2. \A b, k : Any(b, k) <=> Pair(b, k) \/ New(b, k)
  BY ZenonT(40)
<1>3. \A b, k : New(b, k) => b \in Free /\ \E i \in DOMAIN q : q[i] = b /\ k = Prompt[r][i]
  <2> SUFFICES ASSUME NEW b, NEW k, New(b, k)
               PROVE  b \in Free /\ \E i \in DOMAIN q : q[i] = b /\ k = Prompt[r][i]
    BY Zenon
  <2>1. PICK i \in DOMAIN q : q[i] = <<b, k>>[1] /\ q[i] \in Free /\ <<b, k>>[2] = Prompt[r][i]
    BY Zenon DEF Joins
  <2> QED BY <2>1, Zenon
<1>4. \A b, k : Pair(b, k) => \E p \in step.scheduled : \E j \in DOMAIN blocks[p] : blocks[p][j] = b
  <2> SUFFICES ASSUME NEW b, NEW k, Pair(b, k)
               PROVE  \E p \in step.scheduled : \E j \in DOMAIN blocks[p] : blocks[p][j] = b
    BY Zenon
  <2>1. \E p \in step.scheduled : \E j \in DOMAIN blocks[p] : blocks[p][j] = <<b, k>>[1]
    BY Zenon DEF IInv, Scheduled
  <2> QED BY <2>1, ZenonT(40)
<1>5. step.scheduled \subseteq Req
  BY Zenon DEF IInv, Typed, PlanTyped
<1>6. ASSUME NEW b \in Free, NEW k, Pair(b, k) PROVE FALSE
  <2>1. PICK p \in step.scheduled : \E j \in DOMAIN blocks[p] : blocks[p][j] = b
    BY <1>4, <1>6, Zenon
  <2> HIDE DEF Pair
  <2> QED BY <1>5, <2>1, FreeIsUnheld, Zenon
<1>7. \A v, b : /\ Planned(v, b) <=> \E k \in Key : Pair(b, k)
                /\ Planned(v, b)' <=> \E k \in Key : Any(b, k)
  BY Zenon DEF Planned
<1>8. \A v, b, k : Good(v, b, k)' = Good(v, b, k)
  BY GoodUnchanged, Zenon
<1> HIDE DEF Pair, New
<1> SUFFICES ASSUME NEW v \in Worker, NEW p \in Req, NEW i \in DOMAIN blocks'[p], blocks'[p][i] # Null
             PROVE  IF Planned(v, blocks[p][i])'
                    THEN \A k \in Key : Any(blocks'[p][i], k) => k = Prompt[p][i]
                    ELSE Good(v, blocks[p][i], Prompt[p][i])'
  BY Zenon DEF Slots
<1> HIDE DEF Any
<1> DEFINE b == blocks'[p][i]
<1> SUFFICES IF \E k \in Key : Any(b, k)
             THEN \A k \in Key : Any(b, k) => k = Prompt[p][i]
             ELSE Good(v, b, Prompt[p][i])
  BY <1>7, <1>8, Zenon
<1>9. ASSUME NEW j \in DOMAIN blocks[p], blocks'[p][i] = blocks[p][j], j = i
      PROVE  IF \E k \in Key : Pair(blocks'[p][i], k)
             THEN \A k \in Key : Pair(blocks'[p][i], k) => k = Prompt[p][i]
             ELSE Good(v, blocks'[p][i], Prompt[p][i])
  <2>1. IF Planned(v, blocks[p][j])
        THEN \A k \in Key : <<blocks[p][j], k>> \in step.load \cup step.write => k = Prompt[p][j]
        ELSE Good(v, blocks[p][j], Prompt[p][j])
    BY <1>9, ZenonT(40) DEF IInv, Slots
  <2> QED BY <1>7, <1>9, <2>1, ZenonT(40) DEF Pair
<1>10. CASE p # r
  <2>1. i \in DOMAIN blocks[p] /\ blocks'[p][i] = blocks[p][i]
    BY <1>1, <1>10, ZenonT(40)
  <2>2. \A k : ~New(blocks'[p][i], k)
    BY <1>3, <2>1, FreeIsUnheld, Zenon
  <2> QED BY <1>2, <1>9, <2>1, <2>2, ZenonT(40)
<1>11. CASE p = r /\ q[i] \in Free
  <2>1. \A k : ~Pair(q[i], k)
    BY <1>6, <1>11, Zenon
  <2>2. ASSUME NEW k, New(q[i], k) PROVE k = Prompt[r][i]
    <3>1. PICK j \in DOMAIN q : q[j] = q[i] /\ k = Prompt[r][j]
      BY <1>3, <2>2
    <3>2. i \in DOMAIN q /\ q[i] # Null
      BY <1>1, <1>11, Zenon
    <3>3. j = i
      BY <3>1, <3>2, Zenon DEF Joins
    <3> QED BY <3>1, <3>3, Zenon
  <2>3. \E k \in Key : New(q[i], k)
    BY <1>1, <1>11, ZenonT(40) DEF Joins, New
  <2> QED BY <1>1, <1>2, <1>11, <2>1, <2>2, <2>3, ZenonT(40)
<1>12. CASE p = r /\ q[i] \notin Free
  <2>1. i \in DOMAIN blocks[r] /\ q[i] = blocks[r][i]
    BY <1>1, <1>12, ZenonT(40) DEF Joins
  <2>2. \A k : ~New(q[i], k)
    BY <1>3, <1>12, Zenon
  <2> QED BY <1>1, <1>2, <1>9, <1>12, <2>1, <2>2, ZenonT(40)
<1> QED BY <1>10, <1>11, <1>12, ZenonT(40)

\* The request joins the plan.
LEMMA JoinPreserves ==
    ASSUME IInv, step.phase = "plan", step'.phase = "plan", NEW r \in Req, r \notin step.scheduled,
           NEW q, NEW ld, NEW wr, Joins(r, q, ld, wr), blocks' = [blocks EXCEPT ![r] = q],
           status' = [status EXCEPT ![r] = "running"], PlanTyped',
           step'.scheduled = step.scheduled \cup {r},
           step'.load = step.load \cup ld, step'.write = step.write \cup wr,
           \A i \in DOMAIN step'.save : \/ \E j \in DOMAIN step.save : step'.save[i] = step.save[j]
                                       \/ /\ step'.save[i].req = r /\ step'.save[i].blocks = q
                                          /\ step'.save[i].len = Len(q),
           UNCHANGED <<align, epoch, host, fence, mem, device, queue, job, store>>
    PROVE  IInv'
<1>1. blocks'[r] = q /\ status'[r] = "running" /\ step.scheduled \subseteq Req
  BY ZenonT(40) DEF IInv, Typed, PlanTyped
<1>2. \A p \in Req \ {r} : blocks'[p] = blocks[p] /\ status'[p] = status[p]
  <2>1. blocks \in [Req -> Seq(Slot)] /\ status \in [Req -> {"waiting", "running", "finished"}]
    BY ZenonT(40) DEF IInv, Typed, PlanTyped
  <2> QED BY <2>1, Zenon
<1>3. /\ host' \in [Worker -> {"idle", "called", "waiting", "launched", "done"}]
      /\ store' \in [Worker -> [Key -> Content]]
  BY ZenonT(40) DEF IInv, Typed, WorkerTyped, ThreadTyped
<1>4. Phases'
  BY ZenonT(40) DEF IInv, Phases
<1>5. Disjoint'
  BY JoinDisjoint, ZenonT(40)
<1>6. Scheduled'
  <2>1. \A p \in step'.scheduled : status'[p] = "running"
    BY <1>1, <1>2, ZenonT(40) DEF IInv, Scheduled
  <2>2. \A p \in Req : Len(blocks'[p]) =< Len(Prompt[p])
    BY <1>1, <1>2, ZenonT(40) DEF IInv, Scheduled, Joins
  <2>3. \A x \in step'.load \cup step'.write : \E p \in step'.scheduled : \E i \in DOMAIN blocks'[p] : blocks'[p][i] = x[1]
    <3> SUFFICES ASSUME NEW x \in step'.load \cup step'.write
                 PROVE  \E p \in step'.scheduled : \E i \in DOMAIN blocks'[p] : blocks'[p][i] = x[1]
      BY Zenon
    <3>1. CASE x \in ld \cup wr
      <4>1. \E i \in DOMAIN q : q[i] = x[1]
        BY <3>1, ZenonT(40) DEF Joins
      <4> QED BY <1>1, <4>1, ZenonT(40)
    <3>2. CASE x \in step.load \cup step.write
      <4>1. PICK p \in step.scheduled : \E i \in DOMAIN blocks[p] : blocks[p][i] = x[1]
        BY <3>2, ZenonT(40) DEF IInv, Scheduled
      <4>2. p \in step'.scheduled /\ blocks'[p] = blocks[p]
        BY <1>1, <1>2, ZenonT(40)
      <4> QED BY <4>1, <4>2, ZenonT(40)
    <3> QED BY <3>1, <3>2, ZenonT(40)
  <2>4. \A i \in DOMAIN step'.save : /\ step'.save[i].req \in step'.scheduled
                                    /\ step'.save[i].blocks = blocks'[step'.save[i].req]
                                    /\ step'.save[i].len = Len(step'.save[i].blocks)
    <3> SUFFICES ASSUME NEW i \in DOMAIN step'.save, NEW m, m = step'.save[i]
                 PROVE  m.req \in step'.scheduled /\ m.blocks = blocks'[m.req] /\ m.len = Len(m.blocks)
      BY Zenon
    <3>1. CASE \E j \in DOMAIN step.save : m = step.save[j]
      <4>1. m.req \in step.scheduled /\ m.blocks = blocks[m.req] /\ m.len = Len(m.blocks)
        BY <3>1, Zenon DEF IInv, Scheduled
      <4> QED BY <1>1, <1>2, <4>1, Zenon
    <3>2. CASE m.req = r /\ m.blocks = q /\ m.len = Len(q)
      BY <1>1, <3>2, ZenonT(40)
    <3> QED BY <3>1, <3>2, Zenon
  <2> QED BY <2>1, <2>2, <2>3, <2>4, ZenonT(40) DEF Scheduled
<1>7. Slots'
  BY JoinSlots, ZenonT(40)
<1>8. Loads' /\ StoreRight'
  BY Zenon DEF IInv, Loads, StoreRight, Right, Joins
<1> QED BY <1>3, <1>4, <1>5, <1>6, <1>7, <1>8, EngineStep, Zenon

\* Run lets a running request grow by at most one block.
LEMMA RunPreserves ==
    ASSUME IInv, NEW r \in Req, Run(r)
    PROVE  IInv'
<1>1. PICK new \in {<<>>} \cup {<<b>> : b \in Free} :
        /\ Len(Cut(blocks[r]) \o new) =< Len(Prompt[r])
        /\ blocks' = [blocks EXCEPT ![r] = Cut(blocks[r]) \o new]
        /\ Retain(r, Cut(blocks[r]) \o new)
        /\ step' = [step EXCEPT !.scheduled = @ \cup {r}, !.save = Append(@, Meta(r, Cut(blocks[r]) \o new)),
                                !.write = @ \cup {<<b, Prompt[r][Len(Cut(blocks[r]) \o new)]>> : b \in Held(new)}]
  BY ZenonT(40) DEF Run
<1>2. /\ step.phase = "plan" /\ status[r] = "running" /\ r \notin step.scheduled
      /\ UNCHANGED <<align, epoch, status, finished, host, fence, mem, device, queue, job, store>>
  BY Zenon DEF Run, hostVars, threadVars, faultVars
<1>3. PICK old : old = Cut(blocks[r])
  BY Zenon
<1>4. /\ old \in Seq(Slot) /\ DOMAIN old = DOMAIN blocks[r] /\ Len(old) = Len(blocks[r])
      /\ \A i \in DOMAIN old : old[i] = Null \/ old[i] = blocks[r][i]
  <2>1. blocks[r] \in Seq(Slot)
    BY ZenonT(40) DEF IInv, Typed, PlanTyped
  <2> QED BY <1>3, <2>1 DEF Cut, Slot
<1>5. PICK q, wr : q = old \o new /\ wr = {<<b, Prompt[r][Len(q)]>> : b \in Held(new)}
  BY ZenonT(40)
<1>6. Joins(r, q, {}, wr)
  <2>1. CASE new = <<>>
    <3>1. q = old /\ Held(new) = {}
      BY <1>4, <1>5, <2>1 DEF Held
    <3>2. wr = {}
      BY <1>5, <3>1, Zenon
    <3>3. \A i \in DOMAIN q : q[i] \notin Free
      BY <1>4, <3>1, FreeIsUnheld, Zenon
    <3>4. \A i, j \in DOMAIN q : q[i] = q[j] /\ q[i] # Null => i = j
      BY <1>4, <3>1 DEF IInv, Disjoint
    <3> QED BY <1>1, <1>3, <1>4, <1>5, <3>1, <3>2, <3>3, <3>4, Zenon DEF Joins
  <2>2. ASSUME NEW b \in Free, new = <<b>> PROVE Joins(r, q, {}, wr)
    <3>1. b \in Block /\ b # Null
      BY PromptAssumption, ZenonT(40) DEF Free
    <3>2. /\ q \in Seq(Slot) /\ Len(q) = Len(old) + 1 /\ q[Len(q)] = b /\ DOMAIN q = 1 .. Len(q)
          /\ \A i \in DOMAIN q : i # Len(q) => i \in DOMAIN old /\ q[i] = old[i]
      BY <1>4, <1>5, <2>2, <3>1 DEF Slot
    <3>3. Held(new) = {b}
      BY <2>2, <3>1 DEF Held
    <3>4. wr = {<<b, Prompt[r][Len(q)]>>}
      BY <1>5, <3>3, Zenon
    <3>5. Len(q) =< Len(Prompt[r]) /\ Len(q) \in 1 .. Len(Prompt[r]) /\ Len(q) \in DOMAIN q
      BY <1>1, <1>3, <1>4, <1>5, <3>2, PromptAssumption
    <3>6. Prompt[r][Len(q)] \in Key
      BY <3>5, PromptAssumption
    <3>7. \A i \in DOMAIN q : i # Len(q) => q[i] \notin Free /\ q[i] # b
      BY <1>4, <3>1, <3>2, FreeIsUnheld
    <3>8. \A i, j \in DOMAIN q : q[i] = q[j] /\ q[i] # Null => i = j
      BY <1>4, <3>2, <3>7 DEF IInv, Disjoint
    <3>9. \A i \in DOMAIN q : q[i] # Null => q[i] \in Free \/ (i \in DOMAIN blocks[r] /\ q[i] = blocks[r][i])
      BY <1>4, <3>2, Zenon
    <3>10. \A x \in wr : \E i \in DOMAIN q : q[i] = x[1] /\ q[i] \in Free /\ x[2] = Prompt[r][i]
      BY <3>2, <3>4, <3>5
    <3>11. \A i \in DOMAIN q : q[i] \in Free => \E k \in Key : <<q[i], k>> \in wr
      BY <3>2, <3>4, <3>6, <3>7, Zenon
    <3> QED BY <3>1, <3>2, <3>4, <3>5, <3>6, <3>8, <3>9, <3>10, <3>11, ZenonT(40) DEF Joins
  <2> QED BY <2>1, <2>2, Zenon
<1>7. PICK m : m = Meta(r, q)
  BY Zenon
<1>8. m \in ReqMeta /\ m.req = r /\ m.blocks = q /\ m.len = Len(q)
  <2>1. q \in Seq(Slot)
    BY <1>6 DEF Joins
  <2> QED BY <1>7, <2>1, MetaTyped, Zenon
<1>9. /\ step'.phase = "plan" /\ step'.scheduled = step.scheduled \cup {r}
      /\ step'.load = step.load \cup {} /\ step'.write = step.write \cup wr
      /\ step'.save = Append(step.save, m)
  BY <1>1, <1>2, <1>3, <1>5, <1>7 DEF IInv, Typed, PlanTyped
<1>10. PlanTyped'
  <2>1. blocks' = [blocks EXCEPT ![r] = q] /\ blocks' \in [Req -> Seq(Slot)]
    BY <1>1, <1>3, <1>5, <1>6, Zenon DEF IInv, Typed, PlanTyped, Joins
  <2>2. wr \subseteq Block \X Key
    BY <1>6, Zenon DEF Joins
  <2>3. step' \in [phase : {"none", "plan", "run"}, scheduled : SUBSET Req, admitted : BOOLEAN, preempted : SUBSET Req,
                   finished : SUBSET Req, load : SUBSET (Block \X Key), write : SUBSET (Block \X Key), save : Seq(ReqMeta)]
    <3>1. PICK sc, wt, sv : sc = step.scheduled \cup {r} /\ wt = step.write \cup wr /\ sv = Append(step.save, m)
      BY ZenonT(40)
    <3>2. step' = [step EXCEPT !.scheduled = sc, !.save = sv, !.write = wt]
      BY <1>1, <1>3, <1>5, <1>7, <3>1
    <3>3. sc \in SUBSET Req /\ wt \in SUBSET (Block \X Key)
      BY <2>2, <3>1, Zenon DEF IInv, Typed, PlanTyped
    <3>4. sv \in Seq(ReqMeta)
      BY <1>8, <3>1 DEF IInv, Typed, PlanTyped
    <3> QED BY <3>2, <3>3, <3>4, ZenonT(40) DEF IInv, Typed, PlanTyped
  <2>4. next_id' \in Nat
    BY <1>1 DEF IInv, Typed, PlanTyped, Retain
  <2> QED BY <1>2, <2>1, <2>3, <2>4, ZenonT(40) DEF IInv, Typed, PlanTyped
<1>11. \A i \in DOMAIN step'.save : \/ \E j \in DOMAIN step.save : step'.save[i] = step.save[j]
                                   \/ /\ step'.save[i].req = r /\ step'.save[i].blocks = q
                                      /\ step'.save[i].len = Len(q)
  <2>1. step.save \in Seq(ReqMeta)
    BY ZenonT(40) DEF IInv, Typed, PlanTyped
  <2>2. \A i \in DOMAIN step'.save : step'.save[i] = m \/ (i \in DOMAIN step.save /\ step'.save[i] = step.save[i])
    BY <1>8, <1>9, <2>1
  <2> QED BY <1>8, <2>2, Zenon
<1>12. status' = [status EXCEPT ![r] = "running"] /\ blocks' = [blocks EXCEPT ![r] = q]
  BY <1>1, <1>2, <1>3, <1>5, Zenon DEF IInv, Typed, PlanTyped
<1> QED BY <1>2, <1>6, <1>9, <1>10, <1>11, <1>12, JoinPreserves, ZenonT(40)

\* Admit starts a waiting request on free blocks: the chunks that every rank
\* has are loaded, the next one is computed.
LEMMA AdmitPreserves ==
    ASSUME IInv, NEW r \in Req, Admit(r)
    PROVE  IInv'
<1>1. PICK hit : hit = Hit(r)
  BY Zenon
<1>2. PICK len : len = IF hit < Len(Prompt[r]) THEN hit + 1 ELSE hit
  BY Zenon
<1>3. /\ Len(Prompt[r]) \in Nat /\ hit \in 0 .. Len(Prompt[r]) /\ len \in 0 .. Len(Prompt[r]) /\ hit =< len
      /\ \A i \in 1 .. hit : (align /\ i < hit) \/ \A w \in Worker : store[w][Prompt[r][i]] # Nothing
  BY <1>1, <1>2, HitIsStored
<1>4. PICK q \in [1 .. len -> Free \cup {Null}] :
        /\ \A i \in DOMAIN q : (q[i] = Null) = (align /\ i < hit)
        /\ \A i, j \in DOMAIN q : i # j /\ q[i] # Null => q[i] # q[j]
        /\ blocks' = [blocks EXCEPT ![r] = q]
        /\ step' = [step EXCEPT !.scheduled = @ \cup {r}, !.admitted = TRUE,
                                !.load = @ \cup {<<q[i], Prompt[r][i]>> : i \in {j \in 1 .. hit : q[j] # Null}},
                                !.write = @ \cup {<<q[i], Prompt[r][i]>> : i \in hit + 1 .. Len(q)},
                                !.save = IF hit = 0 THEN <<Meta(r, q)>> \o @ ELSE @]
        /\ IF hit = 0 THEN Retain(r, q) ELSE UNCHANGED <<saved, sending, next_id>>
  BY <1>1, <1>2, ZenonT(40) DEF Admit
<1>5. /\ step.phase = "plan" /\ status[r] = "waiting" /\ status' = [status EXCEPT ![r] = "running"]
      /\ UNCHANGED <<align, epoch, finished, host, fence, mem, device, queue, job, store>>
  BY Zenon DEF Admit, hostVars, threadVars, faultVars
<1>6. r \notin step.scheduled
  BY <1>5, Zenon DEF IInv, Scheduled
<1>7. q \in Seq(Slot) /\ Len(q) = len /\ DOMAIN q = 1 .. len
  BY <1>3, <1>4 DEF Slot, Free
<1>8. PICK ld, wr : /\ ld = {<<q[i], Prompt[r][i]>> : i \in {j \in 1 .. hit : q[j] # Null}}
                    /\ wr = {<<q[i], Prompt[r][i]>> : i \in hit + 1 .. Len(q)}
  BY ZenonT(40)
<1>9. \A i \in DOMAIN q : q[i] # Null => q[i] \in Free /\ q[i] \in Block /\ Prompt[r][i] \in Key
  BY <1>3, <1>4, <1>7, PromptAssumption DEF Free
<1>10. /\ \A x \in ld : \E i \in 1 .. hit : q[i] # Null /\ x = <<q[i], Prompt[r][i]>>
       /\ \A x \in wr : \E i \in hit + 1 .. len : x = <<q[i], Prompt[r][i]>>
  BY <1>7, <1>8, Zenon
<1>11. \A i \in hit + 1 .. len : i \in DOMAIN q /\ q[i] # Null
  BY <1>3, <1>4, <1>7
<1>12. Joins(r, q, ld, wr)
  <2>1. \A x \in ld \cup wr : \E i \in DOMAIN q : q[i] # Null /\ x = <<q[i], Prompt[r][i]>>
    BY <1>3, <1>7, <1>10, <1>11
  <2>2. \A x \in ld \cup wr : \E i \in DOMAIN q : q[i] = x[1] /\ q[i] \in Free /\ x[2] = Prompt[r][i]
    BY <1>9, <2>1
  <2>3. ld \subseteq Block \X Key /\ wr \subseteq Block \X Key
    BY <1>9, <2>1
  <2>4. \A i \in DOMAIN q : q[i] \in Free => \E k \in Key : <<q[i], k>> \in ld \cup wr
    <3> SUFFICES ASSUME NEW i \in DOMAIN q, q[i] \in Free
                 PROVE  Prompt[r][i] \in Key /\ <<q[i], Prompt[r][i]>> \in ld \cup wr
      BY Zenon
    <3>1. q[i] # Null
      BY PromptAssumption, Zenon DEF Free
    <3>2. CASE i =< hit
      <4>1. i \in 1 .. hit
        BY <1>3, <1>7, <3>2
      <4> QED BY <1>8, <1>9, <3>1, <4>1, Zenon
    <3>3. CASE i > hit
      <4>1. i \in hit + 1 .. len
        BY <1>3, <1>7, <3>3
      <4> QED BY <1>7, <1>8, <1>9, <3>1, <4>1, Zenon
    <3> QED BY <1>3, <1>7, <3>2, <3>3
  <2>5. \A w \in Worker, x \in ld : store[w][x[2]] # Nothing
    <3> SUFFICES ASSUME NEW w \in Worker, NEW x \in ld PROVE store[w][x[2]] # Nothing
      BY Zenon
    <3>1. PICK i \in 1 .. hit : q[i] # Null /\ x = <<q[i], Prompt[r][i]>>
      BY <1>10, Zenon
    <3>2. i \in DOMAIN q /\ ~(align /\ i < hit)
      BY <1>3, <1>4, <1>7, <3>1
    <3>3. store[w][Prompt[r][i]] # Nothing
      BY <1>3, <3>2, Zenon
    <3> QED BY <3>1, <3>3, Zenon
  <2>6. \A i, j \in DOMAIN q : q[i] = q[j] /\ q[i] # Null => i = j
    BY <1>4, Zenon
  <2>7. \A i \in DOMAIN q : q[i] # Null => q[i] \in Free \/ (i \in DOMAIN blocks[r] /\ q[i] = blocks[r][i])
    BY <1>9, Zenon
  <2>8. q \in Seq(Slot) /\ Len(q) =< Len(Prompt[r])
    BY <1>3, <1>7
  <2> QED BY <2>2, <2>3, <2>4, <2>5, <2>6, <2>7, <2>8, ZenonT(40) DEF Joins
<1>13. PICK m, sv : m = Meta(r, q) /\ sv = IF hit = 0 THEN <<m>> \o step.save ELSE step.save
  BY ZenonT(40)
<1>14. m \in ReqMeta /\ m.req = r /\ m.blocks = q /\ m.len = Len(q)
  BY <1>7, <1>13, MetaTyped
<1>15. /\ step'.phase = "plan" /\ step'.scheduled = step.scheduled \cup {r}
       /\ step'.load = step.load \cup ld /\ step'.write = step.write \cup wr /\ step'.save = sv
  BY <1>4, <1>5, <1>8, <1>13, Zenon DEF IInv, Typed, PlanTyped
<1>16. step.save \in Seq(ReqMeta)
  BY Zenon DEF IInv, Typed, PlanTyped
<1>17. /\ sv \in Seq(ReqMeta)
       /\ \A i \in DOMAIN sv : sv[i] = m \/ \E j \in DOMAIN step.save : sv[i] = step.save[j]
  <2>1. CASE hit = 0
    <3>1. sv = <<m>> \o step.save
      BY <1>13, <2>1, Zenon
    <3>2. sv \in Seq(ReqMeta) /\ Len(sv) = 1 + Len(step.save)
      BY <1>14, <1>16, <3>1
    <3>3. \A i \in 1 .. Len(sv) : sv[i] = IF i = 1 THEN m ELSE step.save[i - 1]
      BY <1>14, <1>16, <3>1, <3>2
    <3>4. \A i \in 1 .. Len(sv) : i # 1 => i - 1 \in DOMAIN step.save
      BY <1>16, <3>2
    <3> QED BY <3>2, <3>3, <3>4
  <2>2. CASE hit # 0
    BY <1>13, <1>16, <2>2, Zenon
  <2> QED BY <2>1, <2>2, Zenon
<1>18. PlanTyped'
  <2>1. blocks' \in [Req -> Seq(Slot)] /\ status' \in [Req -> {"waiting", "running", "finished"}]
    BY <1>4, <1>5, <1>7 DEF IInv, Typed, PlanTyped
  <2>2. step' \in [phase : {"none", "plan", "run"}, scheduled : SUBSET Req, admitted : BOOLEAN, preempted : SUBSET Req,
                   finished : SUBSET Req, load : SUBSET (Block \X Key), write : SUBSET (Block \X Key), save : Seq(ReqMeta)]
    <3>1. PICK sc, lo, wt : sc = step.scheduled \cup {r} /\ lo = step.load \cup ld /\ wt = step.write \cup wr
      BY ZenonT(40)
    <3>2. step' = [step EXCEPT !.scheduled = sc, !.admitted = TRUE, !.load = lo, !.write = wt, !.save = sv]
      BY <1>4, <1>8, <1>13, <3>1, Zenon
    <3>3. sc \in SUBSET Req /\ lo \in SUBSET (Block \X Key) /\ wt \in SUBSET (Block \X Key)
      BY <1>12, <3>1, ZenonT(40) DEF IInv, Typed, PlanTyped, Joins
    <3> QED BY <1>17, <3>2, <3>3, ZenonT(40) DEF IInv, Typed, PlanTyped
  <2>3. next_id' \in Nat
    BY <1>4 DEF IInv, Typed, PlanTyped, Retain
  <2> QED BY <1>5, <2>1, <2>2, <2>3, ZenonT(40) DEF IInv, Typed, PlanTyped
<1>19. \A i \in DOMAIN step'.save : \/ \E j \in DOMAIN step.save : step'.save[i] = step.save[j]
                                   \/ /\ step'.save[i].req = r /\ step'.save[i].blocks = q
                                      /\ step'.save[i].len = Len(q)
  BY <1>14, <1>15, <1>17, Zenon
<1> QED BY <1>4, <1>5, <1>6, <1>12, <1>15, <1>18, <1>19, JoinPreserves, ZenonT(40)

-----------------------------------------------------------------------------
(* The ledger of the scheduler *)

\* The end of a step counts every report once: an event that a worker has
\* reported it owes no longer.
LEMMA CountedOnce ==
    ASSUME EInv, UpdateConnectorOutput, step.phase = "run", NEW e
    PROVE  /\ Cardinality(Owing(e)) = Cardinality({w \in Worker : e \in reported[w]}) + Cardinality(Owing(e)')
           /\ Cardinality({w \in Worker : e \in reported[w]}) \in Nat /\ Cardinality(Owing(e)') \in Nat
           /\ Owing(e)' \subseteq Owing(e) /\ (Owing(e)' # {} => Cardinality(Owing(e)') # 0)
<1> DEFINE R == {w \in Worker : e \in reported[w]}
           O == {w \in Worker : e \in OpenIds(w) \cup completed[w]}
<1>1. /\ step' = NoStep /\ reported' = [w \in Worker |-> {}] /\ \A w \in Worker : host[w] = "done"
      /\ UNCHANGED <<queue, job, completed>>
  BY Zenon DEF UpdateConnectorOutput, threadVars
<1>2. Owing(e) = R \cup O
  <2>1. \A w \in Worker : ~Before(w)
    BY <1>1, Zenon DEF Before
  <2>2. Owing(e) = {w \in Worker : Owes(w, e)}
    BY OwingIs, Zenon
  <2> QED BY <2>1, <2>2, Zenon DEF Owes
<1>3. Owing(e)' = O
  <2>1. StepIds' = {}
    BY <1>1 DEF StepIds, StepSaves, Entries, NoStep
  <2>2. \A w \in Worker : OpenIds(w)' = OpenIds(w)
    BY <1>1 DEF OpenIds, Unfinished, Jobs
  <2>3. Owing(e)' = {w \in Worker : Owes(w, e)'}
    BY Zenon DEF Owing, Owes, Before, StepIds, StepSaves, Entries, OpenIds
  <2>4. \A w \in Worker : Owes(w, e)' <=> w \in O
    BY <1>1, <2>1, <2>2, Zenon DEF Owes
  <2> QED BY <2>3, <2>4, Zenon
<1>4. R \cap O = {}
  BY Zenon DEF EInv, Tracked
<1>5. R \in SUBSET Worker /\ O \in SUBSET Worker /\ IsFiniteSet(Worker)
  BY WorkerAssumption, Zenon
<1> HIDE DEF R, O
<1>6. IsFiniteSet(R) /\ IsFiniteSet(O)
  BY <1>5, FS_Subset, Zenon
<1>7. Cardinality(R) \in Nat /\ Cardinality(O) \in Nat
  BY <1>6, FS_CardinalityType, Zenon
<1>8. Cardinality(R \cup O) = Cardinality(R) + Cardinality(O) - Cardinality(R \cap O) /\ Cardinality(R \cap O) = 0
  BY <1>4, <1>6, FS_Union, FS_EmptySet, Zenon
<1>9. Cardinality(R \cup O) = Cardinality(R) + Cardinality(O)
  BY <1>7, <1>8
<1>10. O # {} => Cardinality(O) # 0
  BY <1>6, FS_EmptySet, Zenon
<1> QED BY <1>2, <1>3, <1>7, <1>9, <1>10, Zenon DEF R

\* The events of a finished step are counted, and those that all workers have
\* reported are closed.
LEMMA UpdateConnectorOutputEvents ==
    ASSUME IInv, EInv, UpdateConnectorOutput
    PROVE  EInv'
<1> DEFINE R(e) == Cardinality({w \in Worker : e \in reported[w]})
           O(e) == Cardinality(Owing(e)')
           N == Cardinality(Worker)
<1>1. /\ step.phase = "run" /\ step' = NoStep /\ reported' = [w \in Worker |-> {}]
      /\ host' = [w \in Worker |-> "idle"] /\ \A w \in Worker : host[w] = "done"
      /\ UNCHANGED <<align, status, blocks, saved, finished, next_id, fence, retired, threadVars, faultVars>>
  BY Zenon DEF UpdateConnectorOutput
<1>2. \A e : /\ Cardinality(Owing(e)) = R(e) + O(e) /\ R(e) \in Nat /\ O(e) \in Nat
             /\ Owing(e)' \subseteq Owing(e) /\ (Owing(e)' # {} => O(e) # 0)
  BY <1>1, CountedOnce, Zenon
<1>3. sending' = [e \in {d \in DOMAIN sending : sending[d].count + R(d) < N} |->
                    [sending[e] EXCEPT !.count = sending[e].count + R(e)]]
  BY Zenon DEF UpdateConnectorOutput, Count
<1>4. N \in Nat
  BY WorkerAssumption, FS_CardinalityType, Zenon
<1>5. \A e \in DOMAIN sending : sending[e] \in [blocks : SUBSET Block, count : Nat]
  BY Zenon DEF EInv, LedgerTyped
<1> HIDE DEF R, O, N
<1>6. /\ DOMAIN sending' = {d \in DOMAIN sending : sending[d].count + R(d) < N}
      /\ \A e \in DOMAIN sending' : sending'[e] = [blocks |-> sending[e].blocks, count |-> sending[e].count + R(e)]
  BY <1>3, <1>5
<1>7. LedgerTyped'
  <2>1. ASSUME NEW e \in DOMAIN sending' PROVE sending'[e] \in [blocks : SUBSET Block, count : Nat]
    <3>1. e \in DOMAIN sending /\ sending'[e] = [blocks |-> sending[e].blocks, count |-> sending[e].count + R(e)]
      BY <1>6, Zenon
    <3>2. sending[e].blocks \in SUBSET Block /\ sending[e].count + R(e) \in Nat
      BY <1>2, <1>5, <3>1
    <3> QED BY <3>1, <3>2
  <2>2. reported' \in [Worker -> SUBSET Nat]
    BY <1>1, Zenon
  <2> QED BY <1>1, <2>1, <2>2, Zenon DEF EInv, LedgerTyped, threadVars, faultVars
<1>8. StepSaves' = {} /\ StepIds' = {} /\ step'.save = <<>> /\ step'.preempted = {} /\ step'.finished = {}
  BY <1>1 DEF StepIds, StepSaves, Entries, NoStep
<1>9. Ids' /\ Ended'
  <2>1. DOMAIN sending' \subseteq DOMAIN sending
    BY <1>6, Zenon
  <2> QED BY <1>1, <1>8, <2>1 DEF EInv, Ids, Ended
<1>10. ASSUME NEW w \in Worker PROVE Tracked(w)'
  <2>1. Tracked(w)
    BY Zenon DEF EInv
  <2>2. Unfinished(w)' = Unfinished(w) /\ OpenIds(w)' = OpenIds(w)
    BY <1>1 DEF threadVars, Unfinished, Jobs, OpenIds
  <2> QED BY <1>1, <1>8, <2>1, <2>2, Zenon DEF Tracked, threadVars
<1>11. EventsConserved'
  <2> SUFFICES ASSUME align'
               PROVE  /\ \A e \in DOMAIN sending' : sending'[e].count + O(e) = N
                      /\ \A e \in 1 .. MaxSaves : Owing(e)' # {} => e \in DOMAIN sending'
    BY Zenon DEF EventsConserved, O, N
  <2>1. /\ \A e \in DOMAIN sending : sending[e].count + Cardinality(Owing(e)) = N
        /\ \A e \in 1 .. MaxSaves : Owing(e) # {} => e \in DOMAIN sending
    BY <1>1, Zenon DEF EInv, EventsConserved, N
  <2>2. \A e \in DOMAIN sending : (sending[e].count + R(e)) + O(e) = N
    BY <1>2, <1>5, <2>1
  <2>3. ASSUME NEW e \in DOMAIN sending' PROVE sending'[e].count + O(e) = N
    <3>1. e \in DOMAIN sending /\ sending'[e] = [blocks |-> sending[e].blocks, count |-> sending[e].count + R(e)]
      BY <1>6, Zenon
    <3>2. sending'[e].count = sending[e].count + R(e)
      BY <3>1
    <3> QED BY <2>2, <3>1, <3>2, Zenon
  <2>4. ASSUME NEW e \in 1 .. MaxSaves, Owing(e)' # {} PROVE e \in DOMAIN sending'
    <3>1. e \in DOMAIN sending
      BY <1>2, <2>1, <2>4, Zenon
    <3>2. O(e) # 0 /\ O(e) \in Nat /\ R(e) \in Nat /\ sending[e].count \in Nat
      BY <1>2, <1>5, <2>4, <3>1, Zenon
    <3>3. sending[e].count + R(e) < N
      BY <1>4, <2>2, <3>1, <3>2
    <3> QED BY <1>6, <3>1, <3>3, Zenon
  <2> QED BY <2>3, <2>4, Zenon
<1> QED BY <1>7, <1>9, <1>10, <1>11, Zenon DEF EInv

-----------------------------------------------------------------------------
(* All steps *)

\* Nothing is stored, held or under way at the start.
LEMMA InitIInv == Init => IInv
<1> SUFFICES ASSUME Init PROVE IInv
  BY Zenon
<1>1. Typed
  <2>1. PlanTyped
    <3>1. align \in BOOLEAN /\ epoch \in 0 .. MaxResets /\ next_id \in Nat /\ finished \subseteq Req
      BY BoundAssumption DEF Init
    <3>2. status \in [Req -> {"waiting", "running", "finished"}] /\ blocks \in [Req -> Seq(Slot)]
      BY DEF Init
    <3> QED BY <3>1, <3>2, NoStepTyped, Zenon DEF Init, PlanTyped
  <2>2. WorkerTyped
    BY Zenon DEF Init, WorkerTyped, Content
  <2>3. ThreadTyped
    <3>1. NoJob \in Job
      BY Zenon DEF NoJob, Job
    <3> QED BY <3>1 DEF Init, ThreadTyped, Content
  <2> QED BY <2>1, <2>2, <2>3, Zenon DEF Typed
<1>2. step.load = {} /\ step.write = {} /\ step.save = <<>> /\ step.scheduled = {}
  BY Zenon DEF Init, NoStep
<1>3. \A r \in Req : blocks[r] = <<>>
  BY Zenon DEF Init
<1>4. \A w \in Worker : /\ host[w] = "idle" /\ device[w] = {} /\ queue[w] = <<>> /\ job[w] = NoJob
                        /\ \A k \in Key : store[w][k] = Nothing
  BY Zenon DEF Init
<1>5. Phases /\ Loads /\ StoreRight
  BY <1>2, <1>4, Zenon DEF Phases, Loads, StoreRight
<1>6. Disjoint /\ Slots
  BY <1>3 DEF Disjoint, Slots
<1>7. Fenced /\ Saves
  BY <1>4 DEF Fenced, IsFenced, Saves, QueueHolds, JobHolds
<1>8. Scheduled
  <2>1. \A r \in Req : Len(blocks[r]) =< Len(Prompt[r])
    BY <1>3, PromptAssumption
  <2> QED BY <1>2, <2>1 DEF Scheduled
<1> QED BY <1>1, <1>5, <1>6, <1>7, <1>8, Zenon DEF IInv

\* Nothing the invariant is about has changed.
LEMMA StutterPreserves ==
    ASSUME IInv,
           UNCHANGED <<align, epoch, status, blocks, step, finished, next_id, host, fence, mem, device, queue, job, store>>
    PROVE  IInv'
<1>1. PlanTyped' /\ WorkerTyped' /\ ThreadTyped'
  BY ZenonT(40) DEF IInv, Typed, PlanTyped, WorkerTyped, ThreadTyped
<1>2. Disjoint' /\ Scheduled' /\ Phases' /\ Slots'
  BY WorkerUnchanged, Zenon DEF IInv
<1>3. Loads' /\ StoreRight'
  BY Zenon DEF IInv, Loads, StoreRight, Right
<1> QED BY <1>1, <1>2, <1>3, EngineStep, Zenon DEF WorkerTyped, ThreadTyped

\* Every step of the engine, of a worker and of its thread keeps the invariant,
\* a reset if it is kept away from the saves of an align-state group.
LEMMA NextIInv ==
    ASSUME IInv, [Next]_vars, Reset /\ align => \A w \in Worker : Unfinished(w) = {}
    PROVE  IInv'
<1>1. CASE BeginPass \/ Dispatch \/ UpdateConnectorOutput
  BY <1>1, BeginPassPreserves, DispatchPreserves, UpdateConnectorOutputPreserves, Zenon
<1>2. CASE Reset
  BY <1>2, ResetPreserves, Zenon
<1>3. ASSUME NEW r \in Req, Preempt(r) \/ Run(r) \/ Admit(r) \/ Finish(r) PROVE IInv'
  BY <1>3, PreemptPreserves, RunPreserves, AdmitPreserves, FinishPreserves, Zenon
<1>4. ASSUME NEW w \in Worker, Poll(w) \/ Execute(w) \/ GetFinished(w) PROVE IInv'
  BY <1>4, PollPreserves, ExecutePreserves, GetFinishedPreserves, Zenon
<1>5. ASSUME NEW w \in Worker, Raise(w) PROVE IInv'
  BY <1>5, StutterPreserves, ZenonT(40) DEF Raise, schedulerVars, hostVars, threadVars
<1>6. ASSUME NEW w \in Worker, Compute(w) \/ Take(w) \/ Put(w) \/ Done(w) \/ PassFence(w) \/ Fail(w) PROVE IInv'
  BY <1>6, ComputePreserves, TakePreserves, PutPreserves, DonePreserves, PassFencePreserves, FailPreserves, Zenon
<1>7. CASE Rest \/ UNCHANGED vars
  BY <1>7, StutterPreserves, Zenon DEF Rest, vars, schedulerVars, hostVars, threadVars
<1> QED BY <1>1, <1>2, <1>3, <1>4, <1>5, <1>6, <1>7, Zenon DEF Next, Engine, Host, Thread

\* Every step keeps the ledger of the saves.
LEMMA NextEvents ==
    ASSUME IInv, IInv', EInv, [Next]_vars
    PROVE  EInv'
<1>1. CASE BeginPass \/ Dispatch \/ UpdateConnectorOutput \/ Reset
  BY <1>1, BeginPassEvents, DispatchEvents, UpdateConnectorOutputEvents, ResetEvents, Zenon
<1>2. ASSUME NEW r \in Req, Preempt(r) \/ Run(r) \/ Admit(r) \/ Finish(r) PROVE EInv'
  BY <1>2, PreemptEvents, RunEvents, AdmitEvents, FinishEvents, Zenon DEF IInv, Typed
<1>3. ASSUME NEW w \in Worker, Take(w) \/ Put(w) \/ Done(w) \/ PassFence(w) \/ Fail(w) PROVE EInv'
  BY <1>3, TakeEvents, PutEvents, DoneEvents, PassFenceEvents, FailEvents, Zenon
<1>4. ASSUME NEW w \in Worker, Execute(w) \/ GetFinished(w) PROVE EInv'
  BY <1>4, ExecuteEvents, GetFinishedEvents, Zenon
<1>5. ASSUME NEW w \in Worker, Poll(w) \/ Raise(w) \/ Compute(w) PROVE EInv'
  <2>1. /\ UNCHANGED <<align, schedulerVars, step, fence, retired, reported, threadVars, faults>>
        /\ crashed' = crashed \/ crashed' = TRUE
        /\ host' = host \/ (host[w] = "called" /\ host' = [host EXCEPT ![w] = "waiting"])
    BY <1>5, Zenon DEF Poll, Raise, Compute, hostVars, faultVars
  <2>2. LedgerTyped'
    BY <2>1, Zenon DEF EInv, LedgerTyped, schedulerVars, threadVars
  <2>3. \A v \in Worker : Unfinished(v)' = Unfinished(v) /\ Once(queue'[v], job'[v])
    BY <2>1 DEF threadVars, Unfinished, Jobs, EInv, Tracked
  <2>4. \A v \in Worker : host'[v] = host[v] \/ (host[v] = "called" /\ host'[v] = "waiting")
    BY <2>1, Zenon DEF IInv, Typed, WorkerTyped
  <2>5. step.phase = "run" \/ host' = host
    BY <2>1, Zenon DEF IInv, Phases
  <2> QED BY <2>1, <2>2, <2>3, <2>4, <2>5, QuietStep, Zenon DEF schedulerVars, threadVars
<1>6. CASE UNCHANGED vars
  <2>1. UNCHANGED <<align, schedulerVars, step, hostVars, threadVars, faultVars>>
    BY <1>6, Zenon DEF vars
  <2>2. LedgerTyped'
    BY <2>1, Zenon DEF EInv, LedgerTyped, schedulerVars, hostVars, threadVars, faultVars
  <2>3. \A v \in Worker : Unfinished(v)' = Unfinished(v) /\ Once(queue'[v], job'[v])
    BY <2>1, Zenon DEF threadVars, Unfinished, Jobs, EInv, Tracked
  <2> QED BY <2>1, <2>2, <2>3, QuietStep, Zenon DEF schedulerVars, hostVars, threadVars
<1> QED BY <1>1, <1>2, <1>3, <1>4, <1>5, <1>6, Zenon DEF Next, Engine, Host, Thread, Rest

\* The pins keep a reset away from an align-state group while a save is under
\* way: an event somebody owes is in the ledger.
LEMMA ResetFindsNoSave ==
    ASSUME EInv, Reset, align, NEW w \in Worker
    PROVE  Unfinished(w) = {}
<1> SUFFICES ASSUME NEW m \in Unfinished(w) PROVE FALSE
  BY Zenon
<1>1. m.id \in OpenIds(w)
  BY Zenon DEF OpenIds
<1>2. m.id \in 1 .. MaxSaves
  <2>1. OpenIds(w) \subseteq 1 .. next_id - 1 /\ next_id \in 1 .. MaxSaves + 1
    BY Zenon DEF EInv, Tracked, Ids
  <2> QED BY <1>1, <2>1, BoundAssumption
<1>3. w \in Owing(m.id)
  BY <1>1, OwingIs, Zenon DEF Owes
<1>4. DOMAIN sending = {}
  BY Zenon DEF Reset
<1> QED BY <1>2, <1>3, <1>4, Zenon DEF EInv, EventsConserved

\* Every step keeps what the saved offsets stand for.
LEMMA NextOffsets ==
    ASSUME IInv, IInv', EInv, OInv, [Next]_vars
    PROVE  OInv'
<1>1. CASE BeginPass \/ Dispatch \/ UpdateConnectorOutput \/ Reset
  BY <1>1, BeginPassOffsets, DispatchOffsets, UpdateConnectorOutputOffsets, ResetOffsets, Zenon
<1>2. ASSUME NEW r \in Req, Preempt(r) \/ Run(r) \/ Admit(r) \/ Finish(r) PROVE OInv'
  BY <1>2, PreemptOffsets, RunOffsets, AdmitOffsets, FinishOffsets, Zenon DEF IInv, Typed
<1>3. ASSUME NEW w \in Worker, Take(w) \/ Put(w) \/ Done(w) \/ PassFence(w) \/ Fail(w) PROVE OInv'
  BY <1>3, TakeOffsets, PutOffsets, DoneOffsets, PassFenceOffsets, FailOffsets, Zenon
<1>4. ASSUME NEW w \in Worker, Execute(w) \/ GetFinished(w) PROVE OInv'
  BY <1>4, ExecuteOffsets, GetFinishedOffsets, Zenon
<1>5. ASSUME NEW w \in Worker, Poll(w) \/ Raise(w) \/ Compute(w) PROVE OInv'
  <2>1. /\ UNCHANGED <<align, schedulerVars, step, threadVars, store>>
        /\ host' = host \/ host' = [host EXCEPT ![w] = "waiting"]
    BY <1>5, Zenon DEF Poll, Raise, Compute, hostVars
  <2>2. \A v \in Worker : Unfinished(v)' = Unfinished(v)
    BY <2>1, Zenon DEF threadVars, Unfinished, Jobs
  <2>3. \A v \in Worker : host'[v] = host[v] \/ host'[v] # "done"
    BY <2>1 DEF IInv, Typed, WorkerTyped
  <2> QED BY <2>1, <2>2, <2>3, OffsetsAside, Zenon DEF schedulerVars, threadVars
<1>6. CASE UNCHANGED vars
  <2>1. UNCHANGED <<align, schedulerVars, step, hostVars, threadVars, store>>
    BY <1>6, Zenon DEF vars
  <2>2. \A v \in Worker : Unfinished(v)' = Unfinished(v)
    BY <2>1, Zenon DEF threadVars, Unfinished, Jobs
  <2> QED BY <2>1, <2>2, OffsetsAside, Zenon DEF schedulerVars, hostVars, threadVars
<1> QED BY <1>1, <1>2, <1>3, <1>4, <1>5, <1>6, Zenon DEF Next, Engine, Host, Thread, Rest

\* The three invariants together.
LEMMA StoreInvariant == Spec => [](IInv /\ EInv /\ OInv)
<1>1. Init => IInv /\ EInv /\ OInv
  BY InitIInv, InitEvents, InitOffsets, Zenon
<1>2. ASSUME IInv, EInv, OInv, [Next]_vars PROVE IInv' /\ EInv' /\ OInv'
  <2>1. IInv'
    BY <1>2, NextIInv, ResetFindsNoSave, Zenon
  <2> QED BY <1>2, <2>1, NextEvents, NextOffsets, Zenon
<1> QED BY <1>1, <1>2, PTL DEF Spec

-----------------------------------------------------------------------------
(* Theorems *)

\* The types of the variables.
THEOREM StoreTyped == Spec => []TypeOK
<1>1. ASSUME IInv, EInv PROVE TypeOK
  <2>1. 1 .. next_id - 1 \subseteq 1 .. MaxSaves /\ next_id \in 1 .. MaxSaves + 1
    BY <1>1, BoundAssumption DEF EInv, Ids
  <2>2. ASSUME NEW w \in Worker
        PROVE  /\ queue[w] \in Seq(ReqMeta \cup {Fence}) /\ (job[w] = NoJob \/ job[w].meta \in ReqMeta)
               /\ live[w] \subseteq Req \X (1 .. MaxSaves) /\ completed[w] \cup reported[w] \subseteq 1 .. MaxSaves
    <3>1. queue[w] \in Seq(ReqMeta \cup {Fence}) /\ (job[w] = NoJob \/ job[w].meta \in ReqMeta)
      BY <1>1, Zenon DEF IInv, Typed, ThreadTyped, Saves, JobHolds
    <3>2. Tracked(w)
      BY <1>1, Zenon DEF EInv
    <3>3. completed[w] \cup reported[w] \subseteq 1 .. MaxSaves /\ OpenIds(w) \subseteq 1 .. MaxSaves
      BY <2>1, <3>2, Zenon DEF Tracked
    <3>4. \A m \in Unfinished(w) : m.req \in Req /\ m.id \in 1 .. MaxSaves
      BY <1>1, <3>3, UnfinishedTyped, Zenon DEF OpenIds, ReqMeta
    <3>5. live[w] \subseteq Req \X (1 .. MaxSaves)
      BY <3>2, <3>4 DEF Tracked
    <3> QED BY <3>1, <3>3, <3>5, Zenon
  <2>3. /\ align \in BOOLEAN /\ epoch \in 0 .. MaxResets /\ blocks \in [Req -> Seq(Block \cup {Null})]
        /\ status \in [Req -> {"waiting", "running", "finished"}] /\ finished \subseteq Req
        /\ step.phase \in {"none", "plan", "run"} /\ step.save \in Seq(ReqMeta)
        /\ step.load \cup step.write \subseteq Block \X Key
        /\ step.scheduled \cup step.preempted \cup step.finished \subseteq Req
    BY <1>1, Zenon DEF IInv, Typed, PlanTyped, Slot
  <2>4. /\ host \in [Worker -> {"idle", "called", "waiting", "launched", "done"}]
        /\ fence \in [Worker -> {"none", "pending", "done"}]
        /\ mem \in [Worker -> [Block -> Contents \cup {Nothing}]]
        /\ store \in [Worker -> [Key -> Contents \cup {Nothing}]]
        /\ device \in [Worker -> SUBSET (Block \X Contents)]
    BY <1>1, Zenon DEF IInv, Typed, WorkerTyped, ThreadTyped, Content
  <2>5. DOMAIN sending \subseteq 1 .. MaxSaves
    BY <1>1, <2>1, Zenon DEF EInv, Ids
  <2> QED BY <1>1, <2>1, <2>2, <2>3, <2>4, <2>5, Zenon DEF TypeOK, EInv, LedgerTyped
<1> QED BY <1>1, StoreInvariant, PTL

\* Whatever the store threads put into the store under a key is the KV of that
\* key: the fence of add_save_batch, awaited in handle_preemptions, keeps every
\* block of a queued save from being overwritten, although the scheduler frees
\* and reuses the blocks while the save is under way.
THEOREM StoredUnderItsKey == Spec => []StoreIntact
<1>1. IInv => StoreIntact
  BY Zenon DEF IInv, StoreRight, Right, StoreIntact
<1> QED BY <1>1, StoreInvariant, PTL

\* Between steps, every slot of every request holds, on every rank, the KV of
\* its chunk: what lookup_scheduler reported is there to be loaded on every
\* rank, and no step writes a block that another request has.
THEOREM RequestsRunOnTheirKV == Spec => []RunsOnItsKV
<1>1. ASSUME IInv PROVE RunsOnItsKV
  <2> SUFFICES ASSUME step.phase = "none", NEW r \in Req, NEW w \in Worker, NEW i \in DOMAIN blocks[r], blocks[r][i] # Null
               PROVE  mem[w][blocks[r][i]] # Nothing /\ mem[w][blocks[r][i]][1] = Prompt[r][i]
    BY Zenon DEF RunsOnItsKV
  <2>1. device[w] = {} /\ ~Planned(w, blocks[r][i])
    BY <1>1, Zenon DEF IInv, Phases, Planned
  <2>2. Good(w, blocks[r][i], Prompt[r][i])
    BY <1>1, <2>1, ZenonT(40) DEF IInv, Slots
  <2> QED BY <2>1, <2>2, ZenonT(40) DEF Good, Right
<1> QED BY <1>1, StoreInvariant, PTL

\* A job that a store thread dispatches is live: get_finished never forgets a
\* request whose save is queued or running, so no save is dropped and no id is
\* retired.
THEOREM NoSaveDropped == Spec => []SavesNotDropped
<1>1. EInv => SavesNotDropped
  BY Zenon DEF EInv, Tracked, SavesNotDropped
<1> QED BY <1>1, StoreInvariant, PTL

\* InFlightSaveBlockTracker counts right: the workers an event has counted and
\* those that still owe it are all the workers, and an event that a worker owes
\* is not released.
THEOREM EveryEventIsCounted == Spec => []EventsConserved
<1>1. EInv => EventsConserved
  BY Zenon DEF EInv
<1> QED BY <1>1, StoreInvariant, PTL

\* reset_store is refused while a save of an align-state group is pinned, so the
\* store never holds KV of such a group from before the reset.
THEOREM PinsKeepTheStoreFresh == Spec => []PinnedStoreFresh
<1>1. IInv => PinnedStoreFresh
  BY Zenon DEF IInv, StoreRight, Right, PinnedStoreFresh, StoreFresh
<1> QED BY <1>1, StoreInvariant, PTL

\* An offset of _saved_offsets stands for chunks that are in the store of its
\* rank: a put that failed, a preemption, a resumption with fewer blocks and a
\* reset of the store leave no offset above what has been stored.
THEOREM OffsetsAreDurable == Spec => []OffsetDurable
<1>1. OInv => OffsetDurable
  BY Zenon DEF OInv, Durable, Stored, OffsetDurable
<1> QED BY <1>1, StoreInvariant, PTL
=============================================================================
