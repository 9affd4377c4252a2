------------------------------- MODULE EplbUpdate -------------------------------
(***************************************************************************)
(* Dynamic expert load balancing (MRv1): the EplbUpdator and the           *)
(* D2DExpertWeightLoader of every rank, and its planner process.           *)
(*                                                                         *)
(* A cycle has Heat iterations of collection, closed by an all-gather that *)
(* wakes the planners, Algo iterations for them to compute, and one        *)
(* iteration per layer: the experts of the layer are exchanged beside the  *)
(* forward pass and take effect after it.  Nothing but the iteration       *)
(* counters keeps the ranks in step.                                       *)
(*                                                                         *)
(* A placement says which expert is in which slot of which rank.  The load *)
(* that the ranks gather is represented by the placement that the policy,  *)
(* a deterministic function of load and placement, makes of it.            *)
(***************************************************************************)
EXTENDS Integers, Sequences, FiniteSets

CONSTANTS
    Ranks, Experts, Slots, Layers,  \* how many there are of each; they are numbered from 0
    Heat,       \* expert_heat_collection_interval
    Algo,       \* algorithm_execution_interval
    Stage,      \* eplb_heat_collection_stage
    Tp,         \* tensor_parallel_size
    Recording,  \* the values of expert_map_record_path # None
    Initial,    \* the placement of every layer after the warm-up
    Policy,     \* the placements a policy may answer
    MaxFaults   \* bound on the planners that fail

Rank == 0 .. Ranks - 1
Expert == 0 .. Experts - 1
Slot == 0 .. Slots - 1
Layer == 0 .. Layers - 1
Placement == [Rank -> [Slot -> Expert]]

ASSUME SizeAssumption ==
    /\ Ranks \in Nat \ {0} /\ Slots \in Nat \ {0} /\ Layers \in Nat \ {0} /\ Tp \in Nat \ {0}
    /\ Heat \in Nat \ {0} /\ Algo \in Nat \ {0} /\ Recording \subseteq BOOLEAN
ASSUME PlacementAssumption == Initial \in [Layer -> Placement] /\ Policy \subseteq [Layer -> Placement]

VARIABLES
    recording,
    pc,         \* where the rank is in the step
    heat,       \* eplb_heat_collection_status
    iter,       \* cur_iterations
    infos,      \* update_info_all
    task,       \* the loader: its task, and its state WAITING or TRANSFERRING
    log2phy_next, \* updated_log2phy_map
    sends, recvs, \* the P2P operations under way, by rank and peer
    buffer,     \* buffer_tensor_list
    weight,     \* the expert whose weights are in a slot of a layer
    expert_map, log2phy, \* expert_map_per_layer_cpu, log2phy_map_per_layer
    \* the planner of a rank
    moe_load,   \* shared_dict["moe_load"]
    planner_q, update_q, \* the queues: wake-ups, and at most one answer
    maps,       \* old_expert_maps
    alive

loaderVars == <<task, log2phy_next, sends, recvs, buffer, weight, expert_map, log2phy>>
plannerVars == <<moe_load, planner_q, update_q, maps, alive>>
vars == <<recording, pc, heat, iter, infos, loaderVars, plannerVars>>

-----------------------------------------------------------------------------
(* The planner: pure functions of the old and the new placement of a layer *)

ExpertsOn(p, r) == {p[r][s] : s \in Slot}
Placed(p) == UNION {ExpertsOn(p, r) : r \in Rank}

\* check_expert_placement: an expert is lost, a rank has an expert twice, or
\* an expert moves inside a rank.
Invalid(old, new) ==
    \/ Cardinality(Placed(new)) < Cardinality(Placed(old))
    \/ \E r \in Rank : \/ Cardinality(ExpertsOn(new, r)) < Slots
                       \/ \E s \in Slot : new[r][s] \in ExpertsOn(old, r) /\ new[r][s] # old[r][s]

Checked(old, new) == IF Invalid(old, new) THEN old ELSE new

\* local2global: the slot of every expert on a rank, -1 for none.
MapOf(p, r) == [e \in Expert |-> IF e \in ExpertsOn(p, r) THEN CHOOSE s \in Slot : p[r][s] = e ELSE -1]

\* generate_log2phy_map: a rank uses one replica of an expert, by its rank.
Log2phy(p, r) ==
    [e \in Expert |->
        LET copies == {MapOf(p, g)[e] + g * Slots : g \in {h \in Rank : e \in ExpertsOn(p, h)}}
            i == IF Tp > 1 THEN (r % Tp) + (r \div Tp) + e ELSE r
        IN  CHOOSE c \in copies : Cardinality({d \in copies : d < c}) = i % Cardinality(copies)]

\* compose_expert_update_info_greedy: who gets which expert, rank by rank.
RankExperts == [k \in 1 .. Ranks * Experts |-> <<(k - 1) \div Experts, (k - 1) % Experts>>]
Moves(old, new) == SelectSeq(RankExperts, LAMBDA x : x[2] \in ExpertsOn(new, x[1]) \ ExpertsOn(old, x[1]))

\* The first rank that gives the expert away or, if none does, that has it.
Source(old, new, e) ==
    LET having == {r \in Rank : e \in ExpertsOn(old, r)}
        giving == {r \in having : e \notin ExpertsOn(new, r)}
        candidates == IF giving = {} THEN having ELSE giving
    IN  CHOOSE r \in candidates : \A q \in candidates : r =< q

\* Mutant of UpdateInfo: an expert is awaited from the first rank that has it.
UpdateInfoFirst(old, new, l, r) ==
    LET moves == Moves(old, new)
        out == SelectSeq(moves, LAMBDA x : Source(old, new, x[2]) = r)
        in == SelectSeq(moves, LAMBDA x : x[1] = r)
    IN  [layer |-> l, send |-> out,
         recv |-> [i \in DOMAIN in |-> <<CHOOSE q \in Rank : in[i][2] \in ExpertsOn(old, q), in[i][2]>>],
         map |-> MapOf(new, r), log2phy |-> Log2phy(new, r)]

\* pack_update_info: the part of rank r, in the order of the moves.
UpdateInfo(old, new, l, r) ==
    LET moves == Moves(old, new)
        out == SelectSeq(moves, LAMBDA x : Source(old, new, x[2]) = r)
        in == SelectSeq(moves, LAMBDA x : x[1] = r)
    IN  [layer |-> l, send |-> out,
         recv |-> [i \in DOMAIN in |-> <<Source(old, new, in[i][2]), in[i][2]>>],
         map |-> MapOf(new, r), log2phy |-> Log2phy(new, r)]

NoTask == [layer |-> -1, map |-> <<>>, replace |-> <<>>]
NoTransfers == [r \in Rank |-> [g \in Rank |-> <<>>]]

Init ==
    /\ recording \in Recording
    /\ pc = [r \in Rank |-> "idle"] /\ heat = [r \in Rank |-> TRUE] /\ iter = [r \in Rank |-> 0]
    /\ infos = [r \in Rank |-> <<>>] /\ task = [r \in Rank |-> NoTask] /\ log2phy_next = [r \in Rank |-> <<>>]
    /\ sends = NoTransfers /\ recvs = NoTransfers /\ buffer = [r \in Rank |-> [s \in Slot |-> -1]]
    /\ weight = [r \in Rank |-> [l \in Layer |-> Initial[l][r]]]
    /\ expert_map = [r \in Rank |-> [l \in Layer |-> MapOf(Initial[l], r)]]
    /\ log2phy = [r \in Rank |-> [l \in Layer |-> Log2phy(Initial[l], r)]]
    /\ moe_load = [r \in Rank |-> Initial] /\ maps = [r \in Rank |-> Initial]
    /\ planner_q = [r \in Rank |-> 0] /\ update_q = [r \in Rank |-> <<>>] /\ alive = [r \in Rank |-> TRUE]

-----------------------------------------------------------------------------
(* A step of the engine *)

\* The answer is due; a layer is exchanged in this iteration.
GetUpdateInfoFlag(r) == iter[r] = Heat + Algo - 1

\* Mutant of UpdateExpertWeightFlag: the last layer is left out.
UpdateExpertWeightFlagShort(r) == iter[r] - (Heat + Algo) \in 0 .. Layers - 2

UpdateExpertWeightFlag(r) == iter[r] - (Heat + Algo) \in Layer
WakeupEplbWorkerFlag(r) == iter[r] = Heat - 1

\* Mutant of HeatStatus: every rank goes by the length of its own batch.
HeatStatusLocal(long, r) == Stage = "all" \/ (Stage = "prefill") = (r \in long)

\* update_eplb_heat_collection_status, from the longest batch of all ranks.
\* The ranks in long have more tokens than the longest decode batch.
HeatStatus(long, r) == Stage = "all" \/ (Stage = "prefill") = (long # {})

\* The ranks run a step, a dummy one where there is nothing to do; they have
\* exchanged the lengths of their batches.
BeginStep ==
    /\ \A r \in Rank : pc[r] = "idle"
    /\ \E long \in SUBSET Rank : heat' = [r \in Rank |-> HeatStatus(long, r)]
    /\ pc' = [r \in Rank |-> "before"]
    /\ UNCHANGED <<recording, iter, infos, loaderVars, plannerVars>>

\* forward_before waits for the answer of the planner.
FetchPlan(r) ==
    /\ pc[r] = "before" /\ GetUpdateInfoFlag(r) /\ update_q[r] # <<>>
    /\ infos' = [infos EXCEPT ![r] = Head(update_q[r])]
    /\ update_q' = [update_q EXCEPT ![r] = <<>>]
    /\ pc' = [pc EXCEPT ![r] = "ready"]
    /\ UNCHANGED <<recording, heat, iter, loaderVars, moe_load, planner_q, maps, alive>>

\* The moves of a list that go to rank g.
To(list, g) == SelectSeq(list, LAMBDA x : x[1] = g)

\* forward_before starts the exchange of the next layer; a loader that is busy
\* with another (when recording, for ever) refuses it.
StartExchange(r) ==
    LET info == Head(infos[r]) IN
    /\ pc[r] = "before" /\ UpdateExpertWeightFlag(r)
    /\ infos' = [infos EXCEPT ![r] = Tail(@)]
    /\ log2phy_next' = [log2phy_next EXCEPT ![r] = info.log2phy]
    /\ IF task[r] = NoTask
       THEN /\ task' = [task EXCEPT ![r] =
                    [layer |-> info.layer, map |-> info.map,
                     replace |-> [i \in DOMAIN info.recv |-> info.map[info.recv[i][2]]]]]
            /\ sends' = [sends EXCEPT ![r] = [g \in Rank |->
                    @[g] \o [i \in DOMAIN To(info.send, g) |-> <<info.layer, expert_map[r][info.layer][To(info.send, g)[i][2]]>>]]]
            /\ recvs' = [recvs EXCEPT ![r] = [g \in Rank |->
                    @[g] \o SelectSeq([i \in DOMAIN info.recv |-> i - 1], LAMBDA b : info.recv[b + 1][1] = g)]]
       ELSE UNCHANGED <<task, sends, recvs>>
    /\ pc' = [pc EXCEPT ![r] = "ready"]
    /\ UNCHANGED <<recording, heat, iter, buffer, weight, expert_map, log2phy, plannerVars>>

\* forward_before has nothing to do.
SkipBefore(r) ==
    /\ pc[r] = "before" /\ ~GetUpdateInfoFlag(r) /\ ~UpdateExpertWeightFlag(r)
    /\ pc' = [pc EXCEPT ![r] = "ready"]
    /\ UNCHANGED <<recording, heat, iter, infos, loaderVars, plannerVars>>

\* The forward pass: tokens go to the experts of all ranks and back.
Forward ==
    /\ \A r \in Rank : pc[r] = "ready"
    /\ pc' = [r \in Rank |-> "ran"]
    /\ UNCHANGED <<recording, heat, iter, infos, loaderVars, plannerVars>>

\* A send of r meets a receive of g; the operations of a pair keep their order.
Transfer(r, g) ==
    /\ sends[r][g] # <<>> /\ recvs[g][r] # <<>>
    /\ LET from == Head(sends[r][g]) IN
       buffer' = [buffer EXCEPT ![g][Head(recvs[g][r])] = weight[r][from[1]][from[2]]]
    /\ sends' = [sends EXCEPT ![r][g] = Tail(@)]
    /\ recvs' = [recvs EXCEPT ![g][r] = Tail(@)]
    /\ UNCHANGED <<recording, pc, heat, iter, infos, task, log2phy_next, weight, expert_map, log2phy, plannerVars>>

\* Mutant of NextIteration: the counter is not reset.
NextIterationOn(i, collected) == IF i >= Heat - 1 \/ collected THEN i + 1 ELSE i

\* The end of forward_end and update_iteration.
NextIteration(i, collected) ==
    IF i >= Heat - 1 \/ collected THEN (i + 1) % (Heat + Algo + Layers) ELSE i

\* forward_end gathers the load of all ranks and wakes the planners.
Gather ==
    /\ \A r \in Rank : pc[r] = "ran" /\ WakeupEplbWorkerFlag(r)
    /\ \E p \in Policy : moe_load' = [r \in Rank |-> p]
    /\ planner_q' = [r \in Rank |-> planner_q[r] + 1]
    /\ iter' = [r \in Rank |-> NextIteration(iter[r], heat[r])]
    /\ pc' = [r \in Rank |-> "idle"]
    /\ UNCHANGED <<recording, heat, infos, loaderVars, update_q, maps, alive>>

\* Mutant of Commit: the requests are not waited for.
CommitAtOnce(r) ==
    LET l == task[r].layer IN
    /\ pc[r] = "ran" /\ UpdateExpertWeightFlag(r) /\ ~recording /\ task[r] # NoTask
    /\ expert_map' = [expert_map EXCEPT ![r][l] = task[r].map]
    /\ log2phy' = [log2phy EXCEPT ![r][l] = log2phy_next[r]]
    /\ weight' = [weight EXCEPT ![r][l] = [s \in Slot |->
                     IF \E i \in DOMAIN task[r].replace : task[r].replace[i] = s
                     THEN buffer[r][(CHOOSE i \in DOMAIN task[r].replace : task[r].replace[i] = s) - 1] ELSE @[s]]]
    /\ task' = [task EXCEPT ![r] = NoTask]
    /\ iter' = [iter EXCEPT ![r] = NextIteration(@, heat[r])]
    /\ pc' = [pc EXCEPT ![r] = "idle"]
    /\ UNCHANGED <<recording, heat, infos, log2phy_next, sends, recvs, buffer, plannerVars>>

\* forward_end takes the exchanged layer into use, when all transfers of the
\* rank are over (update_expert_map_and_weight).
Commit(r) ==
    LET l == task[r].layer IN
    /\ pc[r] = "ran" /\ UpdateExpertWeightFlag(r) /\ ~recording /\ task[r] # NoTask
    /\ \A g \in Rank : sends[r][g] = <<>> /\ recvs[r][g] = <<>>
    /\ expert_map' = [expert_map EXCEPT ![r][l] = task[r].map]
    /\ log2phy' = [log2phy EXCEPT ![r][l] = log2phy_next[r]]
    /\ weight' = [weight EXCEPT ![r][l] = [s \in Slot |->
                     IF \E i \in DOMAIN task[r].replace : task[r].replace[i] = s
                     THEN buffer[r][(CHOOSE i \in DOMAIN task[r].replace : task[r].replace[i] = s) - 1] ELSE @[s]]]
    /\ task' = [task EXCEPT ![r] = NoTask]
    /\ iter' = [iter EXCEPT ![r] = NextIteration(@, heat[r])]
    /\ pc' = [pc EXCEPT ![r] = "idle"]
    /\ UNCHANGED <<recording, heat, infos, log2phy_next, sends, recvs, buffer, plannerVars>>

\* forward_end only counts.
Advance(r) ==
    /\ pc[r] = "ran" /\ ~WakeupEplbWorkerFlag(r) /\ (UpdateExpertWeightFlag(r) => recording)
    /\ iter' = [iter EXCEPT ![r] = NextIteration(@, heat[r])]
    /\ pc' = [pc EXCEPT ![r] = "idle"]
    /\ UNCHANGED <<recording, heat, infos, loaderVars, plannerVars>>

\* shutdown ends the planners with the engine.
Shutdown ==
    /\ \A r \in Rank : pc[r] = "idle"
    /\ pc' = [r \in Rank |-> "off"]
    /\ alive' = [r \in Rank |-> FALSE]
    /\ UNCHANGED <<recording, heat, iter, infos, loaderVars, moe_load, planner_q, update_q, maps>>

-----------------------------------------------------------------------------
(* A planner *)

\* do_update, and the answer into the queue, which is empty by then.
Plan(r) ==
    LET new == [l \in Layer |-> Checked(maps[r][l], moe_load[r][l])] IN
    /\ alive[r] /\ planner_q[r] > 0 /\ update_q[r] = <<>>
    /\ planner_q' = [planner_q EXCEPT ![r] = @ - 1]
    /\ update_q' = [update_q EXCEPT ![r] = <<[i \in 1 .. Layers |-> UpdateInfo(maps[r][i - 1], new[i - 1], i - 1, r)]>>]
    /\ maps' = [maps EXCEPT ![r] = new]
    /\ UNCHANGED <<recording, pc, heat, iter, infos, loaderVars, moe_load, alive>>

\* An exception in do_update ends the process.
Fail(r) ==
    /\ alive[r] /\ planner_q[r] > 0 /\ Cardinality({g \in Rank : ~alive[g]}) < MaxFaults
    /\ planner_q' = [planner_q EXCEPT ![r] = @ - 1]
    /\ alive' = [alive EXCEPT ![r] = FALSE]
    /\ UNCHANGED <<recording, pc, heat, iter, infos, loaderVars, moe_load, update_q, maps>>

Step(r) == FetchPlan(r) \/ StartExchange(r) \/ SkipBefore(r) \/ Commit(r) \/ Advance(r)

\* What goes on by itself once a step has begun.
Progress ==
    \/ Forward \/ Gather
    \/ \E r \in Rank : Step(r) \/ Plan(r)
    \/ \E r, g \in Rank : Transfer(r, g)

Next == BeginStep \/ Shutdown \/ Progress \/ \E r \in Rank : Fail(r)

Spec == Init /\ [][Next]_vars

\* While something can go on, something does: less than that every rank,
\* planner and transfer makes progress, and enough since a step is finite.
\* Nobody has to begin a step, and no planner has to fail.
Fairness == WF_vars(Progress)

FairSpec == Spec /\ Fairness

-----------------------------------------------------------------------------
(* Properties *)

TypeOK ==
    /\ pc \in [Rank -> {"idle", "before", "ready", "ran", "off"}] /\ heat \in [Rank -> BOOLEAN]
    /\ iter \in [Rank -> 0 .. Heat + Algo + Layers - 1]
    /\ weight \in [Rank -> [Layer -> [Slot -> Expert]]] /\ buffer \in [Rank -> [Slot -> Expert \cup {-1}]]
    /\ expert_map \in [Rank -> [Layer -> [Expert -> Slot \cup {-1}]]]
    /\ log2phy \in [Rank -> [Layer -> [Expert -> 0 .. Ranks * Slots - 1]]]
    /\ moe_load \in [Rank -> [Layer -> Placement]] /\ maps \in [Rank -> [Layer -> Placement]]
    /\ planner_q \in [Rank -> {0, 1}] /\ alive \in [Rank -> BOOLEAN]
    /\ \A r \in Rank : task[r].layer \in Layer \cup {-1} /\ Len(infos[r]) =< Layers
                        /\ (planner_q[r] = 1 => update_q[r] = <<>>)

\* In a forward pass every rank sends the tokens of an expert to a slot that
\* holds the weights of this expert, on whatever rank: maps, log2phy tables and
\* weights of all ranks change in step (forward_before, forward_end,
\* update_expert_map_and_weight).
RoutedToHolder ==
    (\A r \in Rank : pc[r] = "ready") =>
        \A r \in Rank, l \in Layer, e \in Expert :
            LET phy == log2phy[r][l][e] IN weight[phy \div Slots][l][phy % Slots] = e

\* Ranks at the same place of a step are in the same iteration, so they enter
\* the same collectives and exchange the same layer.
InStep == \A r, g \in Rank : pc[r] = pc[g] => iter[r] = iter[g]

\* When load is collected again, the plan of the last cycle is in use: what
\* the planners take for the old placement is what the ranks have.
Adopted ==
    (\A r \in Rank : pc[r] = "idle" /\ iter[r] < Heat /\ planner_q[r] = 0) /\ ~recording =>
        \A r, g \in Rank, l \in Layer :
            /\ weight[r][l] = maps[g][l][r]
            /\ expert_map[r][l] = MapOf(maps[g][l], r)
            /\ task[r] = NoTask /\ infos[r] = <<>>

\* A step that has begun ends, on every rank: no rank waits for ever for the
\* plan (forward_before), in the all-gather or for a transfer (forward_end),
\* unless a planner has failed.
StepEnds ==
    (\E r \in Rank : pc[r] = "before")
        ~> (\A r \in Rank : pc[r] = "idle") \/ (\E r \in Rank : ~alive[r])
=============================================================================
