---------------------------- MODULE EplbUpdateProofs ----------------------------
(* No rank gets ahead of another: they are in the same iteration at the same *)
(* place of a step, whatever the number of ranks, layers and iterations.     *)
EXTENDS EplbUpdate, TLAPS

Places == {"idle", "before", "ready", "ran", "off"}
Opening == {"before", "ready"}

Typed ==
    /\ pc \in [Rank -> Places]
    /\ iter = [r \in Rank |-> iter[r]]
    /\ heat = [r \in Rank |-> heat[r]]

\* The ranks agree on whether this step collects load.
SameHeat == \A r, g \in Rank : heat[r] = heat[g]

\* Between BeginStep and Forward all ranks are, in the same iteration.
OpenTogether == \A r, g \in Rank : pc[r] \in Opening => pc[g] \in Opening /\ iter[g] = iter[r]

\* After Forward a rank whose forward_end is over has counted once more than
\* one whose forward_end is to come.
CloseTogether ==
    \A r, g \in Rank :
        /\ pc[r] = "ran" /\ pc[g] = "idle" => iter[g] = NextIteration(iter[r], heat[r])
        /\ pc[r] = "off" => pc[g] = "off"

IInv == Typed /\ SameHeat /\ InStep /\ OpenTogether /\ CloseTogether

-----------------------------------------------------------------------------

\* All counters start at 0.
LEMMA InitIInv == Init => IInv
BY DEF Init, IInv, Typed, Places, Opening, SameHeat, InStep, OpenTogether, CloseTogether

\* The joint start of a step: the lengths the ranks have exchanged give all of
\* them the same heat collection status.
LEMMA BeginStepPreserves == IInv /\ BeginStep => IInv'
<1> SUFFICES ASSUME IInv, BeginStep PROVE IInv'
    OBVIOUS
<1>1. pc' = [r \in Rank |-> "before"] /\ iter' = iter /\ \A r \in Rank : pc[r] = "idle"
    BY DEF BeginStep
<1>2. PICK long : heat' = [r \in Rank |-> HeatStatus(long, r)]
    BY DEF BeginStep
<1>3. \A r, g \in Rank : HeatStatus(long, r) = HeatStatus(long, g)
    BY DEF HeatStatus
<1>4. \A r, g \in Rank : iter[r] = iter[g]
    BY <1>1 DEF IInv, InStep
<1>5. Typed'
    BY <1>1, <1>2 DEF IInv, Typed, Places
<1>6. SameHeat'
    BY <1>2, <1>3, Zenon DEF SameHeat
<1>7. InStep' /\ OpenTogether' /\ CloseTogether'
    BY <1>1, <1>4 DEF InStep, OpenTogether, CloseTogether, Opening
<1> QED BY <1>5, <1>6, <1>7 DEF IInv

\* forward_before of one rank.
LEMMA BeforePreserves ==
    ASSUME IInv, NEW r \in Rank, pc[r] = "before", pc' = [pc EXCEPT ![r] = "ready"], iter' = iter, heat' = heat
    PROVE  IInv'
<1>1. Typed' /\ SameHeat'
    BY DEF IInv, Typed, Places, SameHeat
<1>2. \A g \in Rank : pc[g] \in Opening /\ iter[g] = iter[r]
    BY DEF IInv, OpenTogether, Opening
<1>3. \A g \in Rank : pc'[g] \in Opening /\ iter'[g] = iter[r]
    BY <1>2 DEF IInv, Typed, Opening
<1>4. InStep' /\ OpenTogether' /\ CloseTogether'
    BY <1>3 DEF InStep, OpenTogether, CloseTogether, Opening
<1> QED BY <1>1, <1>4 DEF IInv

\* The joint forward pass.
LEMMA ForwardPreserves == IInv /\ Forward => IInv'
<1> SUFFICES ASSUME IInv, Forward PROVE IInv'
    OBVIOUS
<1>1. pc' = [r \in Rank |-> "ran"] /\ iter' = iter /\ heat' = heat /\ \A r \in Rank : pc[r] = "ready"
    BY DEF Forward
<1>2. \A r, g \in Rank : iter[r] = iter[g]
    BY <1>1 DEF IInv, InStep
<1>3. Typed' /\ SameHeat'
    BY <1>1 DEF IInv, Typed, Places, SameHeat
<1>4. InStep' /\ OpenTogether' /\ CloseTogether'
    BY <1>1, <1>2 DEF InStep, OpenTogether, CloseTogether, Opening
<1> QED BY <1>3, <1>4 DEF IInv

\* The joint all-gather.
LEMMA GatherPreserves == IInv /\ Gather => IInv'
<1> SUFFICES ASSUME IInv, Gather PROVE IInv'
    OBVIOUS
<1>1. /\ pc' = [r \in Rank |-> "idle"] /\ heat' = heat /\ \A r \in Rank : pc[r] = "ran"
      /\ iter' = [r \in Rank |-> NextIteration(iter[r], heat[r])]
    BY DEF Gather
<1>2. \A r, g \in Rank : iter[r] = iter[g] /\ heat[r] = heat[g]
    BY <1>1 DEF IInv, InStep, SameHeat
<1>3. \A r, g \in Rank : iter'[r] = iter'[g]
    BY <1>1, <1>2, Zenon
<1>4. Typed' /\ SameHeat'
    BY <1>1 DEF IInv, Typed, Places, SameHeat
<1>5. InStep' /\ OpenTogether' /\ CloseTogether'
    BY <1>1, <1>3 DEF InStep, OpenTogether, CloseTogether, Opening
<1> QED BY <1>4, <1>5 DEF IInv

\* forward_end of one rank.
LEMMA EndPreserves ==
    ASSUME IInv, NEW r \in Rank, pc[r] = "ran", pc' = [pc EXCEPT ![r] = "idle"], heat' = heat,
           iter' = [iter EXCEPT ![r] = NextIteration(@, heat[r])]
    PROVE  IInv'
<1>1. Typed' /\ SameHeat'
    BY DEF IInv, Typed, Places, SameHeat
<1>2. \A g \in Rank : /\ pc'[g] = IF g = r THEN "idle" ELSE pc[g]
                      /\ iter'[g] = IF g = r THEN NextIteration(iter[r], heat[r]) ELSE iter[g]
    BY DEF IInv, Typed
<1>3. \A g \in Rank : /\ pc[g] = "ran" => iter[g] = iter[r] /\ heat[g] = heat[r]
                      /\ pc[g] = "idle" => iter[g] = NextIteration(iter[r], heat[r])
                      /\ pc[g] \in {"ran", "idle"}
    BY DEF IInv, Typed, Places, InStep, SameHeat, OpenTogether, CloseTogether, Opening
<1>4. \A g \in Rank : /\ pc'[g] \in {"ran", "idle"}
                      /\ pc'[g] = "ran" => iter'[g] = iter[r] /\ heat[g] = heat[r]
                      /\ pc'[g] = "idle" => iter'[g] = NextIteration(iter[r], heat[r])
    BY <1>2, <1>3
<1>5. InStep' /\ OpenTogether'
    BY <1>4 DEF InStep, OpenTogether, Opening
<1>6. CloseTogether'
    BY <1>4 DEF CloseTogether
<1> QED BY <1>1, <1>5, <1>6 DEF IInv

\* What leaves counters and places alone: transfers, planners, stuttering.
LEMMA AsidePreserves == IInv /\ UNCHANGED <<pc, iter, heat>> => IInv'
BY DEF IInv, Typed, SameHeat, InStep, OpenTogether, CloseTogether

\* Every rank stops at once.
LEMMA ShutdownPreserves == IInv /\ Shutdown => IInv'
BY DEF IInv, Shutdown, Typed, Places, Opening, SameHeat, InStep, OpenTogether, CloseTogether

\* One rank's part of forward_before or forward_end.
LEMMA StepPreserves == ASSUME IInv, NEW r \in Rank, Step(r) PROVE IInv'
<1>1. CASE FetchPlan(r) \/ StartExchange(r) \/ SkipBefore(r)
    BY <1>1, BeforePreserves, Zenon DEF FetchPlan, StartExchange, SkipBefore
<1>2. CASE Commit(r) \/ Advance(r)
    BY <1>2, EndPreserves, Zenon DEF Commit, Advance
<1> QED BY <1>1, <1>2 DEF Step

\* Every step keeps the invariant.
LEMMA NextIInv == IInv /\ [Next]_vars => IInv'
<1> SUFFICES ASSUME IInv, [Next]_vars PROVE IInv'
    OBVIOUS
<1>1. CASE BeginStep
    BY <1>1, BeginStepPreserves
<1>2. CASE Shutdown
    BY <1>2, ShutdownPreserves
<1>3. CASE Forward
    BY <1>3, ForwardPreserves
<1>4. CASE Gather
    BY <1>4, GatherPreserves
<1>5. ASSUME NEW r \in Rank, Step(r) PROVE IInv'
    BY <1>5, StepPreserves
<1>6. ASSUME NEW r \in Rank, Plan(r) \/ Fail(r) PROVE IInv'
    BY <1>6, AsidePreserves, Zenon DEF Plan, Fail
<1>7. ASSUME NEW r \in Rank, NEW g \in Rank, Transfer(r, g) PROVE IInv'
    BY <1>7, AsidePreserves, Zenon DEF Transfer
<1>8. CASE UNCHANGED vars
    BY <1>8, AsidePreserves, Zenon DEF vars
<1> QED BY <1>1, <1>2, <1>3, <1>4, <1>5, <1>6, <1>7, <1>8 DEF Next, Progress

\* Ranks at the same place of a step are in the same iteration, so that all of
\* them gather the load in the same step and exchange the same layer
\* (EplbUpdator.forward_before and forward_end).
THEOREM RanksInStep == Spec => []InStep
<1>1. IInv => InStep
    BY DEF IInv
<1> QED BY InitIInv, NextIInv, <1>1, PTL DEF Spec
=============================================================================
