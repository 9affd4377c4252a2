------------------------- MODULE EncoderWorkerProofs --------------------------
(***************************************************************************)
(* Under FCFS the tiers of the worker follow those of the encoder cache    *)
(* manager, however late the worker is (CpuTiersAgree, NpuBounded).        *)
(***************************************************************************)
EXTENDS EncoderCacheProofs

\* A message to the worker: a step, or a reset.
Message ==
    [kind : {"step"}, npu_freed : SUBSET Hash, cpu_freed : SUBSET Hash, promoting : SUBSET Hash, cpu_get : SUBSET Hash,
     encode : SUBSET Hash, gather : SUBSET Hash, finished : SUBSET Req, new : [Hash -> SUBSET Req]]
    \cup [kind : {"reset"}]

\* The types of what the books do not speak of.
RestTyped ==
    /\ promoting \subseteq Hash /\ cpu_get \subseteq Hash /\ npu_freed \subseteq Hash /\ cpu_freed \subseteq Hash
    /\ policy \in Policies /\ sent \subseteq Req /\ finished \subseteq Req
    /\ pass \in {"none", "running", "waiting", "closing"} /\ preempted \in BOOLEAN
    /\ scheduled \in [Req -> SUBSET Nat] /\ gathered \in [Req -> SUBSET Nat]
    /\ inbox \in Seq(Message)
    /\ encoder_cache \subseteq Hash /\ tmp_encoder_cache \subseteq Hash /\ cpu_encoder_cache \subseteq Hash
    /\ tmp_refs \in [Hash -> SUBSET Req] /\ missed \subseteq Hash

\* Between two passes the lists for the worker are empty.
NothingPending ==
    /\ scheduled = NoInputs /\ gathered = NoInputs
    /\ promoting = {} /\ cpu_get = {} /\ npu_freed = {} /\ cpu_freed = {}

\* A request runs or waits, and is listed once.
Listed ==
    /\ \A p, q \in DOMAIN running : running[p] = running[q] => p = q
    /\ \A p \in DOMAIN running : running[p] \notin waiting /\ mm[running[p]] # <<>>
    /\ \A r \in waiting : mm[r] # <<>>

\* A turn is that of a running or of a waiting request, and does not go beyond
\* its inputs.
TurnListed ==
    turn.req # NoReq => /\ \/ pass = "running" /\ \E p \in DOMAIN running : running[p] = turn.req
                           \/ pass = "waiting" /\ turn.req \in waiting
                        /\ turn.input =< Len(mm[turn.req]) + 1

\* What the step is to encode is held by its request, what it reads are inputs
\* of its request; a waiting request has nothing to encode.
Held ==
    /\ \A r \in waiting : scheduled[r] = {}
    /\ \A r \in Req : /\ scheduled[r] \subseteq request_cached_ids[r] /\ gathered[r] \subseteq DOMAIN mm[r]
                      /\ computed[r] =< Len(mm[r])

Queued == Listed /\ TurnListed /\ Held /\ (pass = "none" => NothingPending /\ req_index = 1)

\* Under FCFS a turn among the running requests is that of the next one, and
\* none from there on is scheduled yet.
InOrder ==
    pass = "running" =>
        /\ turn.req # NoReq => req_index \in DOMAIN running /\ turn.req = running[req_index]
        /\ \A p \in DOMAIN running : p >= req_index => scheduled[running[p]] = {}

\* What a message makes of the outputs in CPU memory, and at most on the NPU.
CpuAfter(o, c) == IF o.kind = "step" THEN (c \ o.cpu_freed) \cup o.encode ELSE {}
NpuAfter(o, n) == IF o.kind = "step" THEN (n \ o.npu_freed) \cup o.promoting ELSE {}

\* The messages under way lead from what the worker has in CPU memory to X, and
\* from no less than what it has on the NPU to Y.
LeadsBy(c, n, X, Y) ==
    /\ c[1] = cpu_encoder_cache /\ encoder_cache \subseteq n[1]
    /\ \A k \in 1 .. Len(inbox) : c[k + 1] = CpuAfter(inbox[k], c[k]) /\ n[k + 1] = NpuAfter(inbox[k], n[k])
    /\ c[Len(inbox) + 1] = X /\ n[Len(inbox) + 1] = Y
Leads(X, Y) == \E c, n \in [1 .. Len(inbox) + 1 -> SUBSET Hash] : LeadsBy(c, n, X, Y)

\* The lists of the pass lead from there to what the manager believes.
CpuLeads(X) == cpu_cache = (X \ cpu_freed) \cup AllHashes(scheduled)
NpuLeads(Y) == (Y \ npu_freed) \cup promoting \subseteq npu_cache

\* The pass looks at no further request.
Over ==
    \/ pass \in {"none", "closing"}
    \/ pass = "running" /\ preempted /\ turn = NoTurn /\ req_index > Len(running)

\* As long as an entry could be evicted, what the pass promotes is held by a
\* request that is not going to be a victim.
PromotedHeld ==
    Over \/ \A h \in promoting : \E r \in refs[h] :
               pass = "running" => \A p \in DOMAIN running : p > req_index => running[p] # r

\* The manager believes what the messages under way, leading to X and Y, and the
\* pass make of the tiers; on the NPU it may believe more.
Agrees(X, Y) == InOrder /\ CpuLeads(X) /\ (~FineGrainedTP => NpuLeads(Y) /\ PromotedHeld)

\* The worker follows the manager.
Follows == policy = "fcfs" => \E X, Y \in SUBSET Hash : Leads(X, Y) /\ Agrees(X, Y)

-----------------------------------------------------------------------------
(* The worker and the manager *)

\* The elements of a concatenation.
LEMMA ConcatIs ==
    ASSUME NEW S, NEW a \in Seq(S), NEW b \in Seq(S)
    PROVE  /\ Len(a \o b) = Len(a) + Len(b) /\ DOMAIN (a \o b) = 1 .. Len(a) + Len(b)
           /\ \A k \in 1 .. Len(a) + Len(b) : (a \o b)[k] = IF k =< Len(a) THEN a[k] ELSE b[k - Len(a)]
  OBVIOUS

\* Removing an element of a sequence.
LEMMA WithoutIs ==
    ASSUME NEW S, NEW s \in Seq(S), NEW p \in DOMAIN s
    PROVE  /\ Len(Without(s, p)) = Len(s) - 1
           /\ DOMAIN Without(s, p) = 1 .. Len(s) - 1
           /\ \A k \in 1 .. Len(s) - 1 : Without(s, p)[k] = IF k < p THEN s[k] ELSE s[k + 1]
<1>1. p \in 1 .. Len(s) /\ Len(s) \in Nat
  OBVIOUS
<1>2. PICK a, b : a = SubSeq(s, 1, p - 1) /\ b = SubSeq(s, p + 1, Len(s))
  BY Zenon
<1>3. a \in Seq(S) /\ Len(a) = p - 1 /\ \A k \in 1 .. p - 1 : a[k] = s[k]
  BY <1>1, <1>2
<1>4. b \in Seq(S) /\ Len(b) = Len(s) - p /\ \A k \in 1 .. Len(s) - p : b[k] = s[p + k]
  BY <1>1, <1>2
<1>5. Without(s, p) = a \o b
  BY <1>2, Zenon DEF Without
<1>6. /\ Len(a \o b) = Len(s) - 1 /\ DOMAIN (a \o b) = 1 .. Len(s) - 1
      /\ \A k \in 1 .. Len(s) - 1 : (a \o b)[k] = IF k =< p - 1 THEN a[k] ELSE b[k - (p - 1)]
  <2>1. Len(a) + Len(b) = Len(s) - 1
    BY <1>1, <1>3, <1>4
  <2>2. /\ Len(a \o b) = Len(a) + Len(b) /\ DOMAIN (a \o b) = 1 .. Len(a) + Len(b)
        /\ \A k \in 1 .. Len(a) + Len(b) : (a \o b)[k] = IF k =< Len(a) THEN a[k] ELSE b[k - Len(a)]
    BY <1>3, <1>4, ConcatIs, Zenon
  <2> QED BY <1>3, <2>1, <2>2, Zenon
<1>7. ASSUME NEW k \in 1 .. Len(s) - 1 PROVE (a \o b)[k] = IF k < p THEN s[k] ELSE s[k + 1]
  <2>1. CASE k < p
    <3>1. k \in 1 .. p - 1 /\ k =< p - 1
      BY <1>1, <2>1
    <3> QED BY <1>3, <1>6, <2>1, <3>1, Zenon
  <2>2. CASE ~(k < p)
    <3>1. k - (p - 1) \in 1 .. Len(s) - p /\ p + (k - (p - 1)) = k + 1 /\ ~(k =< p - 1)
      BY <1>1, <2>2
    <3> QED BY <1>4, <1>6, <2>2, <3>1, Zenon
  <2> QED BY <2>1, <2>2, Zenon
<1> QED BY <1>5, <1>6, <1>7, Zenon

\* What is left of a list without repetitions.
LEMMA WithoutKeeps ==
    ASSUME NEW S, NEW s \in Seq(S), NEW p \in DOMAIN s, \A i, j \in DOMAIN s : s[i] = s[j] => i = j, NEW t, t = Without(s, p)
    PROVE  /\ \A i, j \in DOMAIN t : t[i] = t[j] => i = j
           /\ \A k \in DOMAIN t : \E j \in DOMAIN s : t[k] = s[j] /\ j # p
           /\ \A j \in DOMAIN s : j # p => \E k \in DOMAIN t : t[k] = s[j]
<1>1. /\ DOMAIN s = 1 .. Len(s) /\ Len(s) \in Nat
      /\ DOMAIN t = 1 .. Len(s) - 1
      /\ \A k \in DOMAIN t : t[k] = IF k < p THEN s[k] ELSE s[k + 1]
  <2>1. DOMAIN s = 1 .. Len(s) /\ Len(s) \in Nat
    OBVIOUS
  <2> QED BY <2>1, WithoutIs, Zenon
<1>2. \A k \in DOMAIN t : \E j \in DOMAIN s : t[k] = s[j] /\ j # p /\ (k < p => j = k) /\ (~(k < p) => j = k + 1)
  <2> SUFFICES ASSUME NEW k \in DOMAIN t
               PROVE  \E j \in DOMAIN s : t[k] = s[j] /\ j # p /\ (k < p => j = k) /\ (~(k < p) => j = k + 1)
    BY Zenon
  <2>1. k \in DOMAIN s /\ k + 1 \in DOMAIN s /\ p \in Nat /\ k \in Nat
    BY <1>1
  <2>2. CASE k < p
    BY <1>1, <2>1, <2>2
  <2>3. CASE ~(k < p)
    BY <1>1, <2>1, <2>3
  <2> QED BY <2>2, <2>3, Zenon
<1>3. \A j \in DOMAIN s : j # p => \E k \in DOMAIN t : t[k] = s[j]
  <2> SUFFICES ASSUME NEW j \in DOMAIN s, j # p
               PROVE  \E k \in DOMAIN t : t[k] = s[j]
    BY Zenon
  <2>1. CASE j < p
    <3>1. j \in DOMAIN t
      BY <1>1, <2>1
    <3> QED BY <1>1, <2>1, <3>1, Zenon
  <2>2. CASE ~(j < p)
    <3>1. j - 1 \in DOMAIN t /\ ~(j - 1 < p) /\ (j - 1) + 1 = j
      BY <1>1, <2>2
    <3> QED BY <1>1, <3>1, Zenon
  <2> QED BY <2>1, <2>2, Zenon
<1>4. \A i, j \in DOMAIN t : t[i] = t[j] => i = j
  <2> SUFFICES ASSUME NEW i \in DOMAIN t, NEW j \in DOMAIN t, t[i] = t[j] PROVE i = j
    BY Zenon
  <2>1. PICK x \in DOMAIN s : t[i] = s[x] /\ (i < p => x = i) /\ (~(i < p) => x = i + 1)
    BY <1>2, Zenon
  <2>2. PICK y \in DOMAIN s : t[j] = s[y] /\ (j < p => y = j) /\ (~(j < p) => y = j + 1)
    BY <1>2, Zenon
  <2>3. x = y
    BY <2>1, <2>2, Zenon
  <2>4. i \in Nat /\ j \in Nat /\ p \in Nat
    BY <1>1
  <2> QED BY <2>1, <2>2, <2>3, <2>4
<1> QED BY <1>2, <1>3, <1>4, Zenon

\* free takes all inputs of its request, and nothing else.
LEMMA FreeTakes ==
    ASSUME NEW v \in Req, Free(v)
    PROVE  /\ \A q \in Req : request_cached_ids'[q] = IF q = v THEN {} ELSE request_cached_ids[q]
           /\ UNCHANGED listVars
<1> DEFINE ids == [NoInputs EXCEPT ![v] = request_cached_ids[v]]
<1>1. FreeEncoderInputs(ids) /\ UNCHANGED listVars
  BY Zenon DEF Free
<1>2. request_cached_ids' = [r \in Req |-> request_cached_ids[r] \ ids[r]]
  BY <1>1, Zenon DEF FreeEncoderInputs
<1>3. \A q \in Req : ids[q] = IF q = v THEN request_cached_ids[v] ELSE {}
  BY DEF NoInputs
<1> HIDE DEF ids
<1>4. \A q \in Req : request_cached_ids'[q] = request_cached_ids[q] \ ids[q]
  BY <1>2, Zenon
<1>5. request_cached_ids'[v] = {}
  BY <1>3, <1>4
<1>6. \A q \in Req \ {v} : request_cached_ids'[q] = request_cached_ids[q]
  <2>1. \A q \in Req \ {v} : ids[q] = {}
    BY <1>3, Zenon
  <2> QED BY <1>4, <2>1, Zenon
<1> QED BY <1>1, <1>5, <1>6, Zenon

\* A request arrives.
LEMMA ArriveRest ==
    ASSUME IInv, BetweenPasses, RestTyped, Queued, NEW r \in Req, Arrive(r)
    PROVE  RestTyped' /\ Queued'
<1>1. PICK f \in Features : mm' = [mm EXCEPT ![r] = f]
  BY Zenon DEF Arrive
<1>2. /\ pass = "none" /\ mm[r] = <<>> /\ waiting' = waiting \cup {r}
      /\ UNCHANGED <<managerVars, policy, running, computed, sent, finished, passVars, workerVars>>
  BY Zenon DEF Arrive, Idle
<1>3. mm'[r] = f /\ f # <<>> /\ f \in Seq(Hash) /\ \A q \in Req \ {r} : mm'[q] = mm[q]
  BY <1>1, NameAssumption, Zenon DEF IInv, Typed
<1>4. NothingPending /\ turn = NoTurn /\ turn.req = NoReq
  BY <1>2, NoTurnReq, Zenon DEF Queued, BetweenPasses
<1>5. \A p \in DOMAIN running : running[p] \in Req /\ running[p] # r
  BY <1>2 DEF Queued, Listed, IInv, Typed
<1>6. Listed'
  <2>1. \A p \in DOMAIN running : running[p] \notin waiting' /\ mm'[running[p]] # <<>>
    BY <1>2, <1>3, <1>5, Zenon DEF Queued, Listed
  <2>2. \A q \in waiting' : mm'[q] # <<>>
    BY <1>2, <1>3, Zenon DEF Queued, Listed, IInv, Typed
  <2> QED BY <1>2, <2>1, <2>2, Zenon DEF Queued, Listed
<1>7. TurnListed'
  BY <1>2, <1>4, Zenon DEF TurnListed, passVars
<1>8. Held'
  <2>1. UNCHANGED <<scheduled, gathered, computed, request_cached_ids>>
    BY <1>2, Zenon DEF passVars, managerVars, refVars
  <2>2. \A q \in Req : scheduled[q] = {} /\ gathered[q] = {}
    BY <1>4, Zenon DEF NothingPending, NoInputs
  <2>3. \A q \in Req : computed[q] =< Len(mm'[q])
    <3>1. computed[r] \in Nat /\ computed[r] =< Len(<<>>)
      BY <1>2, Zenon DEF Queued, Held, IInv, Typed
    <3>2. computed[r] =< Len(f)
      BY <1>3, <3>1
    <3> QED BY <1>3, <3>2, Zenon DEF Queued, Held
  <2>4. waiting' \subseteq Req
    BY <1>2, Zenon DEF IInv, Typed
  <2> QED BY <2>1, <2>2, <2>3, <2>4, Zenon DEF Held
<1>9. RestTyped'
  BY <1>2, Zenon DEF RestTyped, managerVars, listVars, passVars, workerVars
<1>10. NothingPending' /\ req_index' = req_index
  BY <1>2, <1>4, Zenon DEF NothingPending, managerVars, listVars, passVars
<1> QED BY <1>2, <1>6, <1>7, <1>8, <1>9, <1>10, Zenon DEF Queued

\* Only the turn, the index and the phase of the pass change.
LEMMA TurnRest ==
    ASSUME IInv, RestTyped, Queued, BeginPass \/ VisitRunning \/ VisitWaiting \/ NoNewTokens \/ NoVictim
    PROVE  RestTyped' /\ Queued'
<1>1. /\ UNCHANGED <<managerVars, requestVars, preempted, scheduled, gathered, workerVars>>
      /\ pass' \in {"running", "waiting", "closing"}
  <2>2. NoNewTokens \/ NoVictim => pass # "none"
    BY Zenon DEF Queued, TurnListed, NoNewTokens, NoVictim
  <2>3. CASE BeginPass \/ VisitRunning \/ VisitWaiting
    BY <2>3, Zenon DEF BeginPass, VisitRunning, VisitWaiting
  <2>4. CASE NoNewTokens \/ NoVictim
    BY <2>2, <2>4, Zenon DEF NoNewTokens, NoVictim, RestTyped
  <2> QED BY <2>3, <2>4, Zenon
<1>2. TurnListed'
  <2>1. CASE BeginPass \/ NoNewTokens \/ NoVictim
    <3>1. turn' = NoTurn \/ (turn' = turn /\ pass = "none")
      BY <2>1, Zenon DEF BeginPass, Idle, NoNewTokens, NoVictim
    <3>2. turn'.req = NoReq
      BY <3>1, NoTurnReq, Zenon DEF Queued, TurnListed
    <3> QED BY <3>2, Zenon DEF TurnListed
  <2>2. CASE VisitRunning
    <3>1. /\ pass = "running" /\ turn = NoTurn /\ req_index =< Len(running)
          /\ turn' = turn \/ turn' = Turn(running[req_index], computed[running[req_index]])
          /\ pass' = pass
      BY <2>2, Zenon DEF VisitRunning
    <3>2. req_index \in DOMAIN running /\ running[req_index] \in Req
      BY <3>1 DEF IInv, Typed
    <3>3. PICK r : r = running[req_index]
      BY Zenon
    <3>4. computed[r] \in Nat /\ computed[r] =< Len(mm[r]) /\ Len(mm[r]) \in Nat
      BY <3>2, <3>3 DEF Queued, Held, IInv, Typed
    <3>5. CASE turn' = Turn(r, computed[r])
      <4>1. turn'.req = r /\ turn'.input = computed[r] + 1
        BY <3>5 DEF Turn
      <4>2. computed[r] + 1 =< Len(mm[r]) + 1
        BY <3>4
      <4> QED BY <1>1, <3>1, <3>2, <3>3, <4>1, <4>2, Zenon DEF TurnListed, requestVars
    <3>6. CASE turn' = turn
      BY <3>1, <3>6, NoTurnReq, Zenon DEF TurnListed
    <3> QED BY <3>1, <3>3, <3>5, <3>6, Zenon
  <2>3. CASE VisitWaiting
    <3>5. PICK r \in waiting : \E n \in 0 .. (IF PrefixCaching THEN Len(mm[r]) ELSE 0) : turn' = Turn(r, n)
      BY <2>3, Zenon DEF VisitWaiting
    <3>1. PICK n \in 0 .. (IF PrefixCaching THEN Len(mm[r]) ELSE 0) : turn' = Turn(r, n)
      BY <3>5, Zenon
    <3>2. pass' = "waiting" /\ turn'.req = r /\ turn'.input = n + 1
      BY <2>3, <3>1 DEF VisitWaiting, Turn
    <3>3. Len(mm[r]) \in Nat
      BY DEF IInv, Typed
    <3>4. n + 1 =< Len(mm[r]) + 1
      BY <3>3
    <3> QED BY <1>1, <3>2, <3>4, Zenon DEF TurnListed, requestVars
  <2> QED BY <2>1, <2>2, <2>3, Zenon
<1>3. Listed' /\ Held'
  BY <1>1, Zenon DEF Queued, Listed, Held, managerVars, refVars, requestVars
<1>4. RestTyped'
  BY <1>1, Zenon DEF RestTyped, managerVars, listVars, requestVars, workerVars
<1> QED BY <1>1, <1>2, <1>3, <1>4, Zenon DEF Queued

\* Looking at an input evicts entries nobody holds, from the NPU those of E and
\* from the CPU those of F, and may promote one, P, that the request then holds.
LEMMA TryInputIs ==
    ASSUME IInv, TryInput
    PROVE  /\ UNCHANGED <<requestVars, pass, req_index, preempted, scheduled, gathered, workerVars>>
           /\ turn.req \in Req /\ turn'.req = turn.req
           /\ turn'.input = turn.input + 1 /\ turn.input \in Nat /\ turn.input =< Len(mm[turn.req])
           /\ \A q \in Req : request_cached_ids[q] \subseteq request_cached_ids'[q]
           /\ \A h \in Hash : refs[h] \subseteq refs'[h]
           /\ \E E \in SUBSET npu_freeable, F \in SUBSET cpu_freeable, P \in SUBSET Hash, G \in SUBSET Hash :
                 /\ npu_cache' = (npu_cache \ E) \cup P /\ cpu_cache' = cpu_cache \ F
                 /\ npu_freed' = npu_freed \cup E /\ cpu_freed' = cpu_freed \cup F
                 /\ promoting' = promoting \cup P /\ cpu_get' = cpu_get \cup G
                 /\ \A h \in P : turn.req \in refs'[h]
<1>1. PICK r, i, h : r = turn.req /\ i = turn.input /\ h = mm[r][i]
  BY Zenon
<1>2. /\ r # NoReq /\ i =< Len(mm[r])
      /\ UNCHANGED <<requestVars, pass, req_index, preempted, scheduled, gathered, workerVars>>
      /\ \/ turn' = [turn EXCEPT !.input = i + 1, !.dups = turn.dups \cup {i}] /\ UNCHANGED managerVars
         \/ CheckAndUpdateCache(r, i) /\ turn' = [turn EXCEPT !.input = i + 1]
         \/ /\ CanAllocate(h, Slots[HashesOf(r, turn.todo)])
            /\ turn' = [turn EXCEPT !.input = i + 1, !.todo = turn.todo \cup {i}]
  BY <1>1, Zenon DEF TryInput
<1>3. turn \in TurnType
  BY Zenon DEF IInv, Typed
<1>4. r \in Req /\ i \in Nat /\ i \in DOMAIN mm[r] /\ h \in Hash
  BY <1>1, <1>2, <1>3 DEF IInv, Typed, TurnType
<1>5. turn'.req = turn.req /\ turn'.input = i + 1
  <2>1. /\ [turn EXCEPT !.input = i + 1, !.dups = turn.dups \cup {i}].req = turn.req
        /\ [turn EXCEPT !.input = i + 1].req = turn.req
        /\ [turn EXCEPT !.input = i + 1, !.todo = turn.todo \cup {i}].req = turn.req
    BY <1>3 DEF TurnType
  <2>2. /\ [turn EXCEPT !.input = i + 1, !.dups = turn.dups \cup {i}].input = i + 1
        /\ [turn EXCEPT !.input = i + 1].input = i + 1
        /\ [turn EXCEPT !.input = i + 1, !.todo = turn.todo \cup {i}].input = i + 1
    BY <1>3 DEF TurnType
  <2> QED BY <1>2, <2>1, <2>2, Zenon
<1> DEFINE Evicts(E, F, P, G) ==
              /\ npu_cache' = (npu_cache \ E) \cup P /\ cpu_cache' = cpu_cache \ F
              /\ npu_freed' = npu_freed \cup E /\ cpu_freed' = cpu_freed \cup F
              /\ promoting' = promoting \cup P /\ cpu_get' = cpu_get \cup G
              /\ \A x \in P : r \in refs'[x]
           Grows == /\ \A q \in Req : request_cached_ids[q] \subseteq request_cached_ids'[q]
                    /\ \A x \in Hash : refs[x] \subseteq refs'[x]
           Some == \E E \in SUBSET npu_freeable, F \in SUBSET cpu_freeable, P \in SUBSET Hash, G \in SUBSET Hash :
                      Evicts(E, F, P, G)
<1>6. ASSUME UNCHANGED managerVars PROVE Grows /\ Some
  <2>1. Grows /\ Evicts({}, {}, {}, {})
    BY <1>6, Zenon DEF managerVars, refVars, npuVars, cpuVars, listVars
  <2> HIDE DEF Evicts, Grows
  <2> QED BY <2>1, Zenon
<1>7. ASSUME CheckAndUpdateCache(r, i) PROVE Grows /\ Some
  <2>1. /\ request_cached_ids' = [request_cached_ids EXCEPT ![r] = @ \cup {i}]
        /\ refs' = [refs EXCEPT ![h] = @ \cup {r}]
        /\ UNCHANGED <<cpu_cache, cpu_freed>>
        /\ \/ UNCHANGED <<npuVars, promoting, cpu_get, npu_freed>>
           \/ NpuHit(h)
           \/ \E E \in SUBSET npu_freeable : Promote(h, E)
           \/ CpuGet(h)
    BY <1>1, <1>7, Zenon DEF CheckAndUpdateCache
  <2>2. Grows /\ r \in refs'[h]
    <3>1. refs \in [Hash -> SUBSET Req] /\ request_cached_ids \in [Req -> SUBSET Nat]
      BY Zenon DEF IInv, Typed
    <3>2. \A q \in Req : request_cached_ids[q] \subseteq request_cached_ids'[q]
      BY <1>4, <2>1, <3>1
    <3>3. r \in refs'[h] /\ \A x \in Hash : refs[x] \subseteq refs'[x]
      BY <1>4, <2>1, <3>1
    <3> QED BY <3>2, <3>3, Zenon
  <2>3. ASSUME UNCHANGED <<npuVars, promoting, cpu_get, npu_freed>> \/ NpuHit(h) PROVE Some
    <3>1. UNCHANGED <<npu_cache, promoting, cpu_get, npu_freed>>
      BY <2>3, Zenon DEF npuVars, NpuHit
    <3>2. Evicts({}, {}, {}, {})
      BY <2>1, <3>1, Zenon
    <3> HIDE DEF Evicts
    <3> QED BY <3>2, Zenon
  <2>4. ASSUME NEW E \in SUBSET npu_freeable, Promote(h, E) PROVE Some
    <3>1. Evicts(E, {}, {h}, {})
      BY <2>1, <2>2, <2>4, Zenon DEF Promote
    <3> HIDE DEF Evicts
    <3> QED BY <1>4, <3>1, Zenon
  <2>5. ASSUME CpuGet(h) PROVE Some
    <3>1. Evicts({}, {}, {}, {h})
      BY <2>1, <2>5, Zenon DEF CpuGet, npuVars
    <3> HIDE DEF Evicts
    <3> QED BY <1>4, <3>1, Zenon
  <2> HIDE DEF Some, Grows
  <2> QED BY <2>1, <2>2, <2>3, <2>4, <2>5, Zenon
<1>8. ASSUME CanAllocate(h, Slots[HashesOf(r, turn.todo)]) PROVE Grows /\ Some
  <2>1. PICK F \in SUBSET cpu_freeable : cpu_cache' = cpu_cache \ F /\ cpu_freed' = cpu_freed \cup F
    BY <1>8, Zenon DEF CanAllocate, Evictions
  <2>2. UNCHANGED <<refs, request_cached_ids, npu_cache, promoting, cpu_get, npu_freed>>
    BY <1>8, Zenon DEF CanAllocate, npuVars
  <2>3. Grows /\ Evicts({}, F, {}, {})
    BY <2>1, <2>2, Zenon
  <2> HIDE DEF Evicts, Grows
  <2> QED BY <2>3, Zenon
<1> HIDE DEF Some, Grows
<1>9. Grows /\ Some
  BY <1>2, <1>6, <1>7, <1>8, Zenon
<1>10. /\ \A q \in Req : request_cached_ids[q] \subseteq request_cached_ids'[q]
       /\ \A x \in Hash : refs[x] \subseteq refs'[x]
  BY <1>9, Zenon DEF Grows
<1>11. \E E \in SUBSET npu_freeable, F \in SUBSET cpu_freeable, P \in SUBSET Hash, G \in SUBSET Hash :
          Evicts(E, F, P, G)
  BY <1>9, Zenon DEF Some
<1>12. turn.input \in Nat /\ turn.input =< Len(mm[turn.req]) /\ turn'.input = turn.input + 1 /\ turn.req \in Req
  BY <1>1, <1>2, <1>4, <1>5, Zenon
<1>13. UNCHANGED <<requestVars, pass, req_index, preempted, scheduled, gathered, workerVars>>
  BY <1>2, Zenon
<1> QED BY ONLY <1>1, <1>5, <1>10, <1>11, <1>12, <1>13, Zenon

\* Looking at an input keeps the lists of requests and grows what they hold.
LEMMA TryInputRest ==
    ASSUME IInv, RestTyped, Queued, TryInput
    PROVE  RestTyped' /\ Queued'
<1>1. /\ UNCHANGED <<requestVars, pass, req_index, preempted, scheduled, gathered, workerVars>>
      /\ turn.req \in Req /\ turn'.req = turn.req
      /\ turn'.input = turn.input + 1 /\ turn.input \in Nat /\ turn.input =< Len(mm[turn.req])
      /\ \A q \in Req : request_cached_ids[q] \subseteq request_cached_ids'[q]
  BY TryInputIs, Zenon
<1>2. PICK E \in SUBSET npu_freeable, F \in SUBSET cpu_freeable, P \in SUBSET Hash, G \in SUBSET Hash :
         /\ npu_freed' = npu_freed \cup E /\ cpu_freed' = cpu_freed \cup F
         /\ promoting' = promoting \cup P /\ cpu_get' = cpu_get \cup G
  BY TryInputIs, Zenon
<1>3. npu_freeable \subseteq Hash /\ cpu_freeable \subseteq Hash
  BY Zenon DEF IInv, Typed, Accounted
<1>4. promoting' \subseteq Hash /\ cpu_get' \subseteq Hash /\ npu_freed' \subseteq Hash /\ cpu_freed' \subseteq Hash
  BY <1>2, <1>3, Zenon DEF RestTyped
<1>5. RestTyped'
  BY <1>1, <1>4, Zenon DEF RestTyped, requestVars, workerVars
<1>6. Listed' /\ Held'
  BY <1>1, Zenon DEF Queued, Listed, Held, requestVars
<1>7. turn.req # NoReq /\ turn'.input =< Len(mm[turn.req]) + 1
  <2>1. Len(mm[turn.req]) \in Nat
    BY <1>1 DEF IInv, Typed
  <2> QED BY <1>1, <2>1, NameAssumption
<1>8. TurnListed' /\ pass' # "none"
  BY <1>1, <1>7, Zenon DEF Queued, TurnListed, requestVars
<1> QED BY <1>5, <1>6, <1>8, Zenon DEF Queued

\* A request that joins the running ones.
LEMMA AppendKeeps ==
    ASSUME NEW S, NEW s \in Seq(S), NEW x \in S, \A p, q \in DOMAIN s : s[p] = s[q] => p = q,
           \A p \in DOMAIN s : s[p] # x, NEW t, t = Append(s, x)
    PROVE  /\ \A p, q \in DOMAIN t : t[p] = t[q] => p = q
           /\ \A p \in DOMAIN t : t[p] = x \/ (p \in DOMAIN s /\ t[p] = s[p])
<1>1. /\ DOMAIN s = 1 .. Len(s) /\ Len(s) \in Nat /\ DOMAIN t = 1 .. Len(s) + 1
      /\ \A p \in 1 .. Len(s) : t[p] = s[p]
      /\ t[Len(s) + 1] = x
  OBVIOUS
<1>2. \A p \in DOMAIN t : p = Len(s) + 1 \/ p \in DOMAIN s
  BY <1>1
<1>4. \A p \in DOMAIN s : t[p] = s[p]
  BY <1>1, Zenon
<1>5. \A p \in DOMAIN t : (p = Len(s) + 1 /\ t[p] = x) \/ (p \in DOMAIN s /\ t[p] = s[p] /\ t[p] # x)
  BY <1>1, <1>2, <1>4, Zenon
<1>6. ASSUME NEW p \in DOMAIN t, NEW q \in DOMAIN t, t[p] = t[q] PROVE p = q
  <2>1. CASE p \in DOMAIN s /\ t[p] = s[p] /\ t[p] # x
    <3>1. q \in DOMAIN s /\ t[q] = s[q]
      BY <1>5, <1>6, <2>1, Zenon
    <3>2. s[p] = s[q]
      BY <1>6, <2>1, <3>1, Zenon
    <3> QED BY <2>1, <3>1, <3>2, Zenon
  <2>2. CASE p = Len(s) + 1 /\ t[p] = x
    BY <1>5, <1>6, <2>2, Zenon
  <2> QED BY <1>5, <2>1, <2>2, Zenon
<1> QED BY <1>5, <1>6, Zenon

\* A scheduled request allocates what its turn planned, and runs.
LEMMA ScheduledIs ==
    ASSUME IInv, RestTyped, Queued, Scheduled
    PROVE  /\ turn.req \in Req /\ turn' = NoTurn /\ pass \in {"running", "waiting"}
           /\ cpu_cache' = cpu_cache \cup HashesOf(turn.req, turn.todo)
           /\ \A q \in Req : /\ scheduled[q] \subseteq request_cached_ids'[q] /\ request_cached_ids[q] \subseteq request_cached_ids'[q]
                             /\ scheduled'[q] = scheduled[q] \/ q = turn.req
           /\ turn.todo \subseteq request_cached_ids'[turn.req]
           /\ UNCHANGED <<npu_cache, listVars, policy, mm, sent, finished, pass, preempted, workerVars>>
<1>1. PICK r : r = turn.req
  BY Zenon
<1>2. /\ r # NoReq /\ Allocate(r, turn.todo, turn.dups) /\ turn' = NoTurn
      /\ scheduled' = [scheduled EXCEPT ![r] = turn.todo]
      /\ UNCHANGED <<policy, mm, sent, finished, pass, preempted, workerVars>>
  BY <1>1, Zenon DEF Scheduled
<1>3. r \in Req /\ pass \in {"running", "waiting"}
  BY <1>1, <1>2, Zenon DEF IInv, Typed, TurnType, Queued, TurnListed
<1>4. /\ request_cached_ids' = [request_cached_ids EXCEPT ![r] = @ \cup turn.todo \cup turn.dups]
      /\ cpu_cache' = cpu_cache \cup HashesOf(r, turn.todo)
      /\ UNCHANGED <<npuVars, listVars>>
  BY <1>2, Zenon DEF Allocate
<1>5. request_cached_ids \in [Req -> SUBSET Nat]
  BY Zenon DEF IInv, Typed
<1>6. request_cached_ids'[r] = request_cached_ids[r] \cup turn.todo \cup turn.dups
  BY <1>3, <1>4, <1>5, Zenon
<1>7. \A q \in Req : q # r => request_cached_ids'[q] = request_cached_ids[q] /\ scheduled'[q] = scheduled[q]
  BY <1>2, <1>4, <1>5, Zenon DEF RestTyped
<1>8. ASSUME NEW q \in Req
      PROVE  /\ request_cached_ids[q] \subseteq request_cached_ids'[q]
             /\ scheduled'[q] = scheduled[q] \/ q = r
  BY <1>6, <1>7, Zenon
<1>9. \A q \in Req : scheduled[q] \subseteq request_cached_ids[q]
  BY Zenon DEF Queued, Held
<1>10. turn.todo \subseteq request_cached_ids'[r] /\ npu_cache' = npu_cache
  BY <1>4, <1>6, Zenon DEF npuVars
<1> QED BY <1>1, <1>2, <1>3, <1>4, <1>8, <1>9, <1>10, Zenon

\* The request runs, and the step encodes what it was allocated.
LEMMA ScheduledRest ==
    ASSUME IInv, RestTyped, Queued, Scheduled
    PROVE  RestTyped' /\ Queued'
<1>1. PICK r : r = turn.req
  BY Zenon
<1>2. /\ r \in Req /\ turn' = NoTurn /\ pass \in {"running", "waiting"}
      /\ \A q \in Req : scheduled[q] \subseteq request_cached_ids'[q]
      /\ turn.todo \subseteq request_cached_ids'[r]
      /\ UNCHANGED <<npu_cache, listVars, policy, mm, sent, finished, pass, preempted, workerVars>>
  BY <1>1, ScheduledIs, Zenon
<1>3. /\ scheduled' = [scheduled EXCEPT ![r] = turn.todo]
      /\ gathered' = [gathered EXCEPT ![r] = turn.first .. turn.input - 1]
      /\ IF pass = "running"
         THEN UNCHANGED <<running, waiting>>
         ELSE running' = Append(running, r) /\ waiting' = waiting \ {r}
  BY <1>1, Zenon DEF Scheduled
<1>4. PICK n \in {turn.input - 1, turn.input - 1 - 1} :
         n >= turn.first - 1 /\ computed' = [computed EXCEPT ![r] = n]
  BY <1>1, Zenon DEF Scheduled
<1>5. turn.first \in Nat \ {0} /\ turn.input \in Nat \ {0} /\ turn.todo \in SUBSET Nat
  BY Zenon DEF IInv, Typed, TurnType
<1>6. turn.input =< Len(mm[r]) + 1 /\ (pass = "waiting" => r \in waiting)
      /\ (pass = "running" => \E p \in DOMAIN running : running[p] = r)
  <2>1. r # NoReq
    BY <1>2, NameAssumption, Zenon
  <2>2. \/ pass = "running" /\ \E p \in DOMAIN running : running[p] = r
        \/ pass = "waiting" /\ r \in waiting
    BY <1>1, <2>1, Zenon DEF Queued, TurnListed
  <2>3. turn.input =< Len(mm[r]) + 1
    BY <1>1, <2>1, Zenon DEF Queued, TurnListed
  <2>4. "running" # "waiting"
    OBVIOUS
  <2> QED BY <2>2, <2>3, <2>4, Zenon
<1>7. Len(mm[r]) \in Nat /\ DOMAIN mm[r] = 1 .. Len(mm[r])
  BY <1>2 DEF IInv, Typed
<1>8. turn.first .. turn.input - 1 \in SUBSET Nat /\ turn.first .. turn.input - 1 \subseteq DOMAIN mm[r]
  BY <1>5, <1>6, <1>7
<1>9. n =< Len(mm[r])
  BY <1>4, <1>5, <1>6, <1>7
<1>10. RestTyped'
  <2>1. scheduled' \in [Req -> SUBSET Nat] /\ gathered' \in [Req -> SUBSET Nat]
    BY <1>3, <1>5, <1>8, Zenon DEF RestTyped
  <2> QED BY <1>2, <2>1, Zenon DEF RestTyped, listVars, workerVars
<1>11. Listed'
  <2>1. CASE pass = "running"
    BY <1>2, <1>3, <2>1, Zenon DEF Queued, Listed
  <2>2. CASE pass # "running"
    <3>1. running' = Append(running, r) /\ waiting' = waiting \ {r} /\ r \in waiting
      BY <1>2, <1>3, <1>6, <2>2, Zenon
    <3>2. running \in Seq(Req) /\ \A p \in DOMAIN running : running[p] # r
      BY <3>1, Zenon DEF IInv, Typed, Queued, Listed
    <3>3. /\ \A p, q \in DOMAIN running' : running'[p] = running'[q] => p = q
          /\ \A p \in DOMAIN running' : running'[p] = r \/ (p \in DOMAIN running /\ running'[p] = running[p])
      <4>1. \A p, q \in DOMAIN running : running[p] = running[q] => p = q
        BY Zenon DEF Queued, Listed
      <4>2. PICK t : t = running'
        BY Zenon
      <4>3. t = Append(running, r)
        BY <3>1, <4>2, Zenon
      <4>4. /\ \A p, q \in DOMAIN t : t[p] = t[q] => p = q
            /\ \A p \in DOMAIN t : t[p] = r \/ (p \in DOMAIN running /\ t[p] = running[p])
        BY ONLY <1>2, <3>2, <4>1, <4>3, AppendKeeps
      <4> QED BY <4>2, <4>4, Zenon
    <3>4. mm[r] # <<>> /\ \A p \in DOMAIN running : running[p] \notin waiting /\ mm[running[p]] # <<>>
      BY <3>1, Zenon DEF Queued, Listed
    <3>5. \A p \in DOMAIN running' : running'[p] \notin waiting' /\ mm[running'[p]] # <<>>
      BY <3>1, <3>3, <3>4, Zenon
    <3> QED BY <1>2, <3>1, <3>3, <3>5, Zenon DEF Queued, Listed
  <2> QED BY <2>1, <2>2, Zenon
<1>12. Held'
  <2>1. r \notin waiting' /\ waiting' \subseteq waiting
    <3>1. CASE pass = "running"
      <4>1. waiting' = waiting /\ \E p \in DOMAIN running : running[p] = r
        BY <1>3, <1>6, <3>1, Zenon
      <4> QED BY <4>1, Zenon DEF Queued, Listed
    <3>2. CASE pass # "running"
      BY <1>3, <3>2, Zenon
    <3> QED BY <3>1, <3>2, Zenon
  <2>2. \A q \in Req : /\ q = r => /\ scheduled'[q] = turn.todo /\ gathered'[q] = turn.first .. turn.input - 1
                                  /\ computed'[q] = n
                       /\ q # r => scheduled'[q] = scheduled[q] /\ gathered'[q] = gathered[q] /\ computed'[q] = computed[q]
    BY <1>3, <1>4, Zenon DEF RestTyped, IInv, Typed
  <2>3. \A q \in waiting' : scheduled'[q] = {}
    BY <2>1, <2>2, Zenon DEF Queued, Held, IInv, Typed
  <2>4. ASSUME NEW q \in Req
        PROVE  scheduled'[q] \subseteq request_cached_ids'[q] /\ gathered'[q] \subseteq DOMAIN mm[q] /\ computed'[q] =< Len(mm[q])
    <3>1. CASE q = r
      BY <1>2, <1>8, <1>9, <2>2, <3>1, Zenon
    <3>2. CASE q # r
      BY <1>2, <2>2, <3>2, Zenon DEF Queued, Held
    <3> QED BY <3>1, <3>2, Zenon
  <2> QED BY <1>2, <2>3, <2>4, Zenon DEF Held
<1>13. TurnListed' /\ pass' # "none"
  BY <1>2, NoTurnReq, Zenon DEF TurnListed
<1> QED BY <1>10, <1>11, <1>12, <1>13, Zenon DEF Queued

\* A victim p leaves the running requests with all it had.
LEMMA PreemptOneIs ==
    ASSUME IInv, RestTyped, Queued, PreemptOne
    PROVE  \E v \in Req, p \in DOMAIN running :
              /\ v = running[p]
              /\ policy = "fcfs" => p = Len(running)
              /\ running' = Without(running, p) /\ Free(v)
              /\ scheduled' = [scheduled EXCEPT ![v] = {}] /\ gathered' = [gathered EXCEPT ![v] = {}]
              /\ computed' = [computed EXCEPT ![v] = 0]
              /\ preempted' \in BOOLEAN /\ (preempted => preempted') /\ (~FineGrainedTP => preempted')
              /\ \/ waiting' = waiting \cup {v} /\ UNCHANGED <<mm, finished>>
                 \/ Forget(v) /\ UNCHANGED waiting
              /\ turn' = IF v = turn.req THEN NoTurn ELSE [turn EXCEPT !.closed = TRUE]
              /\ v # turn.req => req_index' = req_index - (IF p < req_index THEN 1 ELSE 0)
              /\ v = turn.req => req_index' = Len(running) \/ policy = "priority"
<1>1. PICK p \in 1 .. Len(running), fate \in Fates :
         /\ policy = "fcfs" => p = Len(running)
         /\ running' = Without(running, p)
         /\ Free(running[p])
         /\ scheduled' = [scheduled EXCEPT ![running[p]] = {}]
         /\ gathered' = [gathered EXCEPT ![running[p]] = {}]
         /\ computed' = [computed EXCEPT ![running[p]] = 0]
         /\ preempted' = (preempted \/ fate # "aborted")
         /\ \/ waiting' = waiting \cup {running[p]} /\ UNCHANGED <<mm, finished>>
            \/ Forget(running[p]) /\ UNCHANGED waiting
         /\ turn' = IF running[p] = turn.req THEN NoTurn ELSE [turn EXCEPT !.closed = TRUE]
         /\ req_index' = IF running[p] # turn.req THEN req_index - (IF p < req_index THEN 1 ELSE 0)
                         ELSE IF policy = "priority" /\ fate = "waits" THEN req_index
                         ELSE Len(running)
  BY Zenon DEF PreemptOne
<1>2. p \in DOMAIN running /\ running[p] \in Req
  BY DEF IInv, Typed
<1>3. ~FineGrainedTP => fate # "aborted"
  BY DEF Fates
<1>4. preempted' \in BOOLEAN /\ (preempted => preempted') /\ (~FineGrainedTP => preempted')
  BY <1>1, <1>3, Zenon
<1>5. /\ running[p] # turn.req => req_index' = req_index - (IF p < req_index THEN 1 ELSE 0)
      /\ running[p] = turn.req => req_index' = Len(running) \/ policy = "priority"
  BY <1>1, Zenon
<1>6. PICK v : v = running[p]
  BY Zenon
<1> QED BY <1>1, <1>2, <1>4, <1>5, <1>6, Zenon

\* The victim waits or is gone, and has nothing to do in the step.
LEMMA PreemptOneRest ==
    ASSUME IInv, IInv', RestTyped, Queued, PreemptOne
    PROVE  RestTyped' /\ Queued'
<1>1. PICK v \in Req, p \in DOMAIN running :
         /\ v = running[p]
         /\ policy = "fcfs" => p = Len(running)
         /\ running' = Without(running, p) /\ Free(v)
         /\ scheduled' = [scheduled EXCEPT ![v] = {}] /\ gathered' = [gathered EXCEPT ![v] = {}]
         /\ computed' = [computed EXCEPT ![v] = 0]
         /\ preempted' \in BOOLEAN /\ (preempted => preempted') /\ (~FineGrainedTP => preempted')
         /\ \/ waiting' = waiting \cup {v} /\ UNCHANGED <<mm, finished>>
            \/ Forget(v) /\ UNCHANGED waiting
         /\ turn' = IF v = turn.req THEN NoTurn ELSE [turn EXCEPT !.closed = TRUE]
         /\ v # turn.req => req_index' = req_index - (IF p < req_index THEN 1 ELSE 0)
         /\ v = turn.req => req_index' = Len(running) \/ policy = "priority"
  BY PreemptOneIs, Zenon
<1>2. turn.req # NoReq /\ pass = "running" /\ UNCHANGED <<policy, sent, pass, workerVars>>
  BY Zenon DEF PreemptOne
<1>3. /\ \A q \in Req : request_cached_ids'[q] = IF q = v THEN {} ELSE request_cached_ids[q]
      /\ UNCHANGED listVars
  BY <1>1, FreeTakes, Zenon
<1>4. mm' = mm \/ mm' = [mm EXCEPT ![v] = <<>>]
  BY <1>1, Zenon DEF Forget
<1>5. \A q \in Req : q # v => mm'[q] = mm[q]
  BY <1>4, Zenon DEF IInv, Typed
<1>6. /\ \A i, j \in DOMAIN running' : running'[i] = running'[j] => i = j
      /\ \A k \in DOMAIN running' : \E j \in DOMAIN running : running'[k] = running[j] /\ j # p
      /\ \A j \in DOMAIN running : j # p => \E k \in DOMAIN running' : running'[k] = running[j]
  <2>1. running \in Seq(Req) /\ \A i, j \in DOMAIN running : running[i] = running[j] => i = j
    BY Zenon DEF IInv, Typed, Queued, Listed
  <2>2. PICK t : t = running'
    BY Zenon
  <2>3. t = Without(running, p)
    BY <1>1, <2>2, Zenon
  <2>4. /\ \A i, j \in DOMAIN t : t[i] = t[j] => i = j
        /\ \A k \in DOMAIN t : \E j \in DOMAIN running : t[k] = running[j] /\ j # p
        /\ \A j \in DOMAIN running : j # p => \E k \in DOMAIN t : t[k] = running[j]
    BY ONLY <2>1, <2>3, p \in DOMAIN running, WithoutKeeps
  <2> QED BY <2>2, <2>4, Zenon
<1>7. /\ v \notin waiting /\ mm[v] # <<>> /\ waiting \subseteq Req /\ waiting' \subseteq waiting \cup {v}
      /\ v \in waiting' => mm' = mm
  <2>1. v \notin waiting /\ mm[v] # <<>> /\ waiting \subseteq Req
    <3>1. v = running[p]
      BY <1>1, Zenon
    <3> QED BY <3>1, Zenon DEF Queued, Listed, IInv, Typed
  <2>2. (waiting' = waiting \cup {v} /\ mm' = mm) \/ waiting' = waiting
    BY <1>1, Zenon
  <2> QED BY <2>1, <2>2, Zenon
<1>8. \A k \in DOMAIN running' : \E j \in DOMAIN running : running'[k] = running[j] /\ running[j] # v /\ running[j] \in Req
  <2>1. \A j \in DOMAIN running : j # p => running[j] # v /\ running[j] \in Req
    BY <1>1 DEF Queued, Listed, IInv, Typed
  <2> QED BY <1>6, <2>1, Zenon
<1>9. Listed'
  <2>1. \A k \in DOMAIN running' : running'[k] \notin waiting' /\ mm'[running'[k]] # <<>>
    <3>1. \A j \in DOMAIN running : running[j] \notin waiting /\ mm[running[j]] # <<>>
      BY Zenon DEF Queued, Listed
    <3>2. ASSUME NEW x \in Req, x # v, x \notin waiting, mm[x] # <<>> PROVE x \notin waiting' /\ mm'[x] # <<>>
      BY <1>5, <1>7, <3>2, Zenon
    <3> QED BY <1>8, <3>1, <3>2, Zenon
  <2>2. \A q \in waiting' : mm'[q] # <<>>
    BY <1>5, <1>7, Zenon DEF Queued, Listed
  <2> QED BY <1>6, <2>1, <2>2, Zenon DEF Listed
<1>10. TurnListed'
  <2>1. CASE v = turn.req
    BY <1>1, <2>1, NoTurnReq, Zenon DEF TurnListed
  <2>2. CASE v # turn.req
    <3>1. turn' = [turn EXCEPT !.closed = TRUE] /\ turn \in TurnType
      BY <1>1, <2>2, Zenon DEF IInv, Typed
    <3>2. turn'.req = turn.req /\ turn'.input = turn.input
      BY <3>1 DEF TurnType
    <3>3. PICK j \in DOMAIN running : running[j] = turn.req
      BY <1>2, Zenon DEF Queued, TurnListed
    <3>4. PICK k \in DOMAIN running' : running'[k] = running[j]
      BY <1>1, <1>6, <2>2, <3>3, Zenon
    <3>5. turn.req \in Req /\ mm'[turn.req] = mm[turn.req]
      BY <1>2, <1>5, <2>2, <3>1, Zenon DEF TurnType
    <3>6. turn.input =< Len(mm[turn.req]) + 1
      BY <1>2, Zenon DEF Queued, TurnListed
    <3>7. PICK x : x = turn.req
      BY Zenon
    <3>8. turn'.req = x /\ \E q \in DOMAIN running' : running'[q] = x
      BY <3>2, <3>3, <3>4, <3>7, Zenon
    <3>9. turn'.input =< Len(mm'[x]) + 1
      BY <3>2, <3>5, <3>6, <3>7, Zenon
    <3> QED BY <1>2, <3>8, <3>9, Zenon DEF TurnListed
  <2> QED BY <2>1, <2>2, Zenon
<1>11. Held'
  <2>1. \A q \in Req : /\ q = v => scheduled'[q] = {} /\ gathered'[q] = {} /\ computed'[q] = 0
                       /\ q # v => scheduled'[q] = scheduled[q] /\ gathered'[q] = gathered[q] /\ computed'[q] = computed[q]
    BY <1>1, Zenon DEF RestTyped, IInv, Typed
  <2>2. \A q \in waiting' : scheduled'[q] = {}
    BY <1>7, <2>1, Zenon DEF Queued, Held
  <2>3. ASSUME NEW q \in Req
        PROVE  scheduled'[q] \subseteq request_cached_ids'[q] /\ gathered'[q] \subseteq DOMAIN mm'[q] /\ computed'[q] =< Len(mm'[q])
    <3>1. CASE q = v
      <4>1. Len(mm'[v]) \in Nat
        BY DEF IInv, Typed
      <4>2. 0 =< Len(mm'[v])
        BY <4>1
      <4> QED BY <2>1, <3>1, <4>2, Zenon
    <3>2. CASE q # v
      BY <1>3, <1>5, <2>1, <3>2, Zenon DEF Queued, Held
    <3> QED BY <3>1, <3>2, Zenon
  <2> QED BY <2>2, <2>3, Zenon DEF Held
<1>12. RestTyped'
  <2>1. scheduled' \in [Req -> SUBSET Nat] /\ gathered' \in [Req -> SUBSET Nat]
    BY <1>1, Zenon DEF RestTyped
  <2>2. finished' \subseteq Req
    BY <1>1, Zenon DEF RestTyped, Forget
  <2> QED BY <1>1, <1>2, <1>3, <2>1, <2>2, Zenon DEF RestTyped, listVars, workerVars
<1> QED BY <1>2, <1>9, <1>10, <1>11, <1>12, Zenon DEF Queued

\* A waiting request without blocks has nothing to encode.
LEMMA NoBlocksRest ==
    ASSUME IInv, RestTyped, Queued, NoBlocks
    PROVE  RestTyped' /\ Queued'
<1>1. PICK r : r = turn.req
  BY Zenon
<1>2. /\ r # NoReq /\ pass = "waiting" /\ Free(r) /\ turn' = NoTurn /\ pass' = "closing"
      /\ UNCHANGED <<requestVars, req_index, preempted, scheduled, gathered, workerVars>>
  BY <1>1, Zenon DEF NoBlocks
<1>3. r \in Req /\ r \in waiting
  <2>1. "running" # "waiting"
    OBVIOUS
  <2> QED BY <1>1, <1>2, <2>1, Zenon DEF IInv, Typed, TurnType, Queued, TurnListed
<1>4. /\ \A q \in Req : request_cached_ids'[q] = IF q = r THEN {} ELSE request_cached_ids[q]
      /\ UNCHANGED listVars
  BY <1>2, <1>3, FreeTakes, Zenon
<1>5. Held'
  <2>1. \A q \in Req : scheduled[q] \subseteq request_cached_ids'[q]
    BY <1>3, <1>4, Zenon DEF Queued, Held
  <2> QED BY <1>2, <2>1, Zenon DEF Queued, Held, requestVars
<1>6. Listed'
  BY <1>2, Zenon DEF Queued, Listed, requestVars
<1>7. TurnListed'
  BY <1>2, NoTurnReq, Zenon DEF TurnListed
<1>8. RestTyped'
  BY <1>2, <1>4, Zenon DEF RestTyped, requestVars, listVars, workerVars
<1>9. pass' # "none"
  BY <1>2
<1> QED BY <1>5, <1>6, <1>7, <1>8, <1>9, Zenon DEF Queued

\* The hashes of inputs are hashes.
LEMMA AllHashesType ==
    ASSUME IInv, NEW f, \A r \in Req : f[r] \subseteq DOMAIN mm[r]
    PROVE  AllHashes(f) \subseteq Hash
<1>1. \A r \in Req : \A i \in DOMAIN mm[r] : mm[r][i] \in Hash
  BY DEF IInv, Typed
<1>2. \A r \in Req : HashesOf(r, f[r]) \subseteq Hash
  BY <1>1, Zenon DEF HashesOf
<1> QED BY <1>2, Zenon DEF AllHashes

\* What leaves with the end of a pass is a step.
LEMMA StepType ==
    ASSUME IInv, RestTyped, Queued
    PROVE  /\ AllHashes(scheduled) \subseteq Hash
           /\ Step \in Message
           /\ Step.kind = "step" /\ Step.npu_freed = npu_freed /\ Step.cpu_freed = cpu_freed
           /\ Step.promoting = promoting /\ Step.encode = AllHashes(scheduled)
<1>1. \A r \in Req : scheduled[r] \subseteq DOMAIN mm[r] /\ gathered[r] \subseteq DOMAIN mm[r]
  BY Zenon DEF IInv, Accounted, Queued, Held
<1>2. AllHashes(scheduled) \subseteq Hash /\ AllHashes(gathered) \subseteq Hash
  BY <1>1, AllHashesType, Zenon
<1>3. Members \subseteq Req
  BY DEF Members, IInv, Typed
<1>4. [h \in Hash |-> {r \in Members \ sent : h \in HashesOf(r, 1 .. Len(mm[r]))}] \in [Hash -> SUBSET Req]
  BY <1>3, Zenon
<1>5. npu_freed \subseteq Hash /\ cpu_freed \subseteq Hash /\ promoting \subseteq Hash /\ cpu_get \subseteq Hash /\ finished \subseteq Req
  BY Zenon DEF RestTyped
<1> DEFINE new == [h \in Hash |-> {r \in Members \ sent : h \in HashesOf(r, 1 .. Len(mm[r]))}]
<1>6. Step = [kind |-> "step", npu_freed |-> npu_freed, cpu_freed |-> cpu_freed,
              promoting |-> promoting, cpu_get |-> cpu_get,
              encode |-> AllHashes(scheduled), gather |-> AllHashes(gathered),
              finished |-> finished, new |-> new]
  BY Zenon DEF Step
<1> HIDE DEF new
<1>7. new \in [Hash -> SUBSET Req]
  BY <1>4, Zenon DEF new
<1>8. Step \in Message
  BY <1>2, <1>5, <1>6, <1>7 DEF Message
<1>9. /\ Step.kind = "step" /\ Step.npu_freed = npu_freed /\ Step.cpu_freed = cpu_freed
      /\ Step.promoting = promoting /\ Step.encode = AllHashes(scheduled)
  BY <1>6
<1> QED BY <1>2, <1>8, <1>9, Zenon

\* The lists leave with the step.
LEMMA EndPassRest ==
    ASSUME IInv, RestTyped, Queued, EndPass
    PROVE  RestTyped' /\ Queued'
<1>1. /\ turn = NoTurn /\ inbox' = Append(inbox, Step)
      /\ promoting' = {} /\ cpu_get' = {} /\ npu_freed' = {} /\ cpu_freed' = {}
      /\ sent' = sent \cup Members \cup finished /\ finished' = {}
      /\ pass' = "none" /\ req_index' = 1 /\ preempted' = FALSE
      /\ scheduled' = NoInputs /\ gathered' = NoInputs
      /\ UNCHANGED <<policy, mm, running, waiting, computed, turn,
                     encoder_cache, tmp_encoder_cache, cpu_encoder_cache, tmp_refs, missed>>
  BY Zenon DEF EndPass
<1>2. Step \in Message
  BY StepType, Zenon
<1>3. inbox' \in Seq(Message)
  <2>1. inbox \in Seq(Message)
    BY Zenon DEF RestTyped
  <2>2. Append(inbox, Step) \in Seq(Message)
    BY <1>2, <2>1
  <2> QED BY <1>1, <2>2, Zenon
<1>4. Members \subseteq Req
  BY DEF Members, IInv, Typed
<1>5. NoInputs \in [Req -> SUBSET Nat] /\ \A r \in Req : NoInputs[r] = {}
  BY Zenon DEF NoInputs
<1>6. RestTyped'
  <2>1. sent' \subseteq Req /\ finished' \subseteq Req
    BY <1>1, <1>4, Zenon DEF RestTyped
  <2>2. pass' \in {"none", "running", "waiting", "closing"} /\ preempted' \in BOOLEAN
    BY <1>1, Zenon
  <2>3. /\ promoting' \subseteq Hash /\ cpu_get' \subseteq Hash /\ npu_freed' \subseteq Hash /\ cpu_freed' \subseteq Hash
        /\ policy' \in Policies
    BY <1>1, Zenon DEF RestTyped
  <2> QED BY <1>1, <1>3, <1>5, <2>1, <2>2, <2>3, Zenon DEF RestTyped
<1>7. Listed'
  BY <1>1, Zenon DEF Queued, Listed
<1>8. TurnListed'
  BY <1>1, NoTurnReq, Zenon DEF TurnListed
<1>9. Held'
  <2>1. \A r \in Req : computed[r] =< Len(mm[r]) /\ waiting \subseteq Req
    BY Zenon DEF Queued, Held, IInv, Typed
  <2>2. \A r \in Req : scheduled'[r] = {} /\ gathered'[r] = {}
    BY <1>1, <1>5, Zenon
  <2> QED BY <1>1, <2>1, <2>2, Zenon DEF Held, Queued, IInv, Typed
<1>10. NothingPending' /\ req_index' = 1
  BY <1>1, Zenon DEF NothingPending, NoInputs
<1> QED BY <1>6, <1>7, <1>8, <1>9, <1>10, Zenon DEF Queued

\* A request that leaves between two passes.
LEMMA FinishRest ==
    ASSUME IInv, IInv', BetweenPasses, RestTyped, Queued, NEW v \in Req, Finish(v)
    PROVE  RestTyped' /\ Queued'
<1>1. /\ pass = "none" /\ Free(v) /\ finished' = finished \cup {v} /\ mm' = [mm EXCEPT ![v] = <<>>]
      /\ computed' = [computed EXCEPT ![v] = 0]
      /\ UNCHANGED <<policy, sent, passVars, workerVars>>
  BY Zenon DEF Finish, Idle, Forget
<1>2. NothingPending /\ req_index = 1 /\ turn = NoTurn
  BY <1>1, Zenon DEF Queued, BetweenPasses
<1>3. UNCHANGED listVars
  BY <1>1, FreeTakes, Zenon
<1>4. \A q \in Req : q # v => mm'[q] = mm[q]
  BY <1>1, Zenon DEF IInv, Typed
<1>5. Listed'
  <2>1. \A i, j \in DOMAIN running : running[i] = running[j] => i = j
    BY Zenon DEF Queued, Listed
  <2>2. /\ running \in Seq(Req) /\ waiting \subseteq Req /\ \A j \in DOMAIN running : running[j] \in Req
        /\ DOMAIN running = 1 .. Len(running)
    BY DEF IInv, Typed
  <2>3. /\ \A j \in DOMAIN running : running[j] \notin waiting /\ mm[running[j]] # <<>>
        /\ \A q \in waiting : mm[q] # <<>>
    BY Zenon DEF Queued, Listed
  <2>4. CASE \E p \in 1 .. Len(running) : running[p] = v /\ running' = Without(running, p) /\ UNCHANGED waiting
    <3>1. PICK p \in 1 .. Len(running) : running[p] = v /\ running' = Without(running, p) /\ UNCHANGED waiting
      BY <2>4, Zenon
    <3>2. PICK t : t = running'
      BY Zenon
    <3>3. t = Without(running, p) /\ p \in DOMAIN running
      BY <2>2, <3>1, <3>2, Zenon
    <3>4. /\ \A i, j \in DOMAIN t : t[i] = t[j] => i = j
          /\ \A k \in DOMAIN t : \E j \in DOMAIN running : t[k] = running[j] /\ j # p
      BY ONLY <2>1, <2>2, <3>3, WithoutKeeps
    <3>5. \A j \in DOMAIN running : j # p => running[j] # v
      BY <2>1, <3>1, <3>3, Zenon
    <3>6. v \notin waiting
      BY <2>3, <3>1, <3>3, Zenon
    <3>7. \A j \in DOMAIN running : j # p => running[j] \notin waiting' /\ mm'[running[j]] # <<>>
      BY <1>4, <2>2, <2>3, <3>1, <3>5, Zenon
    <3>8. \A k \in DOMAIN t : t[k] \notin waiting' /\ mm'[t[k]] # <<>>
      BY <3>4, <3>7, Zenon
    <3>9. \A q \in waiting' : mm'[q] # <<>>
      BY <1>4, <2>2, <2>3, <3>1, <3>6, Zenon
    <3> QED BY <3>2, <3>4, <3>8, <3>9, Zenon DEF Listed
  <2>5. CASE v \in waiting /\ waiting' = waiting \ {v} /\ UNCHANGED running
    BY <1>4, <2>1, <2>2, <2>3, <2>5, Zenon DEF Listed
  <2> QED BY <2>4, <2>5, Zenon DEF Finish
<1>6. Held'
  <2>1. \A q \in Req : scheduled'[q] = {} /\ gathered'[q] = {}
    BY <1>1, <1>2, Zenon DEF NothingPending, NoInputs, passVars
  <2>2. \A q \in Req : computed'[q] =< Len(mm'[q])
    <3>1. Len(mm'[v]) \in Nat
      BY DEF IInv, Typed
    <3>2. 0 =< Len(mm'[v])
      BY <3>1
    <3>3. computed'[v] = 0 /\ \A q \in Req : q # v => computed'[q] = computed[q]
      BY <1>1, Zenon DEF IInv, Typed
    <3> QED BY <1>4, <3>2, <3>3, Zenon DEF Queued, Held
  <2>3. waiting' \subseteq Req
    BY Zenon DEF IInv, Typed
  <2> QED BY <2>1, <2>2, <2>3, Zenon DEF Held
<1>7. TurnListed'
  BY <1>1, <1>2, NoTurnReq, Zenon DEF TurnListed, passVars
<1>8. RestTyped'
  <2>1. finished' \subseteq Req
    BY <1>1, Zenon DEF RestTyped
  <2> QED BY <1>1, <1>3, <2>1, Zenon DEF RestTyped, passVars, listVars, workerVars
<1>9. NothingPending' /\ req_index' = 1
  BY <1>1, <1>2, <1>3, Zenon DEF NothingPending, passVars, listVars
<1> QED BY <1>5, <1>6, <1>7, <1>8, <1>9, Zenon DEF Queued

\* reset empties the lists; no pass is under way.
LEMMA ResetRest ==
    ASSUME IInv, BetweenPasses, RestTyped, Queued, Reset
    PROVE  RestTyped' /\ Queued'
<1>1. /\ pass = "none" /\ promoting' = {} /\ cpu_get' = {} /\ npu_freed' = {} /\ cpu_freed' = {}
      /\ request_cached_ids' = NoInputs /\ inbox' = Append(inbox, [kind |-> "reset"])
      /\ UNCHANGED <<requestVars, passVars, encoder_cache, tmp_encoder_cache,
                     cpu_encoder_cache, tmp_refs, missed>>
  BY Zenon DEF Reset, Idle
<1>2. NothingPending /\ req_index = 1 /\ turn = NoTurn
  BY <1>1, Zenon DEF Queued, BetweenPasses
<1>3. inbox' \in Seq(Message)
  <2>1. inbox \in Seq(Message) /\ [kind |-> "reset"] \in Message
    BY DEF RestTyped, Message
  <2>2. PICK o \in Message : o = [kind |-> "reset"]
    BY <2>1, Zenon
  <2>3. Append(inbox, o) \in Seq(Message)
    BY <2>1
  <2> QED BY <1>1, <2>2, <2>3, Zenon
<1>4. RestTyped'
  BY <1>1, <1>3, Zenon DEF RestTyped, requestVars, passVars
<1>5. Listed'
  BY <1>1, Zenon DEF Queued, Listed, requestVars
<1>6. Held'
  <2>1. \A q \in Req : scheduled'[q] = {}
    BY <1>1, <1>2, Zenon DEF NothingPending, NoInputs, passVars
  <2>2. \A q \in Req : gathered'[q] \subseteq DOMAIN mm'[q] /\ computed'[q] =< Len(mm'[q])
    BY <1>1, Zenon DEF Queued, Held, passVars, requestVars
  <2>3. waiting' \subseteq Req
    BY <1>1, Zenon DEF IInv, Typed, requestVars
  <2> QED BY <2>1, <2>2, <2>3, Zenon DEF Held
<1>7. TurnListed'
  BY <1>1, <1>2, NoTurnReq, Zenon DEF TurnListed, passVars
<1>8. NothingPending' /\ req_index' = 1
  BY <1>1, <1>2, Zenon DEF NothingPending, passVars
<1> QED BY <1>4, <1>5, <1>6, <1>7, <1>8, Zenon DEF Queued

\* What a worker step reads is a message.
LEMMA HeadIs ==
    ASSUME NEW S, NEW s \in Seq(S), s # <<>>
    PROVE  /\ Head(s) \in S /\ Head(s) = s[1] /\ Tail(s) \in Seq(S) /\ Len(s) \in Nat \ {0}
           /\ Len(Tail(s)) = Len(s) - 1 /\ DOMAIN Tail(s) = 1 .. Len(s) - 1 /\ DOMAIN s = 1 .. Len(s)
           /\ \A k \in 1 .. Len(s) - 1 : Tail(s)[k] = s[k + 1]
  OBVIOUS

\* The fields of a step.
LEMMA StepFields ==
    ASSUME NEW o \in Message, o.kind = "step"
    PROVE  /\ o.npu_freed \subseteq Hash /\ o.cpu_freed \subseteq Hash /\ o.promoting \subseteq Hash /\ o.cpu_get \subseteq Hash
           /\ o.encode \subseteq Hash /\ o.gather \subseteq Hash /\ o.finished \subseteq Req /\ o.new \in [Hash -> SUBSET Req]
<1>1. ~(o \in [kind : {"reset"}])
  OBVIOUS
<1> QED BY <1>1 DEF Message

\* What a worker step makes of a message.
LEMMA WorkerIs ==
    ASSUME RestTyped, Execute \/ ResetWorker
    PROVE  /\ \E o \in Message :
                /\ inbox # <<>> /\ o = Head(inbox) /\ inbox' = Tail(inbox)
                /\ cpu_encoder_cache' = CpuAfter(o, cpu_encoder_cache)
                /\ encoder_cache' \subseteq NpuAfter(o, encoder_cache)
           /\ UNCHANGED <<managerVars, policy, mm, running, waiting, computed, finished, passVars>>
           /\ RestTyped'
<1>1. inbox # <<>> /\ inbox' = Tail(inbox) /\ inbox \in Seq(Message)
  BY Zenon DEF Execute, ResetWorker, RestTyped
<1>2. Head(inbox) \in Message /\ Tail(inbox) \in Seq(Message)
  BY <1>1, HeadIs, Zenon
<1>3. PICK o \in Message : o = Head(inbox)
  BY <1>2, Zenon
<1>4. /\ encoder_cache \subseteq Hash /\ tmp_encoder_cache \subseteq Hash /\ cpu_encoder_cache \subseteq Hash
      /\ tmp_refs \in [Hash -> SUBSET Req] /\ missed \subseteq Hash /\ sent \subseteq Req
  BY Zenon DEF RestTyped
<1>5. UNCHANGED <<managerVars, policy, mm, running, waiting, computed, finished, passVars>>
  BY Zenon DEF Execute, ResetWorker, requestVars
<1> DEFINE Moves == /\ cpu_encoder_cache' = CpuAfter(o, cpu_encoder_cache)
                    /\ encoder_cache' \subseteq NpuAfter(o, encoder_cache)
           Types == /\ encoder_cache' \subseteq Hash /\ tmp_encoder_cache' \subseteq Hash /\ cpu_encoder_cache' \subseteq Hash
                    /\ tmp_refs' \in [Hash -> SUBSET Req] /\ missed' \subseteq Hash /\ sent' \subseteq Req
<1>6. ASSUME Execute PROVE Moves /\ Types
  <2> DEFINE orphans == {h \in Hash : tmp_refs[h] # {} /\ tmp_refs[h] \subseteq o.finished}
             cpu == cpu_encoder_cache \ o.cpu_freed
             npu == (encoder_cache \ o.npu_freed) \cup (o.promoting \cap cpu)
             tmp == (tmp_encoder_cache \ orphans) \cup ((o.cpu_get \cap cpu) \ npu)
             toNpu == (o.encode \cap o.promoting) \ o.npu_freed
             npu2 == npu \cup toNpu
             tmp2 == tmp \cup (o.encode \ toNpu)
             cpu2 == cpu \cup o.encode
  <2>1. /\ o.kind = "step" /\ encoder_cache' = npu2 /\ cpu_encoder_cache' = cpu2
        /\ tmp_encoder_cache' = tmp2 \cup ((o.gather \cap cpu2) \ npu2)
        /\ missed' = missed \cup (o.gather \ (npu2 \cup tmp2 \cup cpu2))
        /\ tmp_refs' = [h \in Hash |-> (tmp_refs[h] \ o.finished) \cup o.new[h]]
        /\ sent' = sent \ o.finished
    BY <1>3, <1>6, Zenon DEF Execute
  <2>2. /\ o.npu_freed \subseteq Hash /\ o.cpu_freed \subseteq Hash /\ o.promoting \subseteq Hash /\ o.cpu_get \subseteq Hash
        /\ o.encode \subseteq Hash /\ o.gather \subseteq Hash /\ o.finished \subseteq Req /\ o.new \in [Hash -> SUBSET Req]
    BY <2>1, StepFields, Zenon
  <2>3. Moves
    <3>1. npu2 \subseteq (encoder_cache \ o.npu_freed) \cup o.promoting
      BY Zenon
    <3> QED BY <2>1, <3>1, Zenon DEF CpuAfter, NpuAfter
  <2>4. npu2 \subseteq Hash /\ cpu2 \subseteq Hash
    BY <1>4, <2>2, Zenon
  <2>5. tmp2 \subseteq Hash
    BY <1>4, <2>2, Zenon
  <2>6. \A h \in Hash : (tmp_refs[h] \ o.finished) \cup o.new[h] \in SUBSET Req
    BY <1>4, <2>2, Zenon
  <2> HIDE DEF npu2, cpu2, tmp2
  <2> QED BY <1>4, <2>1, <2>2, <2>3, <2>4, <2>5, <2>6, Zenon
<1>7. ASSUME ResetWorker PROVE Moves /\ Types
  <2>1. /\ o.kind = "reset" /\ encoder_cache' = {} /\ tmp_encoder_cache' = {} /\ cpu_encoder_cache' = {}
        /\ tmp_refs' = [h \in Hash |-> {}] /\ UNCHANGED <<missed, sent>>
    BY <1>3, <1>7, Zenon DEF ResetWorker, requestVars
  <2>2. o.kind # "step"
    BY <2>1
  <2>3. Moves
    BY <2>1, <2>2, Zenon DEF CpuAfter, NpuAfter
  <2> QED BY <1>4, <2>1, <2>3, Zenon
<1> HIDE DEF Moves
<1>8. Moves /\ Types
  BY <1>6, <1>7, Zenon
<1>9. RestTyped'
  BY <1>1, <1>2, <1>5, <1>8, Zenon DEF RestTyped, managerVars, listVars, passVars
<1> QED BY <1>1, <1>3, <1>5, <1>8, <1>9, Zenon DEF Moves

\* Every step keeps the lists of requests.
LEMMA NextRest ==
    ASSUME IInv, IInv', BetweenPasses, RestTyped, Queued, [Next]_vars
    PROVE  RestTyped' /\ Queued'
<1>1. CASE Execute \/ ResetWorker
  <2>1. UNCHANGED <<managerVars, policy, mm, running, waiting, computed, finished, passVars>> /\ RestTyped'
    BY <1>1, WorkerIs, Zenon
  <2>2. Listed' /\ TurnListed' /\ Held'
    BY <2>1, Zenon DEF Queued, Listed, TurnListed, Held, managerVars, refVars, passVars
  <2>3. NothingPending' = NothingPending
    BY <2>1, Zenon DEF NothingPending, managerVars, listVars, passVars
  <2> QED BY <2>1, <2>2, <2>3, Zenon DEF Queued, passVars
<1>2. CASE UNCHANGED vars
  <2>1. UNCHANGED <<managerVars, requestVars, passVars, workerVars>>
    BY <1>2, Zenon DEF vars
  <2>2. RestTyped'
    BY <2>1, Zenon DEF RestTyped, managerVars, listVars, requestVars, passVars, workerVars
  <2>3. Listed' /\ TurnListed' /\ Held'
    BY <2>1, Zenon DEF Queued, Listed, TurnListed, Held, managerVars, refVars, requestVars, passVars
  <2>4. NothingPending' = NothingPending
    BY <2>1, Zenon DEF NothingPending, managerVars, listVars, passVars
  <2> QED BY <2>1, <2>2, <2>3, <2>4, Zenon DEF Queued, passVars
<1>3. CASE Next /\ ~(Execute \/ ResetWorker)
  BY <1>3, ArriveRest, FinishRest, TurnRest, TryInputRest, ScheduledRest, PreemptOneRest, NoBlocksRest,
     EndPassRest, ResetRest, Zenon DEF Next
<1> QED BY <1>1, <1>2, <1>3, Zenon

\* What messages make of hashes are hashes.
LEMMA AfterType ==
    ASSUME NEW o \in Message, NEW X \in SUBSET Hash
    PROVE  CpuAfter(o, X) \in SUBSET Hash /\ NpuAfter(o, X) \in SUBSET Hash
<1>1. CASE o.kind = "step"
  BY <1>1, StepFields, Zenon DEF CpuAfter, NpuAfter
<1>2. CASE o.kind # "step"
  BY <1>2, Zenon DEF CpuAfter, NpuAfter
<1> QED BY <1>1, <1>2, Zenon

\* One more message leads further.
LEMMA LeadsAppend ==
    ASSUME RestTyped, NEW X \in SUBSET Hash, NEW Y \in SUBSET Hash, Leads(X, Y), NEW o \in Message,
           inbox' = Append(inbox, o), UNCHANGED <<cpu_encoder_cache, encoder_cache>>
    PROVE  Leads(CpuAfter(o, X), NpuAfter(o, Y))'
<1>1. PICK c \in [1 .. Len(inbox) + 1 -> SUBSET Hash], n \in [1 .. Len(inbox) + 1 -> SUBSET Hash] : LeadsBy(c, n, X, Y)
  BY Zenon DEF Leads
<1>2. PICK l \in Nat : l = Len(inbox)
  BY DEF RestTyped
<1>3. Len(inbox') = l + 1 /\ inbox'[l + 1] = o /\ \A k \in 1 .. l : inbox'[k] = inbox[k]
  <2>1. inbox \in Seq(Message)
    BY Zenon DEF RestTyped
  <2> QED BY <1>2, <2>1
<1> DEFINE c2 == [k \in 1 .. l + 1 + 1 |-> IF k = l + 2 THEN CpuAfter(o, X) ELSE c[k]]
           n2 == [k \in 1 .. l + 1 + 1 |-> IF k = l + 2 THEN NpuAfter(o, Y) ELSE n[k]]
<1>4. \A k \in 1 .. l + 1 + 1 : k = l + 2 \/ k \in 1 .. l + 1
  OBVIOUS
<1>5. c2 \in [1 .. l + 1 + 1 -> SUBSET Hash] /\ n2 \in [1 .. l + 1 + 1 -> SUBSET Hash]
  BY <1>1, <1>2, <1>4, AfterType, Zenon
<1>6. /\ \A k \in 1 .. l + 1 : k \in 1 .. l + 1 + 1 /\ k # l + 2 /\ (k # l + 1 => k \in 1 .. l)
      /\ l + 1 + 1 \in 1 .. l + 1 + 1 /\ l + 1 + 1 = l + 2 /\ 1 \in 1 .. l + 1 /\ l + 1 \in 1 .. l + 1
      /\ \A k \in 1 .. l : k + 1 \in 1 .. l + 1 /\ k \in 1 .. l + 1
  OBVIOUS
<1>7. /\ \A k \in 1 .. l + 1 : c2[k] = c[k] /\ n2[k] = n[k]
      /\ c2[l + 1 + 1] = CpuAfter(o, X) /\ n2[l + 1 + 1] = NpuAfter(o, Y)
  BY <1>6, Zenon
<1> HIDE DEF c2, n2
<1>8. /\ c[1] = cpu_encoder_cache /\ encoder_cache \subseteq n[1] /\ c[l + 1] = X /\ n[l + 1] = Y
      /\ \A k \in 1 .. l : c[k + 1] = CpuAfter(inbox[k], c[k]) /\ n[k + 1] = NpuAfter(inbox[k], n[k])
  BY <1>1, <1>2, Zenon DEF LeadsBy
<1>9. \A k \in 1 .. l + 1 : c2[k + 1] = CpuAfter(inbox'[k], c2[k]) /\ n2[k + 1] = NpuAfter(inbox'[k], n2[k])
  <2> SUFFICES ASSUME NEW k \in 1 .. l + 1
               PROVE  c2[k + 1] = CpuAfter(inbox'[k], c2[k]) /\ n2[k + 1] = NpuAfter(inbox'[k], n2[k])
    BY Zenon
  <2>1. CASE k = l + 1
    BY <1>3, <1>6, <1>7, <1>8, <2>1, Zenon
  <2>2. CASE k # l + 1
    <3>1. k \in 1 .. l /\ k + 1 \in 1 .. l + 1
      BY <1>6, <2>2, Zenon
    <3> QED BY <1>3, <1>7, <1>8, <3>1, Zenon
  <2> QED BY <2>1, <2>2, Zenon
<1>10. LeadsBy(c2, n2, CpuAfter(o, X), NpuAfter(o, Y))'
  BY <1>3, <1>6, <1>7, <1>8, <1>9, Zenon DEF LeadsBy
<1>11. \E d, m \in [1 .. Len(inbox') + 1 -> SUBSET Hash] : LeadsBy(d, m, CpuAfter(o, X), NpuAfter(o, Y))'
  BY <1>3, <1>5, <1>10, Zenon
<1> QED BY <1>11, Zenon DEF Leads

\* The worker takes the first message.
LEMMA LeadsTail ==
    ASSUME RestTyped, NEW X \in SUBSET Hash, NEW Y \in SUBSET Hash, Leads(X, Y), NEW o \in Message,
           inbox # <<>>, o = Head(inbox), inbox' = Tail(inbox),
           cpu_encoder_cache' = CpuAfter(o, cpu_encoder_cache), encoder_cache' \subseteq NpuAfter(o, encoder_cache)
    PROVE  Leads(X, Y)'
<1>1. PICK c \in [1 .. Len(inbox) + 1 -> SUBSET Hash], n \in [1 .. Len(inbox) + 1 -> SUBSET Hash] : LeadsBy(c, n, X, Y)
  BY Zenon DEF Leads
<1>2. /\ Head(inbox) = inbox[1] /\ Len(inbox) \in Nat \ {0}
      /\ Len(Tail(inbox)) = Len(inbox) - 1 /\ \A k \in 1 .. Len(inbox) - 1 : Tail(inbox)[k] = inbox[k + 1]
  BY HeadIs, Zenon DEF RestTyped
<1>3. PICK l \in Nat : l = Len(inbox) - 1 /\ l + 1 = Len(inbox)
  <2>1. Len(inbox) - 1 \in Nat /\ (Len(inbox) - 1) + 1 = Len(inbox)
    <3>1. Len(inbox) \in Nat \ {0}
      BY <1>2, Zenon
    <3> QED BY <3>1
  <2> QED BY <2>1, Zenon
<1>4. Len(inbox') = l /\ inbox[1] = o /\ \A k \in 1 .. l : inbox'[k] = inbox[k + 1]
  BY <1>2, <1>3, Zenon
<1> DEFINE c2 == [k \in 1 .. l + 1 |-> c[k + 1]]
           n2 == [k \in 1 .. l + 1 |-> n[k + 1]]
<1>5. /\ \A k \in 1 .. l + 1 : k + 1 \in 1 .. l + 1 + 1 /\ k \in 1 .. l + 1 + 1
      /\ \A k \in 1 .. l : k + 1 \in 1 .. l + 1 /\ k \in 1 .. l + 1
      /\ 1 \in 1 .. l + 1 /\ l + 1 \in 1 .. l + 1
  OBVIOUS
<1>6. c2 \in [1 .. l + 1 -> SUBSET Hash] /\ n2 \in [1 .. l + 1 -> SUBSET Hash]
  BY <1>1, <1>3, <1>5, Zenon
<1>7. /\ c[1] = cpu_encoder_cache /\ encoder_cache \subseteq n[1] /\ c[l + 1 + 1] = X /\ n[l + 1 + 1] = Y
      /\ \A k \in 1 .. l + 1 : c[k + 1] = CpuAfter(inbox[k], c[k]) /\ n[k + 1] = NpuAfter(inbox[k], n[k])
  BY <1>1, <1>3, Zenon DEF LeadsBy
<1>8. \A k \in 1 .. l + 1 : c2[k] = c[k + 1] /\ n2[k] = n[k + 1]
  BY Zenon
<1> HIDE DEF c2, n2
<1>9. \A k \in 1 .. l : c2[k + 1] = CpuAfter(inbox'[k], c2[k]) /\ n2[k + 1] = NpuAfter(inbox'[k], n2[k])
  <2> SUFFICES ASSUME NEW k \in 1 .. l
               PROVE  c2[k + 1] = CpuAfter(inbox'[k], c2[k]) /\ n2[k + 1] = NpuAfter(inbox'[k], n2[k])
    BY Zenon
  <2>1. k + 1 \in 1 .. l + 1 /\ k \in 1 .. l + 1
    BY <1>5, Zenon
  <2>2. c2[k + 1] = c[k + 1 + 1] /\ n2[k + 1] = n[k + 1 + 1] /\ c2[k] = c[k + 1] /\ n2[k] = n[k + 1]
    BY <1>8, <2>1, Zenon
  <2>3. c[k + 1 + 1] = CpuAfter(inbox[k + 1], c[k + 1]) /\ n[k + 1 + 1] = NpuAfter(inbox[k + 1], n[k + 1])
    BY <1>7, <2>1, Zenon
  <2> QED BY <1>4, <2>2, <2>3, Zenon
<1>10. c2[1] = CpuAfter(o, cpu_encoder_cache) /\ NpuAfter(o, encoder_cache) \subseteq n2[1]
  <2>1. c2[1] = CpuAfter(o, c[1]) /\ n2[1] = NpuAfter(o, n[1])
    BY <1>4, <1>5, <1>7, <1>8, Zenon
  <2>2. NpuAfter(o, encoder_cache) \subseteq NpuAfter(o, n[1])
    BY <1>7, Zenon DEF NpuAfter
  <2> QED BY <1>7, <2>1, <2>2, Zenon
<1>11. LeadsBy(c2, n2, X, Y)'
  BY <1>4, <1>5, <1>7, <1>8, <1>9, <1>10, Zenon DEF LeadsBy
<1>12. \E d, m \in [1 .. Len(inbox') + 1 -> SUBSET Hash] : LeadsBy(d, m, X, Y)'
  BY <1>4, <1>6, <1>11, Zenon
<1> QED BY <1>12, Zenon DEF Leads

\* Nothing sent, nothing read.
LEMMA LeadsSame ==
    ASSUME NEW X, NEW Y, Leads(X, Y), UNCHANGED <<inbox, cpu_encoder_cache, encoder_cache>>
    PROVE  Leads(X, Y)'
  BY Zenon DEF Leads, LeadsBy

\* A request is looked at only while the pass is not over.
LEMMA TurnNotOver == turn.req # NoReq /\ TurnListed => ~Over
<1>1. "running" \notin {"none", "closing"} /\ "waiting" \notin {"none", "closing"}
  OBVIOUS
<1> QED BY <1>1, NoTurnReq, Zenon DEF Over, TurnListed

\* Where the tiers and the lists stay, the manager's belief does.
LEMMA LeadsStay ==
    ASSUME NEW X, NEW Y, AllHashes(scheduled)' = AllHashes(scheduled), UNCHANGED <<cpu_cache, npu_cache, listVars>>
    PROVE  CpuLeads(X)' = CpuLeads(X) /\ NpuLeads(Y)' = NpuLeads(Y)
  BY Zenon DEF CpuLeads, NpuLeads, listVars

\* What a step is to encode.
LEMMA HashesAre ==
    /\ \A h : h \in AllHashes(scheduled) <=> \E q \in Req : \E i \in scheduled[q] : h = mm[q][i]
    /\ \A h : h \in AllHashes(scheduled)' <=> \E q \in Req : \E i \in scheduled'[q] : h = mm'[q][i]
    /\ UNCHANGED <<mm, scheduled>> => AllHashes(scheduled)' = AllHashes(scheduled)
<1>1. \A h : h \in AllHashes(scheduled) <=> \E q \in Req : \E i \in scheduled[q] : h = mm[q][i]
  BY DEF AllHashes, HashesOf
<1>2. \A h : h \in AllHashes(scheduled)' <=> \E q \in Req : \E i \in scheduled'[q] : h = mm'[q][i]
  BY DEF AllHashes, HashesOf
<1>3. ASSUME UNCHANGED <<mm, scheduled>> PROVE AllHashes(scheduled)' = AllHashes(scheduled)
  <2>1. mm' = mm /\ scheduled' = scheduled
    BY <1>3, Zenon
  <2> QED BY <2>1 DEF AllHashes, HashesOf
<1> QED BY <1>1, <1>2, <1>3, Zenon

\* Nothing is to be encoded when nothing is scheduled.
LEMMA NoneScheduled ==
    scheduled = NoInputs => AllHashes(scheduled) = {}
<1>1. \A r \in Req : NoInputs[r] = {}
  BY Zenon DEF NoInputs
<1> QED BY <1>1, Zenon DEF AllHashes, HashesOf

\* Between two passes: arrivals and departures.
LEMMA IdleAgrees ==
    ASSUME IInv, Queued, Queued', NEW X, NEW Y, Agrees(X, Y), NEW r \in Req, Arrive(r) \/ Finish(r)
    PROVE  Agrees(X, Y)'
<1>1. pass = "none" /\ pass' = "none"
  BY Zenon DEF Arrive, Finish, Idle, passVars
<1>2. UNCHANGED <<cpu_cache, npu_cache, listVars>>
  <2>1. CASE Arrive(r)
    BY <2>1, Zenon DEF Arrive, managerVars, cpuVars, npuVars
  <2>2. CASE Finish(r)
    <3>1. Free(r)
      BY <2>2, Zenon DEF Finish
    <3> QED BY <3>1, Zenon DEF Free, FreeEncoderInputs
  <2> QED BY <2>1, <2>2, Zenon
<1>3. AllHashes(scheduled) = {}
  BY <1>1, NoneScheduled, Zenon DEF Queued, NothingPending
<1>4. AllHashes(scheduled)' = {}
  <2>1. scheduled' = NoInputs
    BY <1>1, Zenon DEF Queued, NothingPending, NoInputs
  <2>2. \A q \in Req : NoInputs[q] = {}
    BY Zenon DEF NoInputs
  <2> QED BY <2>1, <2>2, Zenon DEF AllHashes, HashesOf
<1>5. CpuLeads(X)' = CpuLeads(X) /\ NpuLeads(Y)' = NpuLeads(Y)
  BY <1>2, <1>3, <1>4, LeadsStay, Zenon
<1>6. "none" # "running"
  OBVIOUS
<1>7. InOrder' /\ PromotedHeld'
  BY <1>1, <1>6, Zenon DEF InOrder, PromotedHeld, Over
<1> QED BY <1>5, <1>7, Zenon DEF Agrees

\* The steps of a pass that only move on.
LEMMA TurnAgrees ==
    ASSUME IInv, RestTyped, Queued, NEW X, NEW Y, Agrees(X, Y),
           BeginPass \/ VisitRunning \/ VisitWaiting \/ NoNewTokens \/ NoVictim \/ NoBlocks
    PROVE  Agrees(X, Y)'
<1>1. UNCHANGED <<requestVars, cpu_cache, npu_cache, listVars, scheduled, preempted>>
  <2>1. CASE BeginPass \/ VisitRunning \/ VisitWaiting \/ NoNewTokens \/ NoVictim
    BY <2>1, Zenon DEF BeginPass, VisitRunning, VisitWaiting, NoNewTokens, NoVictim, managerVars, cpuVars, npuVars
  <2>2. CASE NoBlocks
    <3>1. Free(turn.req) /\ UNCHANGED <<requestVars, scheduled, preempted>>
      BY <2>2, Zenon DEF NoBlocks
    <3> QED BY <3>1, Zenon DEF Free, FreeEncoderInputs
  <2> QED BY <2>1, <2>2, Zenon
<1>2. AllHashes(scheduled)' = AllHashes(scheduled)
  <2>1. UNCHANGED <<mm, scheduled>>
    BY <1>1, Zenon DEF requestVars
  <2> QED BY <2>1, HashesAre, Zenon
<1>3. CpuLeads(X)' = CpuLeads(X) /\ NpuLeads(Y)' = NpuLeads(Y)
  BY <1>1, <1>2, LeadsStay, Zenon
<1>4. /\ InOrder
      /\ ~FineGrainedTP => PromotedHeld
      /\ "running" \notin {"none", "closing", "waiting"} /\ "waiting" \notin {"none", "closing"}
  BY DEF Agrees
<1>5. ASSUME BeginPass PROVE InOrder' /\ PromotedHeld'
  <2>1. pass = "none" /\ pass' = "running" /\ UNCHANGED <<turn, scheduled, promoting>>
    BY <1>5, Zenon DEF BeginPass, Idle, managerVars, listVars
  <2>2. scheduled' = NoInputs /\ promoting' = {} /\ turn'.req = NoReq
    <3>1. turn.req = NoReq
      BY <1>4, <2>1, Zenon DEF Queued, TurnListed
    <3> QED BY <2>1, <3>1, Zenon DEF Queued, NothingPending, NoInputs
  <2>3. \A p \in DOMAIN running : NoInputs[running[p]] = {} /\ running' = running
    <3>1. \A p \in DOMAIN running : running[p] \in Req
      BY DEF IInv, Typed
    <3> QED BY <1>1, <3>1, Zenon DEF NoInputs, requestVars
  <2>4. scheduled = NoInputs /\ UNCHANGED <<scheduled, running>>
    BY <1>1, <2>1, Zenon DEF Queued, NothingPending, requestVars
  <2>5. \A p \in DOMAIN running' : scheduled'[running'[p]] = {}
    BY <2>3, <2>4, Zenon
  <2> QED BY <2>2, <2>5, Zenon DEF InOrder, PromotedHeld
<1>6. ASSUME (NoNewTokens /\ pass # "running") \/ NoBlocks PROVE InOrder' /\ PromotedHeld'
  <2>1. pass' = "closing"
    BY <1>6, Zenon DEF NoNewTokens, NoBlocks
  <2>2. pass' # "running"
    BY <2>1
  <2> QED BY <2>1, <2>2, Zenon DEF InOrder, PromotedHeld, Over
<1>7. ASSUME VisitRunning \/ VisitWaiting \/ (NoNewTokens /\ pass = "running") \/ NoVictim
      PROVE  InOrder' /\ (~FineGrainedTP => PromotedHeld')
  <2>1. UNCHANGED <<refs, running, scheduled, promoting, preempted>>
    BY <1>1, <1>7, Zenon DEF VisitRunning, VisitWaiting, NoNewTokens, NoVictim, managerVars, refVars, requestVars, listVars
  <2>2. req_index \in Nat /\ Len(running) \in Nat /\ DOMAIN running = 1 .. Len(running)
    BY DEF IInv, Typed
  <2>3. ~Over
    <3>1. CASE VisitRunning
      <4>1. pass = "running" /\ req_index =< Len(running)
        BY <3>1, Zenon DEF VisitRunning
      <4>2. ~(req_index > Len(running))
        BY <2>2, <4>1
      <4> QED BY <1>4, <4>1, <4>2, Zenon DEF Over
    <3>2. CASE VisitWaiting
      BY <1>4, <3>2, Zenon DEF VisitWaiting, Over
    <3>3. CASE NoNewTokens \/ NoVictim
      BY <3>3, TurnNotOver, Zenon DEF NoNewTokens, NoVictim, Queued
    <3> QED BY <1>7, <3>1, <3>2, <3>3, Zenon
  <2>4. pass' = "running" => pass = "running" /\ req_index' \in Nat /\ req_index' >= req_index
    <3>1. req_index >= req_index /\ req_index + 1 \in Nat /\ req_index + 1 >= req_index /\ Len(running) + 1 \in Nat
      BY <2>2
    <3>2. CASE VisitRunning \/ (NoNewTokens /\ pass = "running")
      BY <2>2, <3>1, <3>2, Zenon DEF VisitRunning, NoNewTokens
    <3>3. CASE VisitWaiting
      BY <1>4, <3>3, Zenon DEF VisitWaiting
    <3>4. CASE NoVictim
      <4>1. /\ pass = "running" /\ req_index' = Len(running) + 1 /\ turn.req # NoReq
        BY <3>4, Zenon DEF NoVictim
      <4>2. req_index \in DOMAIN running
        BY <1>4, <4>1, Zenon DEF InOrder
      <4> QED BY <2>2, <4>1, <4>2
    <3> QED BY <1>7, <3>2, <3>3, <3>4, Zenon
  <2>5. ASSUME pass' = "running", NEW p \in DOMAIN running PROVE p >= req_index' => p >= req_index
    BY <2>2, <2>4, <2>5
  <2>6. ASSUME pass' = "running", NEW p \in DOMAIN running PROVE p > req_index' => p > req_index
    BY <2>2, <2>4, <2>6
  <2>7. ASSUME pass' = "running", turn'.req # NoReq
        PROVE  req_index' \in DOMAIN running /\ turn'.req = running[req_index']
    <3>1. VisitRunning \/ turn' = NoTurn
      BY <1>4, <1>7, <2>7, Zenon DEF VisitWaiting, NoNewTokens, NoVictim
    <3>2. VisitRunning /\ turn # turn'
      BY <2>7, <3>1, NoTurnReq, Zenon DEF VisitRunning
    <3>3. /\ req_index =< Len(running) /\ UNCHANGED req_index
          /\ turn' = Turn(running[req_index], computed[running[req_index]])
      BY <3>2, Zenon DEF VisitRunning
    <3>4. turn'.req = running[req_index]
      BY <3>3 DEF Turn
    <3>5. req_index \in DOMAIN running
      BY <3>3 DEF IInv, Typed
    <3> QED BY <3>3, <3>4, <3>5, Zenon
  <2>8. InOrder'
    <3>1. ASSUME pass' = "running" PROVE \A p \in DOMAIN running : p >= req_index' => scheduled[running[p]] = {}
      BY <1>4, <2>4, <2>5, <3>1, Zenon DEF InOrder
    <3>2. PICK run, sch : run = running /\ sch = scheduled
      BY Zenon
    <3>3. running' = run /\ scheduled' = sch
      BY <2>1, <3>2, Zenon
    <3>4. ASSUME pass' = "running"
          PROVE  /\ turn'.req # NoReq => req_index' \in DOMAIN run /\ turn'.req = run[req_index']
                 /\ \A p \in DOMAIN run : p >= req_index' => sch[run[p]] = {}
      BY <2>7, <3>1, <3>2, <3>4, Zenon
    <3> QED BY <3>3, <3>4, Zenon DEF InOrder
  <2>9. ASSUME ~FineGrainedTP PROVE PromotedHeld'
    <3>1. \A h \in promoting : \E r \in refs[h] : pass = "running" => \A p \in DOMAIN running : p > req_index => running[p] # r
      BY <1>4, <2>3, <2>9, Zenon DEF PromotedHeld
    <3>2. \A h \in promoting : \E r \in refs[h] : pass' = "running" => \A p \in DOMAIN running : p > req_index' => running[p] # r
      BY <2>4, <2>6, <3>1, Zenon
    <3> QED BY <2>1, <3>2, Zenon DEF PromotedHeld
  <2> QED BY <2>8, <2>9, Zenon
<1>8. InOrder' /\ (~FineGrainedTP => PromotedHeld')
  BY <1>5, <1>6, <1>7, Zenon
<1> QED BY <1>3, <1>8, Zenon DEF Agrees

\* What the step is to encode is held, so it is not reclaimable.
LEMMA ScheduledHeld ==
    ASSUME IInv, Queued
    PROVE  cpu_freeable \cap AllHashes(scheduled) = {}
<1> SUFFICES ASSUME NEW h \in cpu_freeable, h \in AllHashes(scheduled) PROVE FALSE
  BY Zenon
<1>1. PICK q \in Req : \E i \in scheduled[q] : h = mm[q][i]
  BY HashesAre, Zenon
<1>2. PICK i \in scheduled[q] : h = mm[q][i]
  BY <1>1, Zenon
<1>3. i \in request_cached_ids[q]
  BY Zenon DEF Queued, Held
<1>4. h \in HashesOf(q, request_cached_ids[q])
  BY <1>2, <1>3, Zenon DEF HashesOf
<1>5. h \in Hash /\ refs[h] = {}
  BY Zenon DEF IInv, Typed, Accounted
<1>6. q \in refs[h]
  BY <1>4, <1>5, Zenon DEF IInv, Accounted
<1> QED BY <1>5, <1>6, Zenon

\* Looking at an input evicts nothing that the step encodes or promotes.
LEMMA TryInputAgrees ==
    ASSUME IInv, RestTyped, Queued, NEW X, NEW Y, Agrees(X, Y), TryInput
    PROVE  Agrees(X, Y)'
<1>1. /\ UNCHANGED <<requestVars, pass, req_index, preempted, scheduled, gathered, workerVars>>
      /\ turn.req \in Req /\ turn'.req = turn.req
      /\ \A h \in Hash : refs[h] \subseteq refs'[h]
  BY TryInputIs, Zenon
<1>2. PICK r : r = turn.req
  BY Zenon
<1>3. PICK E \in SUBSET npu_freeable, F \in SUBSET cpu_freeable, P \in SUBSET Hash, G \in SUBSET Hash :
         /\ npu_cache' = (npu_cache \ E) \cup P /\ cpu_cache' = cpu_cache \ F
         /\ npu_freed' = npu_freed \cup E /\ cpu_freed' = cpu_freed \cup F
         /\ promoting' = promoting \cup P /\ cpu_get' = cpu_get \cup G
         /\ \A h \in P : turn.req \in refs'[h]
  BY TryInputIs, Zenon
<1>4. turn.req # NoReq /\ ~Over /\ InOrder /\ CpuLeads(X)
  BY <1>1, NameAssumption, TurnNotOver, Zenon DEF Queued, Agrees
<1>5. UNCHANGED <<mm, running, scheduled>>
  BY <1>1, Zenon DEF requestVars
<1>6. InOrder'
  BY <1>1, <1>4, <1>5, Zenon DEF InOrder
<1>7. CpuLeads(X)'
  <2>1. AllHashes(scheduled)' = AllHashes(scheduled)
    BY <1>5, HashesAre, Zenon
  <2>2. PICK A : A = AllHashes(scheduled) /\ F \cap A = {}
    BY ScheduledHeld, Zenon
  <2>3. cpu_cache = (X \ cpu_freed) \cup A
    BY <1>4, <2>2, Zenon DEF CpuLeads
  <2>4. cpu_cache \ F = (X \ (cpu_freed \cup F)) \cup A
    BY <2>2, <2>3
  <2> QED BY <1>3, <2>1, <2>2, <2>4, Zenon DEF CpuLeads
<1>8. ASSUME ~FineGrainedTP PROVE NpuLeads(Y)' /\ PromotedHeld'
  <2>1. \A h \in promoting : \E q \in refs[h] : pass = "running" => \A p \in DOMAIN running : p > req_index => running[p] # q
    BY <1>4, <1>8, Zenon DEF Agrees, PromotedHeld
  <2>2. promoting \cap E = {}
    <3>1. \A h \in npu_freeable : refs[h] = {}
      BY Zenon DEF IInv, Accounted
    <3> QED BY <2>1, <3>1, Zenon
  <2>3. (Y \ npu_freed) \cup promoting \subseteq npu_cache
    BY <1>8, Zenon DEF Agrees, NpuLeads
  <2>4. (Y \ (npu_freed \cup E)) \cup (promoting \cup P) \subseteq (npu_cache \ E) \cup P
    BY <2>2, <2>3
  <2>5. NpuLeads(Y)'
    BY <1>3, <2>4, Zenon DEF NpuLeads
  <2>6. pass = "running" => \A p \in DOMAIN running : p > req_index => running[p] # r
    <3> SUFFICES ASSUME pass = "running", NEW p \in DOMAIN running, p > req_index, running[p] = r PROVE FALSE
      BY Zenon
    <3>1. req_index \in DOMAIN running /\ r = running[req_index]
      BY <1>2, <1>4, Zenon DEF InOrder
    <3>2. p = req_index
      BY <3>1, Zenon DEF Queued, Listed
    <3>3. req_index \in Nat
      BY Zenon DEF IInv, Typed
    <3> QED BY <3>2, <3>3
  <2>7. \A h \in promoting \cup P :
           \E q \in refs'[h] : pass = "running" => \A p \in DOMAIN running : p > req_index => running[p] # q
    <3>1. promoting \subseteq Hash
      BY Zenon DEF RestTyped
    <3>2. ASSUME NEW h \in promoting
          PROVE  \E q \in refs'[h] : pass = "running" => \A p \in DOMAIN running : p > req_index => running[p] # q
      BY <1>1, <2>1, <3>1, Zenon
    <3>3. ASSUME NEW h \in P
          PROVE  \E q \in refs'[h] : pass = "running" => \A p \in DOMAIN running : p > req_index => running[p] # q
      BY <1>2, <1>3, <2>6, Zenon
    <3> QED BY <3>2, <3>3, Zenon
  <2>8. PromotedHeld'
    BY <1>1, <1>3, <1>5, <2>7, Zenon DEF PromotedHeld
  <2> QED BY <2>5, <2>8, Zenon
<1> QED BY <1>6, <1>7, <1>8, Zenon DEF Agrees

\* What a scheduled request is allocated is what the step encodes for it.
LEMMA ScheduledAgrees ==
    ASSUME IInv, RestTyped, Queued, NEW X, NEW Y, Agrees(X, Y), Scheduled
    PROVE  Agrees(X, Y)'
<1>1. PICK r, todo : r = turn.req /\ todo = turn.todo
  BY Zenon
<1>2. /\ r \in Req /\ turn' = NoTurn /\ pass \in {"running", "waiting"}
      /\ cpu_cache' = cpu_cache \cup HashesOf(r, todo)
      /\ UNCHANGED <<npu_cache, listVars, policy, mm, sent, finished, pass, preempted, workerVars>>
  BY <1>1, ScheduledIs, Zenon
<1>3. /\ scheduled' = [scheduled EXCEPT ![r] = todo]
      /\ pass = "running" => req_index' = req_index + 1 /\ UNCHANGED <<running, waiting>>
      /\ Allocate(r, todo, turn.dups)
  BY <1>1, Zenon DEF Scheduled
<1>4. r # NoReq /\ ~Over /\ InOrder /\ CpuLeads(X) /\ "waiting" # "running"
  <2>1. r # NoReq
    BY <1>2, NameAssumption, Zenon
  <2>2. "waiting" # "running"
    OBVIOUS
  <2> QED BY <1>1, <2>1, <2>2, TurnNotOver, Zenon DEF Queued, Agrees
<1>5. scheduled[r] = {}
  <2>1. CASE pass = "running"
    <3>1. req_index \in DOMAIN running /\ r = running[req_index] /\ req_index >= req_index
      <4>1. req_index >= req_index
        BY DEF IInv, Typed
      <4> QED BY <1>1, <1>4, <2>1, <4>1, Zenon DEF InOrder
    <3> QED BY <1>4, <2>1, <3>1, Zenon DEF InOrder
  <2>2. CASE pass = "waiting"
    BY <1>1, <1>4, <2>2, Zenon DEF Queued, TurnListed, Held
  <2> QED BY <1>2, <2>1, <2>2, Zenon
<1>6. scheduled'[r] = todo /\ \A q \in Req : q # r => scheduled'[q] = scheduled[q]
  BY <1>2, <1>3, Zenon DEF RestTyped
<1>7. AllHashes(scheduled)' = AllHashes(scheduled) \cup HashesOf(r, todo)
  <2>1. \A h : h \in HashesOf(r, todo) <=> \E i \in todo : h = mm[r][i]
    BY Zenon DEF HashesOf
  <2>2. mm' = mm
    BY <1>2, Zenon
  <2>3. ASSUME NEW h \in AllHashes(scheduled)' PROVE h \in AllHashes(scheduled) \cup HashesOf(r, todo)
    <3>1. PICK q \in Req : \E i \in scheduled'[q] : h = mm'[q][i]
      BY HashesAre, Zenon
    <3>2. PICK i \in scheduled'[q] : h = mm[q][i]
      BY <2>2, <3>1, Zenon
    <3>3. CASE q = r
      BY <1>6, <2>1, <3>2, <3>3, Zenon
    <3>4. CASE q # r
      BY <1>6, <3>2, <3>4, HashesAre, Zenon
    <3> QED BY <3>3, <3>4, Zenon
  <2>4. ASSUME NEW h \in AllHashes(scheduled) PROVE h \in AllHashes(scheduled)'
    <3>1. PICK q \in Req : \E i \in scheduled[q] : h = mm[q][i]
      BY HashesAre, Zenon
    <3>2. q # r
      BY <1>5, <3>1, Zenon
    <3>3. \E i \in scheduled'[q] : h = mm'[q][i]
      BY <1>6, <2>2, <3>1, <3>2, Zenon
    <3> QED BY <3>3, HashesAre, Zenon
  <2>5. ASSUME NEW h \in HashesOf(r, todo) PROVE h \in AllHashes(scheduled)'
    <3>1. \E i \in scheduled'[r] : h = mm'[r][i]
      BY <1>6, <2>1, <2>2, Zenon
    <3> QED BY <1>2, <3>1, HashesAre, Zenon
  <2> QED BY <2>3, <2>4, <2>5, Zenon
<1>8. CpuLeads(X)'
  <2>1. PICK A, B : A = AllHashes(scheduled) /\ B = HashesOf(r, todo)
    BY Zenon
  <2>2. cpu_cache = (X \ cpu_freed) \cup A /\ cpu_freed' = cpu_freed
    BY <1>2, <1>4, <2>1, Zenon DEF CpuLeads, listVars
  <2>3. cpu_cache \cup B = (X \ cpu_freed) \cup (A \cup B)
    BY <2>2, Zenon
  <2> QED BY <1>2, <1>7, <2>1, <2>2, <2>3, Zenon DEF CpuLeads
<1>9. InOrder'
  <2>1. CASE pass = "running"
    <3>1. /\ req_index' = req_index + 1 /\ running' = running /\ turn'.req = NoReq
          /\ req_index \in DOMAIN running /\ r = running[req_index]
      BY <1>1, <1>2, <1>3, <1>4, <2>1, NoTurnReq, Zenon DEF InOrder
    <3>2. ASSUME NEW p \in DOMAIN running, p >= req_index + 1 PROVE scheduled'[running[p]] = {}
      <4>1. p >= req_index /\ p # req_index /\ running[p] \in Req
        BY <3>2 DEF IInv, Typed
      <4>2. running[p] # r
        BY <3>1, <4>1, Zenon DEF Queued, Listed
      <4> QED BY <1>4, <1>6, <2>1, <4>1, <4>2, Zenon DEF InOrder
    <3> QED BY <3>1, <3>2, Zenon DEF InOrder
  <2>2. CASE pass # "running"
    BY <1>2, <2>2, Zenon DEF InOrder
  <2> QED BY <2>1, <2>2, Zenon
<1>10. ASSUME ~FineGrainedTP PROVE NpuLeads(Y)' /\ PromotedHeld'
  <2>1. NpuLeads(Y)'
    <3>1. NpuLeads(Y)
      BY <1>10, Zenon DEF Agrees
    <3> QED BY <1>2, <3>1, Zenon DEF NpuLeads, listVars
  <2>2. \A h \in promoting : \E q \in refs[h] : pass = "running" => \A p \in DOMAIN running : p > req_index => running[p] # q
    BY <1>4, <1>10, Zenon DEF Agrees, PromotedHeld
  <2>3. \A h \in Hash : refs[h] \subseteq refs'[h]
    <3>1. refs' = [h \in Hash |-> IF h \in HashesOf(r, todo) THEN refs[h] \cup {r} ELSE refs[h]]
      BY <1>3, Zenon DEF Allocate
    <3>2. \A h \in Hash : refs'[h] = IF h \in HashesOf(r, todo) THEN refs[h] \cup {r} ELSE refs[h]
      BY <3>1, Zenon
    <3> QED BY <3>2, Zenon
  <2>4. promoting' = promoting /\ promoting \subseteq Hash /\ pass' = pass
    BY <1>2, Zenon DEF RestTyped, listVars
  <2>5. ASSUME pass = "running", NEW p \in DOMAIN running, p > req_index' PROVE p > req_index
    <3>1. req_index' = req_index + 1
      BY <1>3, <2>5, Zenon
    <3> QED BY <2>5, <3>1 DEF IInv, Typed
  <2>6. \A h \in promoting : \E q \in refs'[h] : pass = "running" => \A p \in DOMAIN running : p > req_index' => running[p] # q
    BY <2>2, <2>3, <2>4, <2>5, Zenon
  <2>7. pass = "running" => running' = running
    BY <1>3, Zenon
  <2>8. PromotedHeld'
    BY <2>4, <2>6, <2>7, Zenon DEF PromotedHeld
  <2> QED BY <2>1, <2>8, Zenon
<1> QED BY <1>8, <1>9, <1>10, Zenon DEF Agrees

\* Under FCFS the victim is the last of the running requests: it is not scheduled
\* yet, so nothing it was to encode is lost, and it promoted nothing, or else the
\* pass is over.
LEMMA PreemptOneAgrees ==
    ASSUME IInv, IInv', RestTyped, Queued, NEW X, NEW Y, Agrees(X, Y), PreemptOne, policy = "fcfs"
    PROVE  Agrees(X, Y)'
<1>1. PICK v \in Req, p \in DOMAIN running :
         /\ v = running[p]
         /\ policy = "fcfs" => p = Len(running)
         /\ running' = Without(running, p) /\ Free(v)
         /\ scheduled' = [scheduled EXCEPT ![v] = {}] /\ gathered' = [gathered EXCEPT ![v] = {}]
         /\ computed' = [computed EXCEPT ![v] = 0]
         /\ preempted' \in BOOLEAN /\ (preempted => preempted') /\ (~FineGrainedTP => preempted')
         /\ \/ waiting' = waiting \cup {v} /\ UNCHANGED <<mm, finished>>
            \/ Forget(v) /\ UNCHANGED waiting
         /\ turn' = IF v = turn.req THEN NoTurn ELSE [turn EXCEPT !.closed = TRUE]
         /\ v # turn.req => req_index' = req_index - (IF p < req_index THEN 1 ELSE 0)
         /\ v = turn.req => req_index' = Len(running) \/ policy = "priority"
  BY PreemptOneIs, Zenon
<1>2. turn.req # NoReq /\ pass = "running" /\ pass' = "running"
  BY Zenon DEF PreemptOne
<1>3. PICK r : r = turn.req
  BY Zenon
<1>4. PICK l \in Nat : /\ l = Len(running) /\ DOMAIN running = 1 .. l
                      /\ Len(running') = l - 1 /\ DOMAIN running' = 1 .. l - 1
                      /\ \A j \in 1 .. l - 1 : j < l => running'[j] = running[j]
  <2>1. running \in Seq(Req)
    BY Zenon DEF IInv, Typed
  <2>2. Len(running) \in Nat /\ DOMAIN running = 1 .. Len(running)
    BY <2>1
  <2>3. p = Len(running)
    BY <1>1, Zenon
  <2>4. PICK t : t = Without(running, p)
    BY Zenon
  <2>5. /\ Len(t) = Len(running) - 1 /\ DOMAIN t = 1 .. Len(running) - 1
        /\ \A j \in 1 .. Len(running) - 1 : t[j] = IF j < p THEN running[j] ELSE running[j + 1]
    BY <2>1, <2>4, WithoutIs, Zenon
  <2> QED BY <1>1, <2>2, <2>3, <2>4, <2>5, Zenon
<1>5. p = l /\ v = running[l] /\ l \in DOMAIN running
  BY <1>1, <1>4, Zenon
<1>6. /\ InOrder /\ CpuLeads(X) /\ ~Over
      /\ req_index \in DOMAIN running /\ r = running[req_index] /\ req_index \in Nat \ {0}
  <2>1. InOrder /\ CpuLeads(X) /\ ~Over
    BY <1>2, TurnNotOver, Zenon DEF Agrees, Queued
  <2> QED BY <1>2, <1>3, <2>1, Zenon DEF InOrder, IInv, Typed
<1>7. scheduled[v] = {}
  <2>1. l >= req_index
    BY <1>4, <1>6
  <2> QED BY <1>2, <1>5, <1>6, <2>1, Zenon DEF InOrder
<1>8. \A q \in Req : scheduled'[q] = scheduled[q]
  <2>1. scheduled'[v] = {} /\ \A q \in Req : q # v => scheduled'[q] = scheduled[q]
    BY <1>1, Zenon DEF RestTyped
  <2> QED BY <1>7, <2>1, Zenon
<1>9. mm' = mm \/ mm' = [mm EXCEPT ![v] = <<>>]
  BY <1>1, Zenon DEF Forget
<1>10. \A q \in Req : q # v => mm'[q] = mm[q]
  BY <1>9, Zenon DEF IInv, Typed
<1>11. AllHashes(scheduled)' = AllHashes(scheduled)
  <2>1. \A q \in Req : \A i \in scheduled[q] : q # v
    BY <1>7, Zenon
  <2>2. ASSUME NEW h \in AllHashes(scheduled)' PROVE h \in AllHashes(scheduled)
    <3>1. PICK q \in Req : \E i \in scheduled'[q] : h = mm'[q][i]
      BY HashesAre, Zenon
    <3>2. PICK i \in scheduled'[q] : h = mm'[q][i]
      BY <3>1, Zenon
    <3>3. i \in scheduled[q] /\ h = mm[q][i]
      BY <1>8, <1>10, <2>1, <3>2, Zenon
    <3> QED BY <3>3, HashesAre, Zenon
  <2>3. ASSUME NEW h \in AllHashes(scheduled) PROVE h \in AllHashes(scheduled)'
    <3>1. PICK q \in Req : \E i \in scheduled[q] : h = mm[q][i]
      BY HashesAre, Zenon
    <3>2. PICK i \in scheduled[q] : h = mm[q][i]
      BY <3>1, Zenon
    <3>3. i \in scheduled'[q] /\ h = mm'[q][i]
      BY <1>8, <1>10, <2>1, <3>2, Zenon
    <3> QED BY <3>3, HashesAre, Zenon
  <2> QED BY <2>2, <2>3, Zenon
<1>12. UNCHANGED <<cpu_cache, npu_cache, listVars>>
  BY <1>1, Zenon DEF Free, FreeEncoderInputs
<1>13. CpuLeads(X)' = CpuLeads(X) /\ NpuLeads(Y)' = NpuLeads(Y)
  BY <1>11, <1>12, LeadsStay, Zenon
<1>14. ASSUME v # r
       PROVE  /\ req_index' = req_index /\ req_index \in 1 .. l - 1 /\ turn'.req = r
              /\ \A j \in DOMAIN running' : j \in DOMAIN running /\ running'[j] = running[j]
  <2>1. req_index # l
    BY <1>5, <1>6, <1>14, Zenon
  <2>2. req_index \in 1 .. l - 1 /\ ~(l < req_index)
    BY <1>4, <1>6, <2>1
  <2>3. req_index' = req_index
    <3>1. req_index' = req_index - (IF l < req_index THEN 1 ELSE 0)
      BY <1>1, <1>3, <1>5, <1>14, Zenon
    <3> QED BY <1>6, <2>2, <3>1
  <2>4. turn'.req = r
    <3>1. turn' = [turn EXCEPT !.closed = TRUE] /\ turn \in TurnType
      BY <1>1, <1>3, <1>14, Zenon DEF IInv, Typed
    <3> QED BY <1>3, <3>1 DEF TurnType
  <2>5. \A j \in 1 .. l - 1 : j < l /\ j \in 1 .. l
    BY <1>4
  <2> QED BY <1>4, <2>2, <2>3, <2>4, <2>5, Zenon
<1>15. ASSUME v = r
       PROVE  turn' = NoTurn /\ req_index' = l /\ \A j \in DOMAIN running' : ~(j >= req_index')
  <2>1. turn' = NoTurn /\ (req_index' = l \/ policy = "priority")
    BY <1>1, <1>3, <1>4, <1>15, Zenon
  <2>2. policy # "priority"
    OBVIOUS
  <2>3. \A j \in 1 .. l - 1 : ~(j >= l)
    BY <1>4
  <2> QED BY <1>4, <2>1, <2>2, <2>3, Zenon
<1>16. InOrder'
  <2>1. CASE v = r
    BY <1>15, <2>1, NoTurnReq, Zenon DEF InOrder
  <2>2. CASE v # r
    <3>1. \A j \in DOMAIN running : j >= req_index => scheduled[running[j]] = {} /\ running[j] \in Req
      <4>1. \A j \in DOMAIN running : running[j] \in Req
        BY DEF IInv, Typed
      <4> QED BY <1>2, <1>6, <4>1, Zenon DEF InOrder
    <3>2. \A j \in DOMAIN running' : j >= req_index => scheduled'[running'[j]] = {}
      BY <1>8, <1>14, <2>2, <3>1, Zenon
    <3>3. req_index \in DOMAIN running' /\ r = running'[req_index]
      BY <1>4, <1>6, <1>14, <2>2, Zenon
    <3> QED BY <1>14, <2>2, <3>2, <3>3, Zenon DEF InOrder
  <2> QED BY <2>1, <2>2, Zenon
<1>17. ASSUME ~FineGrainedTP PROVE PromotedHeld'
  <2>1. CASE v = r
    <3>1. preempted' /\ l > l - 1
      BY <1>1, <1>4, <1>17
    <3>2. Over'
      BY <1>2, <1>4, <1>15, <2>1, <3>1, Zenon DEF Over
    <3> QED BY <3>2, Zenon DEF PromotedHeld
  <2>2. CASE v # r
    <3>1. ASSUME NEW h \in promoting
          PROVE  \E q \in refs'[h] : \A j \in DOMAIN running' : j > req_index => running'[j] # q
      <4>1. PICK q \in refs[h] : \A j \in DOMAIN running : j > req_index => running[j] # q
        BY <1>2, <1>6, <1>17, Zenon DEF Agrees, PromotedHeld
      <4>2. l > req_index
        BY <1>14, <2>2
      <4>3. q # v
        BY <1>5, <4>1, <4>2, Zenon
      <4>4. h \in Hash /\ q \in Req /\ h \in HashesOf(q, request_cached_ids[q])
        <5>1. h \in Hash
          BY Zenon DEF RestTyped
        <5>2. refs[h] = {x \in Req : h \in HashesOf(x, request_cached_ids[x])}
          BY <5>1, Zenon DEF IInv, Accounted
        <5> QED BY <5>1, <5>2, Zenon
      <4>5. request_cached_ids'[q] = request_cached_ids[q] /\ mm'[q] = mm[q]
        BY <1>1, <1>10, <4>3, <4>4, FreeTakes, Zenon
      <4>6. HashesOf(q, request_cached_ids[q])' = HashesOf(q, request_cached_ids[q])
        BY <4>5, Zenon DEF HashesOf
      <4>7. q \in refs'[h]
        BY <4>4, <4>6, Zenon DEF IInv, Accounted
      <4> QED BY <1>14, <2>2, <4>1, <4>7, Zenon
    <3>2. promoting' = promoting
      BY <1>12, Zenon DEF listVars
    <3> QED BY <1>14, <2>2, <3>1, <3>2, Zenon DEF PromotedHeld
  <2> QED BY <2>1, <2>2, Zenon
<1> QED BY <1>13, <1>16, <1>17, Zenon DEF Agrees

\* When the lists have left only the tiers matter.
LEMMA SentAgrees ==
    ASSUME pass' = "none", scheduled' = NoInputs, promoting' = {}, npu_freed' = {}, cpu_freed' = {},
           NEW A, A = cpu_cache', NEW B, ~FineGrainedTP => B \subseteq npu_cache'
    PROVE  Agrees(A, B)'
<1>1. AllHashes(scheduled)' = {}
  <2>1. \A q \in Req : scheduled'[q] = {}
    BY Zenon DEF NoInputs
  <2>2. \A h : h \notin AllHashes(scheduled)'
    BY <2>1, HashesAre, Zenon
  <2> QED BY <2>2, Zenon
<1>2. CpuLeads(A)' /\ (~FineGrainedTP => NpuLeads(B)')
  BY <1>1, Zenon DEF CpuLeads, NpuLeads
<1>3. "none" # "running"
  OBVIOUS
<1>4. InOrder' /\ PromotedHeld'
  BY <1>3, Zenon DEF InOrder, PromotedHeld, Over
<1> QED BY <1>2, <1>4, Zenon DEF Agrees

\* The lists leave as a message.
LEMMA EndPassFollows ==
    ASSUME IInv, IInv', RestTyped, Queued, NEW X \in SUBSET Hash, NEW Y \in SUBSET Hash, Leads(X, Y), Agrees(X, Y), EndPass
    PROVE  Follows'
<1>1. PICK o \in Message : o = Step
  BY StepType, Zenon
<1>2. /\ inbox' = Append(inbox, o) /\ promoting' = {} /\ npu_freed' = {} /\ cpu_freed' = {}
      /\ pass' = "none" /\ scheduled' = NoInputs /\ UNCHANGED <<cpu_encoder_cache, encoder_cache, cpu_cache, npu_cache>>
  BY <1>1, Zenon DEF EndPass, FreeEncoderInputs
<1>3. PICK A, B : A = CpuAfter(o, X) /\ B = NpuAfter(o, Y)
  BY Zenon
<1>4. A = cpu_cache /\ B = (Y \ npu_freed) \cup promoting
  <2>1. o.kind = "step" /\ o.npu_freed = npu_freed /\ o.cpu_freed = cpu_freed /\ o.promoting = promoting /\ o.encode = AllHashes(scheduled)
    BY <1>1, StepType, Zenon
  <2>2. cpu_cache = (X \ cpu_freed) \cup AllHashes(scheduled)
    BY Zenon DEF Agrees, CpuLeads
  <2> QED BY <1>3, <2>1, <2>2, Zenon DEF CpuAfter, NpuAfter
<1>5. ~FineGrainedTP => B \subseteq npu_cache'
  BY <1>2, <1>4, Zenon DEF Agrees, NpuLeads
<1>6. Leads(A, B)'
  <2>1. Leads(CpuAfter(o, X), NpuAfter(o, Y))'
    BY <1>2, LeadsAppend, Zenon
  <2> QED BY <1>3, <2>1, Zenon
<1>7. A \in SUBSET Hash /\ B \in SUBSET Hash
  BY <1>3, AfterType, Zenon
<1>8. A = cpu_cache'
  BY <1>2, <1>4, Zenon
<1>9. Agrees(A, B)'
  BY <1>2, <1>5, <1>8, SentAgrees, Zenon
<1> QED BY <1>6, <1>7, <1>9, Zenon DEF Follows

\* reset reaches the worker after the steps sent before.
LEMMA ResetFollows ==
    ASSUME RestTyped, Queued, NEW X \in SUBSET Hash, NEW Y \in SUBSET Hash, Leads(X, Y), Reset
    PROVE  Follows'
<1>1. [kind |-> "reset"] \in Message
  BY DEF Message
<1>2. PICK o \in Message : o = [kind |-> "reset"]
  BY <1>1, Zenon
<1>3. /\ inbox' = Append(inbox, o) /\ promoting' = {} /\ npu_freed' = {} /\ cpu_freed' = {}
      /\ pass = "none" /\ UNCHANGED <<passVars, cpu_encoder_cache, encoder_cache>> /\ cpu_cache' = {} /\ npu_cache' = {}
  BY <1>2, Zenon DEF Reset, Idle
<1>4. scheduled' = NoInputs /\ pass' = "none"
  BY <1>3, Zenon DEF Queued, NothingPending, passVars
<1>5. o.kind # "step"
  BY <1>2
<1>6. CpuAfter(o, X) = {} /\ NpuAfter(o, Y) = {}
  BY <1>5, Zenon DEF CpuAfter, NpuAfter
<1>7. Leads({}, {})'
  <2>1. Leads(CpuAfter(o, X), NpuAfter(o, Y))'
    BY <1>3, LeadsAppend, Zenon
  <2> QED BY <1>6, <2>1, Zenon
<1>8. Agrees({}, {})'
  BY <1>3, <1>4, SentAgrees, Zenon
<1> QED BY <1>7, <1>8, Zenon DEF Follows

\* Where nothing the manager believes changes.
LEMMA SameAgrees ==
    ASSUME NEW X, NEW Y, Agrees(X, Y), UNCHANGED <<managerVars, mm, running, passVars>>
    PROVE  Agrees(X, Y)'
<1>1. UNCHANGED <<refs, cpu_cache, npu_cache, listVars, promoting, mm, running, pass, req_index, preempted, turn, scheduled>>
  BY Zenon DEF managerVars, refVars, cpuVars, npuVars, listVars, passVars
<1>2. AllHashes(scheduled)' = AllHashes(scheduled)
  BY <1>1, HashesAre, Zenon
<1>3. CpuLeads(X)' = CpuLeads(X) /\ NpuLeads(Y)' = NpuLeads(Y)
  BY <1>1, <1>2, LeadsStay, Zenon
<1>4. InOrder'
  BY <1>1, Zenon DEF Agrees, InOrder
<1>5. PromotedHeld => PromotedHeld'
  BY <1>1, Zenon DEF PromotedHeld, Over
<1> QED BY <1>3, <1>4, <1>5, Zenon DEF Agrees

\* Every step keeps the worker behind the manager.
LEMMA NextFollows ==
    ASSUME IInv, IInv', RestTyped, Queued, Queued', Follows, [Next]_vars
    PROVE  Follows'
<1> SUFFICES ASSUME policy' = "fcfs" PROVE Follows'
  BY Zenon DEF Follows
<1>1. policy' = policy
  <2>1. CASE UNCHANGED vars
    BY <2>1, Zenon DEF vars, requestVars
  <2>2. CASE \/ \E r \in Req : Arrive(r) \/ Finish(r)
             \/ PreemptOne \/ Scheduled \/ EndPass \/ Execute
    BY <2>2, Zenon DEF Arrive, Finish, PreemptOne, Scheduled, EndPass, Execute
  <2>3. CASE BeginPass \/ VisitRunning \/ VisitWaiting \/ TryInput \/ NoNewTokens \/ NoVictim \/ NoBlocks \/ Reset \/ ResetWorker
    <3>1. UNCHANGED requestVars
      BY <2>3, Zenon DEF BeginPass, VisitRunning, VisitWaiting, TryInput, NoNewTokens, NoVictim, NoBlocks, Reset, ResetWorker
    <3> QED BY <3>1, Zenon DEF requestVars
  <2> QED BY <2>1, <2>2, <2>3, Zenon DEF Next
<1>2. policy = "fcfs"
  BY <1>1, Zenon
<1>3. PICK X \in SUBSET Hash, Y \in SUBSET Hash : Leads(X, Y) /\ Agrees(X, Y)
  BY <1>2, Zenon DEF Follows
<1>4. CASE EndPass \/ Reset
  BY <1>3, <1>4, EndPassFollows, ResetFollows, Zenon
<1>5. CASE Execute \/ ResetWorker
  <2>1. UNCHANGED <<managerVars, mm, running, passVars>>
    BY <1>5, WorkerIs, Zenon
  <2>2. Agrees(X, Y)'
    BY <1>3, <2>1, SameAgrees, Zenon
  <2>3. PICK o \in Message :
           /\ inbox # <<>> /\ o = Head(inbox) /\ inbox' = Tail(inbox)
           /\ cpu_encoder_cache' = CpuAfter(o, cpu_encoder_cache)
           /\ encoder_cache' \subseteq NpuAfter(o, encoder_cache)
    BY <1>5, WorkerIs, Zenon
  <2>4. Leads(X, Y)'
    BY <1>3, <2>3, LeadsTail, Zenon
  <2> QED BY <2>2, <2>4, Zenon DEF Follows
<1>6. CASE UNCHANGED vars
  <2>1. UNCHANGED <<managerVars, mm, running, passVars>> /\ UNCHANGED <<inbox, cpu_encoder_cache, encoder_cache>>
    BY <1>6, Zenon DEF vars, requestVars, workerVars
  <2> QED BY <1>3, <2>1, SameAgrees, LeadsSame, Zenon DEF Follows
<1>7. CASE \/ \E r \in Req : Arrive(r) \/ Finish(r)
           \/ BeginPass \/ VisitRunning \/ VisitWaiting \/ TryInput \/ NoNewTokens \/ Scheduled
           \/ PreemptOne \/ NoVictim \/ NoBlocks
  <2>1. Agrees(X, Y)'
    BY <1>2, <1>3, <1>7, IdleAgrees, TurnAgrees, TryInputAgrees, ScheduledAgrees, PreemptOneAgrees, Zenon
  <2>2. UNCHANGED workerVars
    BY <1>7, Zenon DEF Arrive, Finish, BeginPass, VisitRunning, VisitWaiting, TryInput, NoNewTokens, Scheduled,
                       PreemptOne, NoVictim, NoBlocks
  <2>3. Leads(X, Y)'
    BY <1>3, <2>2, LeadsSame, Zenon DEF workerVars
  <2> QED BY <2>1, <2>3, Zenon DEF Follows
<1> QED BY <1>4, <1>5, <1>6, <1>7, Zenon DEF Next

\* At first there is nothing anywhere.
LEMMA InitFollows == Init => RestTyped /\ Queued /\ Follows
<1> SUFFICES ASSUME Init PROVE RestTyped /\ Queued /\ Follows
  BY Zenon
<1>1. RestTyped
  <2>1. <<>> \in Seq(Message)
    OBVIOUS
  <2>2. NoInputs \in [Req -> SUBSET Nat] /\ [h \in Hash |-> {}] \in [Hash -> SUBSET Req]
    BY Zenon DEF NoInputs
  <2>3. {} \subseteq Hash /\ {} \subseteq Req /\ FALSE \in BOOLEAN /\ "none" \in {"none", "running", "waiting", "closing"}
    BY Zenon
  <2> QED BY <2>1, <2>2, <2>3, Zenon DEF Init, RestTyped
<1>2. /\ running = <<>> /\ waiting = {} /\ computed = [r \in Req |-> 0] /\ mm = [r \in Req |-> <<>>]
      /\ pass = "none" /\ req_index = 1 /\ turn = NoTurn /\ scheduled = NoInputs /\ gathered = NoInputs
      /\ promoting = {} /\ cpu_get = {} /\ npu_freed = {} /\ cpu_freed = {}
      /\ cpu_cache = {} /\ inbox = <<>> /\ encoder_cache = {} /\ cpu_encoder_cache = {}
  BY Zenon DEF Init
<1>3. Queued
  <2>1. Listed
    <3>1. DOMAIN running = {}
      BY <1>2
    <3> QED BY <1>2, <3>1, Zenon DEF Listed
  <2>2. TurnListed
    BY <1>2, NoTurnReq, Zenon DEF TurnListed
  <2>3. Held
    <3>1. \A r \in Req : scheduled[r] = {} /\ gathered[r] = {} /\ computed[r] = 0 /\ mm[r] = <<>>
      BY <1>2, Zenon DEF NoInputs
    <3>2. 0 =< Len(<<>>)
      OBVIOUS
    <3> QED BY <1>2, <3>1, <3>2, Zenon DEF Held
  <2> QED BY <1>2, <2>1, <2>2, <2>3, Zenon DEF Queued, NothingPending
<1>4. Agrees({}, {})
  <2>1. CpuLeads({}) /\ NpuLeads({})
    BY <1>2, NoneScheduled, Zenon DEF CpuLeads, NpuLeads
  <2>2. "none" # "running"
    OBVIOUS
  <2>3. InOrder /\ PromotedHeld
    BY <1>2, <2>2, Zenon DEF InOrder, PromotedHeld, Over
  <2> QED BY <2>1, <2>3, Zenon DEF Agrees
<1>5. Leads({}, {})
  <2>1. Len(inbox) = 0 /\ 1 .. Len(inbox) = {} /\ 1 .. Len(inbox) + 1 = {1} /\ Len(inbox) + 1 = 1
    BY <1>2
  <2> DEFINE c == [k \in {1} |-> {}]
  <2>2. c \in [{1} -> SUBSET Hash] /\ c[1] = {}
    BY Zenon
  <2> HIDE DEF c
  <2>3. LeadsBy(c, c, {}, {})
    BY <1>2, <2>1, <2>2, Zenon DEF LeadsBy
  <2> QED BY <2>1, <2>2, <2>3, Zenon DEF Leads
<1> QED BY <1>1, <1>3, <1>4, <1>5, Zenon DEF Follows

\* In every reachable state.
LEMMA FollowsInvariant == Spec => [](IInv /\ BetweenPasses /\ RestTyped /\ Queued /\ Follows)
<1>1. Init => IInv /\ BetweenPasses /\ RestTyped /\ Queued /\ Follows
  BY InitInv, InitFollows, Zenon
<1>2. IInv /\ BetweenPasses /\ RestTyped /\ Queued /\ Follows /\ [Next]_vars
      => (IInv /\ BetweenPasses /\ RestTyped /\ Queued /\ Follows)'
  <2> SUFFICES ASSUME IInv, BetweenPasses, RestTyped, Queued, Follows, [Next]_vars
               PROVE  (IInv /\ BetweenPasses /\ RestTyped /\ Queued /\ Follows)'
    BY Zenon
  <2>1. IInv' /\ BetweenPasses'
    BY NextInv, BetweenInv, Zenon
  <2>2. RestTyped' /\ Queued'
    BY <2>1, NextRest, Zenon
  <2>3. Follows'
    BY <2>1, <2>2, NextFollows, Zenon
  <2> QED BY <2>1, <2>2, <2>3, Zenon
<1> QED BY <1>1, <1>2, PTL DEF Spec

\* Quiet, nothing is under way and nothing is listed, so what the worker has is
\* what the manager believes.
LEMMA QuietAgrees ==
    ASSUME RestTyped, Queued, Follows, policy = "fcfs", Quiet
    PROVE  /\ cpu_encoder_cache = cpu_cache
           /\ ~FineGrainedTP => encoder_cache \subseteq npu_cache
<1>1. PICK X \in SUBSET Hash, Y \in SUBSET Hash : Leads(X, Y) /\ Agrees(X, Y)
  BY Zenon DEF Follows
<1>2. inbox = <<>> /\ NothingPending
  BY Zenon DEF Quiet, Queued
<1>3. Len(inbox) + 1 = 1
  BY <1>2
<1>4. cpu_encoder_cache = X /\ encoder_cache \subseteq Y
  BY <1>1, <1>3, Zenon DEF Leads, LeadsBy
<1>5. AllHashes(scheduled) = {}
  BY <1>2, NoneScheduled, Zenon DEF NothingPending
<1>6. cpu_cache = X
  BY <1>1, <1>2, <1>5, Zenon DEF Agrees, CpuLeads, NothingPending
<1>7. ~FineGrainedTP => Y \subseteq npu_cache
  BY <1>1, <1>2, Zenon DEF Agrees, NpuLeads, NothingPending
<1> QED BY <1>4, <1>6, <1>7, Zenon

-----------------------------------------------------------------------------
(* Theorems *)

\* Under FCFS, whenever no pass is under way and the worker has executed every
\* step, it holds in CPU memory exactly what the manager believes, although it
\* heard only of the differences: evictions, promotions and encoded inputs of
\* each pass, with preemptions and resets in between, any number of steps late.
THEOREM WorkerFollowsOnCpu == Spec => []CpuTiersAgree
<1>1. RestTyped /\ Queued /\ Follows => CpuTiersAgree
  BY QuietAgrees, Zenon DEF CpuTiersAgree
<1> QED BY <1>1, FollowsInvariant, PTL

\* Without fine-grained tensor parallelism the worker then has no output on the
\* NPU that the manager does not count.
THEOREM WorkerFollowsOnNpu ==
    ASSUME ~FineGrainedTP
    PROVE  Spec => []NpuBounded
<1>1. RestTyped /\ Queued /\ Follows => NpuBounded
  BY QuietAgrees, Zenon DEF NpuBounded
<1> QED BY <1>1, FollowsInvariant, PTL

\* The counters of free and of reclaimable slots never leave their tier's size,
\* and every other variable keeps its type.
THEOREM EncoderTyped == Spec => []TypeOK
<1>1. ASSUME IInv, Counted, RestTyped PROVE TypeOK
  <2>1. /\ npu_cache \in SUBSET Hash /\ cpu_cache \in SUBSET Hash /\ cached \subseteq Hash
        /\ npu_freeable \in SUBSET Hash /\ cpu_freeable \in SUBSET Hash
        /\ npu_freeable \subseteq npu_cache /\ cpu_freeable \subseteq cpu_cache
    BY <1>1, Zenon DEF IInv, Typed, Accounted
  <2>2. /\ Slots[npu_freeable] =< Slots[npu_cache] /\ Slots[cpu_freeable] =< Slots[cpu_cache]
    BY <2>1, SlotsLess, Zenon
  <2>3. /\ Slots[npu_freeable] \in Nat /\ Slots[npu_cache] \in Nat /\ Slots[cpu_freeable] \in Nat /\ Slots[cpu_cache] \in Nat
    BY <2>1, SlotsAre, Zenon
  <2>4. /\ npu_num_free_slots \in 0 .. CacheSize /\ npu_num_freeable_slots \in 0 .. CacheSize
        /\ cpu_num_free_slots \in 0 .. CpuCacheSize /\ cpu_num_freeable_slots \in 0 .. CpuCacheSize
    BY <1>1, <2>2, <2>3, SizeAssumption DEF Counted, CheckInvariant
  <2>5. /\ turn.req \in Req \cup {NoReq} /\ turn.first \in Nat /\ turn.input \in Nat
        /\ turn.todo \subseteq Nat /\ turn.dups \subseteq Nat /\ turn.closed \in BOOLEAN
    <3>1. turn \in TurnType
      BY <1>1, Zenon DEF IInv, Typed
    <3> QED BY <3>1 DEF TurnType
  <2>6. req_index \in Nat
    BY <1>1, Zenon DEF IInv, Typed
  <2> QED BY <1>1, <2>1, <2>4, <2>5, <2>6, Zenon DEF TypeOK, IInv, Typed, RestTyped
<1>2. IInv /\ Counted /\ RestTyped => TypeOK
  BY <1>1, Zenon
<1> QED BY <1>2, CountsInvariant, FollowsInvariant, PTL

=============================================================================
