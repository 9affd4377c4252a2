------------------------- MODULE MooncakePullProofs -------------------------
(***************************************************************************)
(* Proofs about MooncakePull, for every set of requests, blocks and        *)
(* workers and every timeout: the bookkeeping of the delayed free and of   *)
(* the loads is exact, and the protocol implements BlockLease.             *)
(***************************************************************************)
EXTENDS MooncakePull, FiniteSetTheorems, TLAPS

Loading == {"loading", "aborting"}

\* The flags and tables of D's connector follow the status of the request, and
\* D knows only requests whose prefill is over.
Linked ==
    \A r \in Req :
        /\ r \in prefill <=> dst[r] = "waiting"
        /\ r \in recvInfo <=> dst[r] \in Loading
        /\ dst[r] # "none" => pst[r] \in {"delayed", "freed"} /\ pblk[r] \in PBlock
        /\ pst[r] = "prefilling" => pblk[r] \in PBlock
        /\ dst[r] = "none" => pst[r] # "delayed" /\ doneQ[r] = 0 /\ net[r] = 0

IInv == TypeOK /\ DelayedOnce /\ Linked /\ OneDone /\ LoadOnce

-----------------------------------------------------------------------------
\* Requests are finite in number, so that the place of a new delayed request
\* is a number.
LEMMA PlaceIsNat == Cardinality({q \in Req : pst[q] \in {"delayed", "freed"}}) \in Nat
<1>1. IsFiniteSet({q \in Req : pst[q] \in {"delayed", "freed"}})
    BY FS_Subset, NameAssumption, Zenon
<1> QED
    BY <1>1, FS_CardinalityType, Zenon

\* Nothing is under way at the start: no lease, no load, no DONE.
LEMMA InitIInv == Init => IInv
<1> SUFFICES ASSUME Init PROVE IInv
    BY Zenon
<1>1. TypeOK
    BY TimeAssumption DEF Init, TypeOK, PStatus, DStatus
<1>2. DelayedOnce /\ Linked /\ OneDone
    BY DEF Init, DelayedOnce, Linked, OneDone, Loading
<1>3. LoadOnce
    BY DEF Init, LoadOnce, InBatch, Reported
<1> QED
    BY <1>1, <1>2, <1>3, Zenon DEF IInv

\* A step that leaves the way of the loads alone, and starts and ends none,
\* keeps LoadOnce.
LEMMA LoadsApart ==
    ASSUME LoadOnce, UNCHANGED <<needRecv, queue, results, seen>>,
           \A r \in Req : dst'[r] \in {"loading", "aborting"} <=> dst[r] \in {"loading", "aborting"}
    PROVE  LoadOnce'
<1>1. \A w \in Worker, r \in Req : InBatch(w, r)' = InBatch(w, r) /\ Reported(w, r)' = Reported(w, r)
    BY Zenon DEF InBatch, Reported
<1> SUFFICES ASSUME NEW w \in Worker, NEW r \in Req
             PROVE  LoadOnce!(w, r)'
    BY Zenon DEF LoadOnce
<1>2. LoadOnce!(w, r)
    BY Zenon DEF LoadOnce
<1> QED
    BY <1>1, <1>2, Zenon

-----------------------------------------------------------------------------
(* P *)

\* The prefill of a request touches only P's memory.
LEMMA PrefillKeeps ==
    ASSUME IInv, NEW r \in Req, Prefill(r)
    PROVE  IInv'
<1> USE DEF IInv
<1>1. TypeOK'
    BY DEF TypeOK, Prefill, FreeP, PStatus, dVars, wVars
<1>2. \A q \in Req : pst'[q] = IF q = r THEN "prefilling" ELSE pst[q]
    BY Zenon DEF Prefill, TypeOK
<1>3. DelayedOnce' /\ OneDone'
    BY <1>2 DEF Prefill, DelayedOnce, OneDone, dVars
<1>4. pblk'[r] \in PBlock /\ \A q \in Req : q # r => pblk'[q] = pblk[q]
    BY Zenon DEF Prefill, FreeP, TypeOK
<1>5. Linked'
    BY <1>2, <1>4 DEF Prefill, Linked, dVars, Loading
<1>6. LoadOnce'
    BY LoadsApart, Zenon DEF Prefill, dVars, wVars
<1> QED
    BY <1>1, <1>3, <1>5, <1>6, Zenon

\* request_finished on P registers the request before D can know of it.
LEMMA FinishPrefillKeeps ==
    ASSUME IInv, NEW r \in Req, FinishPrefill(r)
    PROVE  IInv'
<1> USE DEF IInv
<1>1. TypeOK'
    BY PlaceIsNat, TimeAssumption DEF TypeOK, FinishPrefill, AddDelayedRequest, PStatus, DStatus, wVars
<1>2. \A q \in Req : /\ pst'[q] = IF q = r THEN "delayed" ELSE pst[q]
                     /\ dst'[q] = IF q = r THEN "offered" ELSE dst[q]
    BY Zenon DEF FinishPrefill, TypeOK
<1>3. pst[r] = "prefilling" /\ dst[r] = "none" /\ pblk[r] \in PBlock
    BY Zenon DEF FinishPrefill, Linked
<1>4. DelayedOnce'
    BY <1>2, <1>3, Zenon DEF FinishPrefill, AddDelayedRequest, DelayedOnce
<1>5. OneDone'
    BY <1>2, <1>3 DEF FinishPrefill, OneDone, Linked, DelayedOnce, TypeOK
<1>6. Linked'
    BY <1>2, <1>3 DEF FinishPrefill, Linked, Loading
<1>7. LoadOnce'
    BY <1>2, <1>3, LoadsApart DEF FinishPrefill, wVars
<1> QED
    BY <1>1, <1>4, <1>5, <1>6, <1>7, Zenon

\* A prefill that did not reach its length is forgotten by P and unknown to D.
LEMMA AbortPrefillKeeps ==
    ASSUME IInv, NEW r \in Req, AbortPrefill(r)
    PROVE  IInv'
<1> USE DEF IInv
<1>1. TypeOK'
    BY Zenon DEF TypeOK, AbortPrefill, PStatus, dVars, wVars
<1>2. \A q \in Req : pst'[q] = IF q = r THEN "freed" ELSE pst[q]
    BY Zenon DEF AbortPrefill, TypeOK
<1>3. DelayedOnce' /\ OneDone' /\ Linked'
    BY <1>2 DEF AbortPrefill, DelayedOnce, OneDone, Linked, dVars, Loading
<1>4. LoadOnce'
    BY LoadsApart, Zenon DEF AbortPrefill, dVars, wVars
<1> QED
    BY <1>1, <1>3, <1>4, Zenon

\* A DONE moves its request from the delayed ones to the finished ones.
LEMMA HandleFinishedRequestKeeps ==
    ASSUME IInv, NEW r \in Req, HandleFinishedRequest(r)
    PROVE  IInv'
<1> USE DEF IInv
<1>1. TypeOK'
    BY DEF TypeOK, HandleFinishedRequest, dVars, wVars
<1>2. /\ net[r] > 0 /\ net'[r] = net[r] - 1
      /\ \A q \in Req : q # r => net'[q] = net[q]
      /\ \A q \in Req : net[q] \in Nat /\ doneQ[q] \in Nat
    BY Zenon DEF HandleFinishedRequest, TypeOK
<1>3. dst[r] \notin {"none", "offered", "waiting", "loading", "aborting"}
    BY <1>2 DEF OneDone, Linked
<1>4. DelayedOnce'
    BY Zenon DEF HandleFinishedRequest, DelayedOnce
<1>5. OneDone'
    <2>1. ASSUME NEW q \in Req PROVE doneQ'[q] + net'[q] <= 1
        BY <1>2 DEF HandleFinishedRequest, OneDone, dVars
    <2>2. ASSUME NEW q \in Req, dst[q] \in {"offered", "waiting", "loading", "aborting"}
          PROVE  doneQ'[q] + net'[q] = 0 /\ q \notin finished'
        BY <2>2, <1>2, <1>3, Zenon DEF HandleFinishedRequest, OneDone, dVars
    <2> QED
        BY <2>1, <2>2, Zenon DEF HandleFinishedRequest, OneDone, dVars
<1>6. Linked'
    BY <1>2, <1>3, Zenon DEF HandleFinishedRequest, Linked, dVars, Loading
<1>7. LoadOnce'
    BY LoadsApart, Zenon DEF HandleFinishedRequest, dVars, wVars
<1> QED
    BY <1>1, <1>4, <1>5, <1>6, <1>7, Zenon

\* The engine loop of P frees what was reported and what has expired, once.
LEMMA FreeFinishedKeeps ==
    ASSUME IInv, FreeFinished
    PROVE  IInv'
<1> USE DEF IInv
<1>1. TypeOK'
    BY Zenon DEF TypeOK, FreeFinished, Expired, PStatus, dVars, wVars
<1>2. \A q \in Req : pst'[q] = IF q \in finished \cup Expired THEN "freed" ELSE pst[q]
    BY Zenon DEF FreeFinished
<1>3. DelayedOnce'
    BY <1>2, Zenon DEF FreeFinished, DelayedOnce, Expired
<1>4. OneDone'
    BY Zenon DEF FreeFinished, OneDone, dVars
<1>5. Linked'
    BY <1>2, Zenon DEF FreeFinished, Linked, dVars, Loading
<1>6. LoadOnce'
    BY LoadsApart, Zenon DEF FreeFinished, dVars, wVars
<1> QED
    BY <1>1, <1>3, <1>4, <1>5, <1>6, Zenon

\* Time changes nothing but the ages.
LEMMA TickKeeps ==
    ASSUME IInv, Tick
    PROVE  IInv'
<1> USE DEF IInv
<1>1. TypeOK'
    <2>1. age' \in [Req -> 0 .. Timeout + 1]
        <3>1. \A r \in Req : age[r] \in 0 .. Timeout + 1
            BY Zenon DEF TypeOK
        <3>2. \A r \in Req : age[r] <= Timeout => age[r] + 1 \in 0 .. Timeout + 1
            BY <3>1, TimeAssumption
        <3> QED
            BY <3>1, <3>2, Zenon DEF Tick
    <2> QED
        BY <2>1, Zenon DEF TypeOK, Tick, dVars, wVars
<1>2. DelayedOnce' /\ OneDone' /\ Linked'
    BY Zenon DEF Tick, DelayedOnce, OneDone, Linked, dVars, Loading
<1>3. LoadOnce'
    BY LoadsApart, Zenon DEF Tick, dVars, wVars
<1> QED
    BY <1>1, <1>2, <1>3, Zenon

-----------------------------------------------------------------------------
(* D's scheduler *)

\* The request reaches D with do_remote_prefill set.
LEMMA ArriveKeeps ==
    ASSUME IInv, NEW r \in Req, Arrive(r)
    PROVE  IInv'
<1> USE DEF IInv
<1>1. TypeOK'
    BY Zenon DEF TypeOK, Arrive, DStatus, pVars, wVars
<1>2. dst[r] = "offered" /\ \A q \in Req : dst'[q] = IF q = r THEN "waiting" ELSE dst[q]
    BY Zenon DEF Arrive, TypeOK
<1>3. DelayedOnce' /\ OneDone' /\ Linked'
    BY <1>2 DEF Arrive, DelayedOnce, OneDone, Linked, pVars, Loading
<1>4. LoadOnce'
    BY <1>2, LoadsApart DEF Arrive, wVars
<1> QED
    BY <1>1, <1>3, <1>4, Zenon

\* The proxy drops the request: only P knows it.
LEMMA DropKeeps ==
    ASSUME IInv, NEW r \in Req, Drop(r)
    PROVE  IInv'
<1> USE DEF IInv
<1>1. TypeOK'
    BY Zenon DEF TypeOK, Drop, DStatus, pVars, wVars
<1>2. dst[r] = "offered" /\ \A q \in Req : dst'[q] = IF q = r THEN "done" ELSE dst[q]
    BY Zenon DEF Drop, TypeOK
<1>3. DelayedOnce' /\ OneDone' /\ Linked'
    BY <1>2 DEF Drop, DelayedOnce, OneDone, Linked, pVars, Loading
<1>4. LoadOnce'
    BY <1>2, LoadsApart DEF Drop, wVars
<1> QED
    BY <1>1, <1>3, <1>4, Zenon

\* A load starts for a request that is with no worker yet.
LEMMA AllocRemoteKeeps ==
    ASSUME IInv, NEW r \in Req, AllocRemote(r)
    PROVE  IInv'
<1> USE DEF IInv
<1>1. /\ r \in prefill /\ dst[r] = "waiting"
      /\ \A q \in Req : dst'[q] = IF q = r THEN "loading" ELSE dst[q]
      /\ needRecv' = needRecv \cup {r} /\ recvInfo' = recvInfo \cup {r}
      /\ prefill' = prefill \ {r} /\ doneQ' = doneQ
    BY Zenon DEF AllocRemote, UpdateStateAfterAlloc, TypeOK, Linked
<1>2. TypeOK'
    BY <1>1 DEF TypeOK, AllocRemote, FreeD, DStatus, pVars, wVars
<1>3. DelayedOnce' /\ OneDone' /\ Linked'
    BY <1>1 DEF AllocRemote, DelayedOnce, OneDone, Linked, pVars, Loading
<1>4. LoadOnce'
    <2>1. UNCHANGED <<queue, results, seen>>
        BY Zenon DEF AllocRemote, wVars
    <2>2. \A w \in Worker, q \in Req : InBatch(w, q)' = InBatch(w, q) /\ Reported(w, q)' = Reported(w, q)
        BY <2>1, Zenon DEF InBatch, Reported
    <2> SUFFICES ASSUME NEW w \in Worker, NEW q \in Req
                 PROVE  LoadOnce!(w, q)'
        BY Zenon DEF LoadOnce
    <2>3. LoadOnce!(w, q)
        BY Zenon DEF LoadOnce
    <2> QED
        BY <1>1, <2>1, <2>2, <2>3, Zenon
<1> QED
    BY <1>2, <1>3, <1>4, Zenon

\* A request that needs nothing from P releases it, if it had not done so.
LEMMA AllocLocalKeeps ==
    ASSUME IInv, NEW r \in Req, AllocLocal(r)
    PROVE  IInv'
<1> USE DEF IInv
<1>1. /\ dst[r] \in {"waiting", "requeued", "loaded"}
      /\ \A q \in Req : dst'[q] = IF q = r THEN "running" ELSE dst[q]
      /\ needRecv' = needRecv /\ recvInfo' = recvInfo /\ prefill' = prefill \ {r}
      /\ doneQ'[r] = IF dst[r] = "waiting" THEN doneQ[r] + 1 ELSE doneQ[r]
      /\ \A q \in Req : q # r => doneQ'[q] = doneQ[q]
    BY Zenon DEF AllocLocal, UpdateStateAfterAlloc, TypeOK, Linked
<1>2. TypeOK'
    <2>1. doneQ' \in [Req -> Nat]
        BY DEF AllocLocal, UpdateStateAfterAlloc, TypeOK
    <2>2. dblk' \in [Req -> DBlock \cup {NoBlock}] /\ ddata' \in [Worker -> [DBlock -> Req \cup {Junk}]]
        <3>1. CASE UNCHANGED <<dblk, ddata>>
            BY <3>1, Zenon DEF TypeOK
        <3>2. CASE ~UNCHANGED <<dblk, ddata>>
            <4>1. PICK b \in DBlock :
                     /\ dblk' = [dblk EXCEPT ![r] = b]
                     /\ ddata' = [w \in Worker |-> [ddata[w] EXCEPT ![b] = r]]
                BY <3>2, Zenon DEF AllocLocal, FreeD
            <4>2. \A w \in Worker : [ddata[w] EXCEPT ![b] = r] \in [DBlock -> Req \cup {Junk}]
                BY Zenon DEF TypeOK
            <4> QED
                BY <4>1, <4>2, Zenon DEF TypeOK
        <3> QED
            BY <3>1, <3>2, Zenon
    <2> QED
        BY <1>1, <2>1, <2>2, Zenon DEF TypeOK, AllocLocal, DStatus, pVars, wVars
<1>3. DelayedOnce' /\ Linked'
    BY <1>1 DEF AllocLocal, DelayedOnce, Linked, pVars, Loading
<1>4. OneDone'
    <2>1. \A q \in Req : net'[q] = net[q] /\ net[q] \in Nat /\ doneQ[q] \in Nat
        BY Zenon DEF AllocLocal, TypeOK
    <2> QED
        BY <1>1, <2>1 DEF AllocLocal, OneDone, pVars
<1>5. LoadOnce'
    BY <1>1, LoadsApart DEF AllocLocal, wVars
<1> QED
    BY <1>2, <1>3, <1>4, <1>5, Zenon

\* A preempted request keeps nothing of its load.
LEMMA PreemptKeeps ==
    ASSUME IInv, NEW r \in Req, Preempt(r)
    PROVE  IInv'
<1> USE DEF IInv
<1>1. TypeOK'
    <2>1. dst' \in [Req -> DStatus]
        BY Zenon DEF TypeOK, Preempt, DStatus
    <2> QED
        BY <2>1, Zenon DEF TypeOK, Preempt, pVars, wVars
<1>2. dst[r] = "running" /\ \A q \in Req : dst'[q] = IF q = r THEN "requeued" ELSE dst[q]
    BY Zenon DEF Preempt, TypeOK
<1>3. DelayedOnce' /\ OneDone' /\ Linked'
    BY <1>2 DEF Preempt, DelayedOnce, OneDone, Linked, pVars, Loading
<1>4. LoadOnce'
    BY <1>2, LoadsApart DEF Preempt, wVars
<1> QED
    BY <1>1, <1>3, <1>4, Zenon

\* A request that ends on D before it was allocated releases its producer; one
\* that is being loaded stays on its way.
LEMMA RequestFinishedKeeps ==
    ASSUME IInv, NEW r \in Req, RequestFinished(r)
    PROVE  IInv'
<1> USE DEF IInv
<1>1. /\ dst[r] \in {"waiting", "loading", "loaded", "requeued", "running"}
      /\ \A q \in Req : dst'[q] = IF q # r THEN dst[q]
                                  ELSE IF dst[r] = "loading" THEN "aborting" ELSE "done"
      /\ prefill' = prefill \ {r}
      /\ doneQ'[r] = IF dst[r] = "waiting" THEN doneQ[r] + 1 ELSE doneQ[r]
      /\ \A q \in Req : q # r => doneQ'[q] = doneQ[q]
    BY Zenon DEF RequestFinished, TypeOK, Linked
<1>2. TypeOK'
    <2>1. doneQ' \in [Req -> Nat] /\ dst' \in [Req -> DStatus]
        BY DEF RequestFinished, DStatus, TypeOK
    <2> QED
        BY <1>1, <2>1, Zenon DEF TypeOK, RequestFinished, pVars, wVars
<1>3. DelayedOnce' /\ Linked'
    BY <1>1 DEF RequestFinished, DelayedOnce, Linked, pVars, Loading
<1>4. OneDone'
    <2>1. \A q \in Req : net'[q] = net[q] /\ net[q] \in Nat /\ doneQ[q] \in Nat
        BY Zenon DEF RequestFinished, TypeOK
    <2> QED
        BY <1>1, <2>1 DEF RequestFinished, OneDone, pVars
<1>5. LoadOnce'
    BY <1>1, LoadsApart DEF RequestFinished, wVars
<1> QED
    BY <1>2, <1>3, <1>4, <1>5, Zenon

\* A DONE that leaves the queue reaches the network or is lost.
LEMMA SendDoneKeeps ==
    ASSUME IInv, NEW r \in Req, SendDone(r)
    PROVE  IInv'
<1> USE DEF IInv
<1>1. /\ doneQ[r] > 0 /\ doneQ'[r] = doneQ[r] - 1
      /\ net'[r] \in {net[r], net[r] + 1}
      /\ \A q \in Req : q # r => doneQ'[q] = doneQ[q] /\ net'[q] = net[q]
      /\ \A q \in Req : net[q] \in Nat /\ doneQ[q] \in Nat
    BY Zenon DEF SendDone, TypeOK
<1>2. TypeOK'
    <2>1. doneQ' \in [Req -> Nat] /\ net' \in [Req -> Nat]
        <3>1. doneQ' = [doneQ EXCEPT ![r] = doneQ[r] - 1] /\ doneQ[r] - 1 \in Nat
            BY <1>1 DEF SendDone
        <3>2. net' = net \/ net' = [net EXCEPT ![r] = net[r] + 1]
            BY Zenon DEF SendDone
        <3>3. net \in [Req -> Nat] /\ doneQ \in [Req -> Nat] /\ net[r] + 1 \in Nat
            BY DEF TypeOK
        <3> QED
            BY <3>1, <3>2, <3>3, Zenon
    <2> QED
        BY <2>1, Zenon DEF TypeOK, SendDone, pVars, wVars
<1>3. dst[r] \notin {"none", "offered", "waiting", "loading", "aborting"}
    BY <1>1 DEF OneDone, Linked
<1>4. DelayedOnce' /\ Linked'
    <2>1. DelayedOnce'
        BY Zenon DEF SendDone, DelayedOnce, pVars
    <2>2. UNCHANGED <<pst, pblk, dst, prefill, recvInfo>>
        BY Zenon DEF SendDone, pVars
    <2>3. \A q \in Req : q # r => doneQ'[q] = doneQ[q] /\ net'[q] = net[q]
        BY Zenon DEF SendDone, TypeOK
    <2> QED
        BY <1>3, <2>1, <2>2, <2>3, Zenon DEF Linked
<1>5. OneDone'
    <2>1. ASSUME NEW q \in Req PROVE doneQ'[q] + net'[q] <= 1
        BY <1>1 DEF OneDone
    <2>2. ASSUME NEW q \in Req, dst[q] \in {"offered", "waiting", "loading", "aborting"}
          PROVE  doneQ'[q] + net'[q] = 0 /\ q \notin finished
        BY <2>2, <1>1, <1>3, Zenon DEF OneDone
    <2> QED
        BY <2>1, <2>2, Zenon DEF SendDone, OneDone, pVars
<1>6. LoadOnce'
    BY LoadsApart, Zenon DEF SendDone, wVars
<1> QED
    BY <1>2, <1>4, <1>5, <1>6, Zenon

\* The pass ends: a request waiting for it goes to one new batch per worker.
LEMMA BuildConnectorMetaKeeps ==
    ASSUME IInv, BuildConnectorMeta
    PROVE  IInv'
<1> USE DEF IInv
<1>1. /\ needRecv \in SUBSET Req
      /\ \A w \in Worker : queue[w] \in Seq(SUBSET Req) /\ queue'[w] = Append(queue[w], needRecv)
    BY Zenon DEF BuildConnectorMeta, TypeOK
<1>2. TypeOK'
    <2>1. queue' \in [Worker -> Seq(SUBSET Req)]
        BY <1>1 DEF BuildConnectorMeta, TypeOK
    <2> QED
        BY <2>1, Zenon DEF TypeOK, BuildConnectorMeta, pVars
<1>3. DelayedOnce' /\ OneDone' /\ Linked'
    BY ZenonT(60) DEF BuildConnectorMeta, DelayedOnce, OneDone, Linked, pVars, Loading
<1>4. LoadOnce'
    <2> SUFFICES ASSUME NEW w \in Worker, NEW r \in Req
                 PROVE  LoadOnce!(w, r)'
        BY ZenonT(60) DEF LoadOnce
    <2>1. LoadOnce!(w, r)
        BY Zenon DEF LoadOnce
    <2>2. UNCHANGED <<dst, results, seen>> /\ needRecv' = {}
        BY Zenon DEF BuildConnectorMeta
    <2>3. Reported(w, r)' = Reported(w, r)
        BY <2>2, Zenon DEF Reported
    <2>4. /\ DOMAIN queue'[w] = 1 .. Len(queue[w]) + 1
          /\ \A i \in 1 .. Len(queue[w]) : queue'[w][i] = queue[w][i]
          /\ queue'[w][Len(queue[w]) + 1] = needRecv
          /\ DOMAIN queue[w] = 1 .. Len(queue[w]) /\ Len(queue[w]) \in Nat
        BY <1>1
    <2>5. InBatch(w, r)' <=> InBatch(w, r) \/ r \in needRecv
        BY <2>4 DEF InBatch
    <2>6. \A i, j \in DOMAIN queue'[w] : r \in queue'[w][i] /\ r \in queue'[w][j] => i = j
        BY <2>1, <2>4 DEF InBatch
    <2> QED
        BY <2>1, <2>2, <2>3, <2>5, <2>6, Zenon
<1> QED
    BY <1>2, <1>3, <1>4, Zenon

-----------------------------------------------------------------------------
(* D's workers *)

\* A read writes D's memory; P's blocks have a place to read from.
LEMMA TransferKeeps ==
    ASSUME IInv, NEW w \in Worker, NEW r \in Req, Transfer(w, r)
    PROVE  IInv'
<1> USE DEF IInv
<1>1. InBatch(w, r)
    <2>1. queue[w] # <<>> /\ r \in Head(queue[w]) /\ queue[w] \in Seq(SUBSET Req)
        BY Zenon DEF Transfer, ToRead, Batch, TypeOK
    <2>2. 1 \in DOMAIN queue[w] /\ Head(queue[w]) = queue[w][1]
        BY <2>1
    <2> QED
        BY <2>1, <2>2, Zenon DEF InBatch
<1>2. pblk[r] \in PBlock
    BY <1>1, Zenon DEF LoadOnce, Linked
<1>3. TypeOK'
    <2>1. PICK c \in Req \cup {Junk} : ddata' = [ddata EXCEPT ![w][dblk[r]] = c]
        BY <1>2, Zenon DEF Transfer, TypeOK
    <2>2. ddata' \in [Worker -> [DBlock -> Req \cup {Junk}]]
        BY <2>1, Zenon DEF TypeOK
    <2>3. read' \in [Worker -> SUBSET Req] /\ lost' \in [Worker -> SUBSET Req]
        <3>1. read[w] \cup {r} \in SUBSET Req /\ lost[w] \cup {r} \in SUBSET Req
            BY Zenon DEF TypeOK
        <3>2. read' = [read EXCEPT ![w] = read[w] \cup {r}]
            BY Zenon DEF Transfer
        <3>3. lost' = lost \/ lost' = [lost EXCEPT ![w] = lost[w] \cup {r}]
            BY Zenon DEF Transfer
        <3> QED
            BY <3>1, <3>2, <3>3, ZenonT(60) DEF TypeOK
    <2> QED
        BY <2>2, <2>3, Zenon DEF TypeOK, Transfer, pVars
<1>4. DelayedOnce' /\ OneDone' /\ Linked'
    BY Zenon DEF Transfer, DelayedOnce, OneDone, Linked, pVars, Loading
<1>5. LoadOnce'
    BY LoadsApart, Zenon DEF Transfer
<1> QED
    BY <1>3, <1>4, <1>5, Zenon

\* The requests of the first batch go to the results, each with one verdict.
LEMMA FinishBatchKeeps ==
    ASSUME IInv, NEW w \in Worker, FinishBatch(w)
    PROVE  IInv'
<1> USE DEF IInv
<1>1. PICK bad : results' = [results EXCEPT ![w] =
                                @ \cup {<<r, IF r \in bad THEN "failed" ELSE "ok">> : r \in Batch(w)}]
    BY Zenon DEF FinishBatch
<1>2. /\ queue[w] # <<>> /\ queue[w] \in Seq(SUBSET Req)
      /\ queue'[w] = Tail(queue[w]) /\ \A v \in Worker : v # w => queue'[v] = queue[v]
    BY Zenon DEF FinishBatch, TypeOK
<1>3. /\ Batch(w) = queue[w][1] /\ Batch(w) \subseteq Req
      /\ Len(queue[w]) \in Nat \ {0} /\ DOMAIN queue[w] = 1 .. Len(queue[w])
      /\ Tail(queue[w]) \in Seq(SUBSET Req)
      /\ DOMAIN Tail(queue[w]) = 1 .. Len(queue[w]) - 1
      /\ \A i \in 1 .. Len(queue[w]) - 1 : Tail(queue[w])[i] = queue[w][i + 1]
    <2>1. PICK s : s = queue[w]
        BY Zenon
    <2>2. s # <<>> /\ s \in Seq(SUBSET Req)
        BY <1>2, <2>1, Zenon
    <2>3. /\ Head(s) = s[1] /\ Head(s) \subseteq Req
          /\ Len(s) \in Nat \ {0} /\ DOMAIN s = 1 .. Len(s)
          /\ Tail(s) \in Seq(SUBSET Req)
          /\ DOMAIN Tail(s) = 1 .. Len(s) - 1
          /\ \A i \in 1 .. Len(s) - 1 : Tail(s)[i] = s[i + 1]
        BY <2>2
    <2> QED
        BY <2>1, <2>3, Zenon DEF Batch
<1>4. TypeOK'
    <2>1. {<<r, IF r \in bad THEN "failed" ELSE "ok">> : r \in Batch(w)} \subseteq Req \X Verdict
        BY <1>3 DEF Verdict
    <2>2. results' \in [Worker -> SUBSET (Req \X Verdict)]
        BY <1>1, <2>1, Zenon DEF TypeOK
    <2>3. queue' \in [Worker -> Seq(SUBSET Req)]
        BY <1>3, ZenonT(60) DEF TypeOK, FinishBatch
    <2> QED
        BY <2>2, <2>3, Zenon DEF TypeOK, FinishBatch, pVars, dVars
<1>5. DelayedOnce' /\ OneDone' /\ Linked'
    BY Zenon DEF FinishBatch, DelayedOnce, OneDone, Linked, pVars, dVars, Loading
<1>6. LoadOnce'
    <2> SUFFICES ASSUME NEW v \in Worker, NEW r \in Req
                 PROVE  LoadOnce!(v, r)'
        BY Zenon DEF LoadOnce
    <2>1. LoadOnce!(v, r) /\ UNCHANGED <<dst, needRecv, seen>>
        BY ZenonT(60) DEF LoadOnce, FinishBatch, dVars
    <2>2. CASE v # w
        <3>1. queue'[v] = queue[v] /\ results'[v] = results[v]
            BY <2>2, <1>1, <1>2, Zenon DEF TypeOK
        <3>2. InBatch(v, r)' = InBatch(v, r) /\ Reported(v, r)' = Reported(v, r)
            BY <3>1, Zenon DEF InBatch, Reported
        <3> QED
            BY <2>1, <3>1, <3>2, Zenon
    <2>3. CASE v = w
        <3>1. \A u \in Verdict : <<r, u>> \in results'[w] <=>
                 \/ <<r, u>> \in results[w]
                 \/ r \in Batch(w) /\ u = IF r \in bad THEN "failed" ELSE "ok"
            BY <1>1, <1>3, ZenonT(60) DEF TypeOK
        <3>2. Reported(w, r)' <=> Reported(w, r) \/ r \in Batch(w)
            BY <3>1, Zenon DEF Reported, Verdict
        <3>3. InBatch(w, r)' <=> InBatch(w, r) /\ r \notin Batch(w)
            <4>1. ASSUME NEW i \in 1 .. Len(queue[w]) - 1, r \in queue[w][i + 1]
                  PROVE  InBatch(w, r) /\ r \notin Batch(w)
                <5>1. i + 1 \in DOMAIN queue[w] /\ 1 \in DOMAIN queue[w] /\ i + 1 # 1
                    BY <1>3
                <5> QED
                    BY <4>1, <5>1, <1>3, <2>1, <2>3, Zenon DEF InBatch
            <4>2. ASSUME NEW i \in DOMAIN queue[w], r \in queue[w][i], r \notin Batch(w)
                  PROVE  InBatch(w, r)'
                <5>1. i - 1 \in 1 .. Len(queue[w]) - 1 /\ (i - 1) + 1 = i
                    BY <4>2, <1>3
                <5>2. Tail(queue[w])[i - 1] = queue[w][i]
                    BY <5>1, <1>3, Zenon
                <5> QED
                    BY <4>2, <5>1, <5>2, <1>2, <1>3, Zenon DEF InBatch
            <4> QED
                BY <4>1, <4>2, <1>2, <1>3, Zenon DEF InBatch
        <3>4. r \in Batch(w) => InBatch(w, r)
            BY <1>3 DEF InBatch
        <3>5. \A i, j \in DOMAIN queue'[w] : r \in queue'[w][i] /\ r \in queue'[w][j] => i = j
            <4> SUFFICES ASSUME NEW i \in 1 .. Len(queue[w]) - 1, NEW j \in 1 .. Len(queue[w]) - 1,
                                r \in queue[w][i + 1], r \in queue[w][j + 1]
                         PROVE  i = j
                BY <1>2, <1>3
            <4>1. i + 1 \in DOMAIN queue[w] /\ j + 1 \in DOMAIN queue[w]
                BY <1>3
            <4>2. i + 1 = j + 1
                BY <4>1, <2>1, <2>3, Zenon
            <4> QED
                BY <4>2
        <3>6. ~(<<r, "ok">> \in results'[w] /\ <<r, "failed">> \in results'[w])
            BY <3>1, <3>4, <2>1, <2>3, Zenon DEF Reported, Verdict
        <3> QED
            BY <2>1, <2>3, <3>2, <3>3, <3>4, <3>5, <3>6, Zenon
    <2> QED
        BY <2>2, <2>3, Zenon
<1> QED
    BY <1>4, <1>5, <1>6, Zenon

\* The aggregator counts a worker; the last one completes the load, and no
\* worker then holds the request.
LEMMA CollectKeeps ==
    ASSUME IInv, NEW w \in Worker, NEW r \in Req, Collect(w, r)
    PROVE  IInv'
<1> USE DEF IInv
<1>1. PICK v \in Verdict :
         /\ <<r, v>> \in results[w]
         /\ results' = [results EXCEPT ![w] = @ \ {<<r, v>>}]
         /\ IF seen[r] \cup {w} = Worker
            THEN /\ Complete(r, v = "failed" \/ r \in failed)
                 /\ seen' = [seen EXCEPT ![r] = {}]
                 /\ failed' = failed \ {r}
            ELSE /\ seen' = [seen EXCEPT ![r] = @ \cup {w}]
                 /\ failed' = IF v = "failed" THEN failed \cup {r} ELSE failed
                 /\ UNCHANGED <<recvInfo, doneQ, dst>>
    BY Zenon DEF Collect
<1>2. UNCHANGED <<pVars, dblk, ddata, prefill, needRecv, net, queue, read, lost>> /\ needRecv = {}
    BY Zenon DEF Collect
<1>3. Reported(w, r) /\ dst[r] \in Loading /\ w \notin seen[r] /\ ~InBatch(w, r)
    BY <1>1, Zenon DEF Reported, LoadOnce, Loading
<1>4. /\ results' \in [Worker -> SUBSET (Req \X Verdict)]
      /\ \A u \in Worker : u # w => results'[u] = results[u]
      /\ results'[w] = results[w] \ {<<r, v>>}
    BY <1>1, Zenon DEF TypeOK
<1>5. \A q \in Req : Reported(w, q)' <=> Reported(w, q) /\ q # r
    <2>1. \A q \in Req, u \in Verdict : q # r => (<<q, u>> \in results'[w] <=> <<q, u>> \in results[w])
        BY <1>4, Zenon
    <2>2. \A u \in Verdict : <<r, u>> \notin results'[w]
        BY <1>1, <1>4, Zenon DEF LoadOnce, Verdict
    <2> QED
        BY <2>1, <2>2, Zenon DEF Reported
<1>6. \A u \in Worker, q \in Req : /\ InBatch(u, q)' = InBatch(u, q)
                                   /\ u # w => Reported(u, q)' = Reported(u, q)
    BY <1>2, <1>4, Zenon DEF InBatch, Reported
<1>7. CASE seen[r] \cup {w} # Worker
    <2>1. /\ UNCHANGED <<recvInfo, doneQ, dst>>
          /\ seen'[r] = seen[r] \cup {w} /\ \A q \in Req : q # r => seen'[q] = seen[q]
        BY <1>1, <1>7, Zenon DEF TypeOK
    <2>2. TypeOK'
        <3>1. seen' = [seen EXCEPT ![r] = seen[r] \cup {w}] /\ seen[r] \cup {w} \in SUBSET Worker
            BY <1>1, <1>7, Zenon DEF TypeOK
        <3>2. seen' \in [Req -> SUBSET Worker]
            BY <3>1, Zenon DEF TypeOK
        <3>3. failed' \subseteq Req
            BY <1>1, <1>7 DEF TypeOK
        <3> QED
            BY <3>2, <3>3, <2>1, <1>2, <1>4, Zenon DEF TypeOK, pVars
    <2>3. DelayedOnce' /\ OneDone' /\ Linked'
        BY <2>1, <1>2, Zenon DEF DelayedOnce, OneDone, Linked, pVars, Loading
    <2>4. LoadOnce'
        <3> SUFFICES ASSUME NEW u \in Worker, NEW q \in Req
                     PROVE  LoadOnce!(u, q)'
            BY Zenon DEF LoadOnce
        <3>1. LoadOnce!(u, q)
            BY Zenon DEF LoadOnce
        <3>2. u \in seen'[q] <=> u \in seen[q] \/ (u = w /\ q = r)
            BY <2>1, Zenon
        <3>3. ~(<<q, "ok">> \in results'[u] /\ <<q, "failed">> \in results'[u])
            BY <3>1, <1>4, Zenon
        <3> QED
            BY <1>2, <1>3, <1>5, <1>6, <2>1, <3>1, <3>2, <3>3, Zenon DEF Loading
    <2> QED
        BY <2>2, <2>3, <2>4, Zenon
<1>8. CASE seen[r] \cup {w} = Worker
    <2>1. Complete(r, v = "failed" \/ r \in failed)
        BY <1>1, <1>8, Zenon
    <2>2. /\ recvInfo' = recvInfo \ {r} /\ r \in recvInfo
          /\ doneQ'[r] = doneQ[r] + 1 /\ doneQ' \in [Req -> Nat]
          /\ \A q \in Req : q # r => doneQ'[q] = doneQ[q]
        BY <2>1, <1>3 DEF Complete, Linked, TypeOK
    <2>3. PICK s \in {"loaded", "requeued", "done"} : dst' = [dst EXCEPT ![r] = s]
        BY <2>1, Zenon DEF Complete
    <2>4. dst'[r] = s /\ \A q \in Req : q # r => dst'[q] = dst[q]
        BY <2>3, Zenon DEF TypeOK
    <2>5. seen'[r] = {} /\ \A q \in Req : q # r => seen'[q] = seen[q]
        BY <1>1, <1>8, Zenon DEF TypeOK
    <2>6. TypeOK'
        <3>1. seen' \in [Req -> SUBSET Worker] /\ failed' \subseteq Req /\ dst' \in [Req -> DStatus]
            BY <1>1, <1>8, <2>3, Zenon DEF TypeOK, DStatus
        <3> QED
            BY <3>1, <2>2, <1>2, <1>4, Zenon DEF TypeOK, pVars
    <2>7. DelayedOnce' /\ Linked'
        BY <1>2, <1>3, <2>2, <2>4, ZenonT(60) DEF DelayedOnce, Linked, pVars, Loading
    <2>8. OneDone'
        <3>1. net' = net /\ finished' = finished /\ \A q \in Req : net[q] \in Nat /\ doneQ[q] \in Nat
            BY <1>2, Zenon DEF TypeOK, pVars
        <3>2. doneQ[r] + net[r] = 0
            BY <1>3, Zenon DEF OneDone, Loading
        <3> QED
            BY <3>1, <3>2, <2>2, <2>4 DEF OneDone
    <2>9. LoadOnce'
        <3> SUFFICES ASSUME NEW u \in Worker, NEW q \in Req
                     PROVE  LoadOnce!(u, q)'
            BY Zenon DEF LoadOnce
        <3>1. LoadOnce!(u, q)
            BY Zenon DEF LoadOnce
        <3>2. ~(<<q, "ok">> \in results'[u] /\ <<q, "failed">> \in results'[u])
            BY <3>1, <1>4, Zenon
        <3>3. CASE q # r
            BY <1>2, <1>5, <1>6, <2>4, <2>5, <3>1, <3>2, <3>3, Zenon
        <3>4. CASE q = r
            <4>1. ~InBatch(u, r) /\ ~Reported(u, r)'
                BY <1>3, <1>5, <1>6, <1>8, <3>1, <3>4, Zenon
            <4> QED
                BY <1>2, <1>6, <2>4, <2>5, <3>1, <3>2, <3>4, <4>1, Zenon
        <3> QED
            BY <3>3, <3>4, Zenon
    <2> QED
        BY <2>6, <2>7, <2>8, <2>9, Zenon
<1> QED
    BY <1>7, <1>8, Zenon

-----------------------------------------------------------------------------
(* The invariant *)

\* Every step of P, of D's scheduler and of its workers keeps the invariant.
THEOREM Invariant == Spec => []IInv
<1>1. Init => IInv
    BY InitIInv, Zenon
<1>2. IInv /\ [Next]_vars => IInv'
    <2> SUFFICES ASSUME IInv, [Next]_vars PROVE IInv'
        BY Zenon
    <2>1. CASE Next
        BY <2>1, PrefillKeeps, FinishPrefillKeeps, AbortPrefillKeeps, HandleFinishedRequestKeeps,
           FreeFinishedKeeps, TickKeeps, ArriveKeeps, DropKeeps, AllocRemoteKeeps, AllocLocalKeeps,
           PreemptKeeps, RequestFinishedKeeps, SendDoneKeeps, BuildConnectorMetaKeeps,
           TransferKeeps, FinishBatchKeeps, CollectKeeps, Zenon DEF Next
    <2>2. CASE UNCHANGED vars
        <3>1. TypeOK' /\ DelayedOnce' /\ OneDone' /\ Linked'
            BY <2>2, Zenon DEF IInv, TypeOK, DelayedOnce, OneDone, Linked, Loading, vars, pVars, dVars, wVars
        <3>2. LoadOnce'
            BY <2>2, LoadsApart, Zenon DEF IInv, vars, dVars, wVars
        <3> QED
            BY <3>1, <3>2, Zenon DEF IInv
    <2> QED
        BY <2>1, <2>2, Zenon
<1> QED
    BY <1>1, <1>2, PTL DEF Spec

\* Every variable keeps its type, at whatever size.
THEOREM TypeCorrect == Spec => []TypeOK
BY Invariant, PTL DEF IInv

\* P tells vLLM exactly once to free a request it keeps.
THEOREM DelayedExactlyOnce == Spec => []DelayedOnce
BY Invariant, PTL DEF IInv

\* D releases a producer at most once, and never while it may still read.
THEOREM DoneAtMostOnce == Spec => []OneDone
BY Invariant, PTL DEF IInv

\* No load is lost or doubled on its way through the workers.
THEOREM LoadsAreTracked == Spec => []LoadOnce
BY Invariant, PTL DEF IInv

-----------------------------------------------------------------------------
(* The lease *)

\* The lease, the reader and the expired requests, as ImplementsLease maps them.
LeaseOf(r) == IF pst[r] = "delayed" THEN "lent" ELSE IF pst[r] = "freed" THEN "back" ELSE "none"
ReaderOf(r) == IF dst[r] \in {"loading", "aborting"} THEN "reading"
               ELSE IF dst[r] \in {"none", "offered", "waiting"} THEN "idle" ELSE "gone"
leaseBar == [r \in Req |-> LeaseOf(r)]
readerBar == [r \in Req |-> ReaderOf(r)]

\* A step that changes neither end of any lease is a stutter of BlockLease.
LEMMA LeaseStutter ==
    ASSUME \A r \in Req : LeaseOf(r)' = LeaseOf(r) /\ ReaderOf(r)' = ReaderOf(r), UNCHANGED forced
    PROVE  UNCHANGED <<leaseBar, readerBar, forced>>
BY Zenon DEF leaseBar, readerBar

\* A step that changes one request's end of the lease updates one entry of the
\* mapped function.
LEMMA LeaseEntry ==
    ASSUME NEW r \in Req, \A q \in Req : q # r => LeaseOf(q)' = LeaseOf(q)
    PROVE  leaseBar' = [leaseBar EXCEPT ![r] = LeaseOf(r)'] /\ leaseBar[r] = LeaseOf(r)
BY Zenon DEF leaseBar

\* The same for the reader's end.
LEMMA ReaderEntry ==
    ASSUME NEW r \in Req, \A q \in Req : q # r => ReaderOf(q)' = ReaderOf(q)
    PROVE  readerBar' = [readerBar EXCEPT ![r] = ReaderOf(r)'] /\ readerBar[r] = ReaderOf(r)
BY Zenon DEF readerBar

\* The initial states map to the initial state of the lease.
LEMMA LeaseInit == Init => Lease!Init
BY Zenon DEF Init, Lease!Init

\* P's step that keeps a request's blocks is the lease's Lend.
LEMMA FinishPrefillLends ==
    ASSUME IInv, NEW r \in Req, FinishPrefill(r)
    PROVE  Lease!Lend(r)
<1>1. /\ pst[r] = "prefilling" /\ dst[r] = "none"
      /\ \A q \in Req : /\ pst'[q] = IF q = r THEN "delayed" ELSE pst[q]
                        /\ dst'[q] = IF q = r THEN "offered" ELSE dst[q]
    BY Zenon DEF FinishPrefill, IInv, TypeOK, Linked
<1>2. leaseBar[r] = "none" /\ leaseBar' = [leaseBar EXCEPT ![r] = "lent"]
    BY <1>1, LeaseEntry, Zenon DEF LeaseOf
<1>3. readerBar' = readerBar /\ forced' = forced
    BY <1>1 DEF readerBar, ReaderOf, FinishPrefill
<1> QED
    BY <1>2, <1>3, Zenon DEF leaseBar, readerBar, LeaseOf, ReaderOf, Lease!Lend

\* The load of D's first allocation is the lease's Open.
LEMMA AllocRemoteOpens ==
    ASSUME IInv, NEW r \in Req, AllocRemote(r)
    PROVE  Lease!Open(r)
<1>1. /\ dst[r] = "waiting" /\ pst[r] \in {"delayed", "freed"}
      /\ \A q \in Req : dst'[q] = IF q = r THEN "loading" ELSE dst[q]
      /\ pst' = pst /\ forced' = forced
    BY Zenon DEF AllocRemote, IInv, TypeOK, Linked, pVars
<1>2. readerBar[r] = "idle" /\ readerBar' = [readerBar EXCEPT ![r] = "reading"]
    BY <1>1, ReaderEntry, Zenon DEF ReaderOf
<1>3. leaseBar' = leaseBar /\ leaseBar[r] # "none"
    BY <1>1, Zenon DEF leaseBar, LeaseOf
<1> QED
    BY <1>1, <1>2, <1>3, Zenon DEF leaseBar, readerBar, LeaseOf, ReaderOf, Lease!Open

\* Any step of D that leaves P alone and takes one request from "not done with
\* P" to "done with P" is the lease's Close.
LEMMA ClosingStep ==
    ASSUME NEW r \in Req, UNCHANGED <<pst, forced>>,
           dst[r] \in {"offered", "waiting", "loading", "aborting"},
           dst'[r] \in {"loaded", "requeued", "running", "done"},
           \A q \in Req : q # r => dst'[q] = dst[q]
    PROVE  Lease!Close(r)
<1>1. readerBar[r] # "gone" /\ readerBar' = [readerBar EXCEPT ![r] = "gone"]
    BY ReaderEntry, Zenon DEF ReaderOf
<1>2. leaseBar' = leaseBar
    BY Zenon DEF leaseBar, LeaseOf
<1> QED
    BY <1>1, <1>2, Zenon DEF leaseBar, readerBar, LeaseOf, ReaderOf, Lease!Close

\* What P frees is reported by a reader that is gone, or expired.
LEMMA FreeFinishedTakesBack ==
    ASSUME IInv, FreeFinished
    PROVE  Lease!TakeBack(finished, Expired)
<1>1. finished \subseteq Req /\ Expired \subseteq delayed /\ delayed \subseteq Req
    BY Zenon DEF IInv, TypeOK, Expired
<1>2. \A r \in finished : leaseBar[r] = "lent" /\ readerBar[r] = "gone"
    <2> SUFFICES ASSUME NEW r \in finished PROVE leaseBar[r] = "lent" /\ readerBar[r] = "gone"
        BY Zenon
    <2>1. r \in Req /\ pst[r] = "delayed"
        BY <1>1, Zenon DEF IInv, DelayedOnce
    <2>2. dst[r] \notin {"none", "offered", "waiting", "loading", "aborting"}
        BY <2>1, Zenon DEF IInv, OneDone, Linked
    <2> QED
        BY <2>1, <2>2, Zenon DEF leaseBar, readerBar, LeaseOf, ReaderOf
<1>3. \A r \in Expired : leaseBar[r] = "lent"
    BY <1>1, Zenon DEF IInv, DelayedOnce, leaseBar, LeaseOf
<1>4. leaseBar' = [r \in Req |-> IF r \in finished \cup Expired THEN "back" ELSE leaseBar[r]]
    BY Zenon DEF FreeFinished, leaseBar, LeaseOf
<1>5. readerBar' = readerBar /\ forced' = forced \cup Expired
    BY Zenon DEF FreeFinished, readerBar, ReaderOf, dVars
<1> QED
    BY <1>2, <1>3, <1>4, <1>5, Zenon DEF leaseBar, readerBar, LeaseOf, ReaderOf, Lease!TakeBack

\* A step that leaves both ends of every lease alone changes none of the
\* variables of BlockLease.
LEMMA ApartStep ==
    ASSUME UNCHANGED forced,
           \A r \in Req : LeaseOf(r)' = LeaseOf(r) /\ ReaderOf(r)' = ReaderOf(r)
    PROVE  Lease!vars' = Lease!vars
BY LeaseStutter, Zenon DEF leaseBar, readerBar, LeaseOf, ReaderOf, Lease!vars

\* Every step maps to a step of the lease or to a stutter.
LEMMA LeaseStep ==
    ASSUME IInv, [Next]_vars
    PROVE  [Lease!Next]_(Lease!vars)
<1> USE DEF Lease!Next
<1>1. ASSUME NEW r \in Req, Prefill(r) PROVE Lease!vars' = Lease!vars
    <2>1. \A q \in Req : LeaseOf(q)' = LeaseOf(q) /\ ReaderOf(q)' = ReaderOf(q)
        BY <1>1, Zenon DEF Prefill, LeaseOf, ReaderOf, IInv, TypeOK, dVars
    <2> QED
        BY <1>1, <2>1, ApartStep, Zenon DEF Prefill
<1>2. ASSUME NEW r \in Req, AbortPrefill(r) PROVE Lease!Withdraw(r)
    <2>1. /\ pst[r] = "prefilling" /\ UNCHANGED <<dst, forced>>
          /\ \A q \in Req : pst'[q] = IF q = r THEN "freed" ELSE pst[q]
        BY <1>2, Zenon DEF AbortPrefill, IInv, TypeOK, dVars
    <2>2. leaseBar[r] = "none" /\ leaseBar' = [leaseBar EXCEPT ![r] = "back"]
        BY <2>1, LeaseEntry, Zenon DEF LeaseOf
    <2>3. readerBar' = readerBar
        BY <2>1, Zenon DEF readerBar, ReaderOf
    <2> QED
        BY <2>1, <2>2, <2>3, Zenon DEF leaseBar, readerBar, LeaseOf, ReaderOf, Lease!Withdraw
<1>3. ASSUME NEW r \in Req, Drop(r) PROVE Lease!Close(r)
    BY <1>3, ClosingStep, Zenon DEF Drop, IInv, TypeOK, pVars
<1>4. ASSUME NEW r \in Req, AllocLocal(r) PROVE Lease!Close(r) \/ Lease!vars' = Lease!vars
    <2>1. /\ dst[r] \in {"waiting", "requeued", "loaded"} /\ dst'[r] = "running"
          /\ \A q \in Req : q # r => dst'[q] = dst[q]
          /\ UNCHANGED <<pst, forced>>
        BY <1>4, Zenon DEF AllocLocal, IInv, TypeOK, pVars
    <2>2. CASE dst[r] = "waiting"
        BY <2>1, <2>2, ClosingStep, Zenon
    <2>3. CASE dst[r] # "waiting"
        BY <2>1, <2>3, ApartStep, Zenon DEF LeaseOf, ReaderOf
    <2> QED
        BY <2>2, <2>3, Zenon
<1>5. ASSUME NEW r \in Req, RequestFinished(r) PROVE Lease!Close(r) \/ Lease!vars' = Lease!vars
    <2>1. /\ dst[r] \in {"waiting", "loading", "loaded", "requeued", "running"}
          /\ dst'[r] = IF dst[r] = "loading" THEN "aborting" ELSE "done"
          /\ \A q \in Req : q # r => dst'[q] = dst[q]
          /\ UNCHANGED <<pst, forced>>
        BY <1>5, Zenon DEF RequestFinished, IInv, TypeOK, pVars
    <2>2. CASE dst[r] = "waiting"
        BY <2>1, <2>2, ClosingStep, Zenon
    <2>3. CASE dst[r] # "waiting"
        BY <2>1, <2>3, ApartStep, Zenon DEF LeaseOf, ReaderOf
    <2> QED
        BY <2>2, <2>3, Zenon
<1>6. ASSUME NEW r \in Req, Arrive(r) \/ Preempt(r) PROVE Lease!vars' = Lease!vars
    <2>1. \A q \in Req : LeaseOf(q)' = LeaseOf(q) /\ ReaderOf(q)' = ReaderOf(q)
        BY <1>6, Zenon DEF Arrive, Preempt, LeaseOf, ReaderOf, IInv, TypeOK, pVars
    <2> QED
        BY <1>6, <2>1, ApartStep, Zenon DEF Arrive, Preempt, pVars
<1>7. ASSUME NEW w \in Worker, NEW r \in Req, Collect(w, r) PROVE Lease!Close(r) \/ Lease!vars' = Lease!vars
    <2>1. Reported(w, r) /\ UNCHANGED <<pst, forced>>
        BY <1>7, Zenon DEF Collect, Reported, pVars
    <2>2. dst[r] \in {"loading", "aborting"}
        BY <2>1, Zenon DEF IInv, LoadOnce
    <2>3. \/ dst' = dst
          \/ \E s \in {"loaded", "requeued", "done"} : dst' = [dst EXCEPT ![r] = s]
        BY <1>7, Zenon DEF Collect, Complete
    <2>4. CASE dst' = dst
        BY <2>1, <2>4, ApartStep, Zenon DEF LeaseOf, ReaderOf
    <2>5. CASE dst' # dst
        <3>1. dst'[r] \in {"loaded", "requeued", "done"} /\ \A q \in Req : q # r => dst'[q] = dst[q]
            BY <2>3, <2>5, Zenon DEF IInv, TypeOK
        <3> QED
            BY <2>1, <2>2, <3>1, ClosingStep, Zenon
    <2> QED
        BY <2>4, <2>5, Zenon
<1>8. ASSUME UNCHANGED <<pst, forced, dst>> PROVE Lease!vars' = Lease!vars
    BY <1>8, ApartStep, Zenon DEF LeaseOf, ReaderOf
<1>9. ASSUME NEW r \in Req, HandleFinishedRequest(r) \/ SendDone(r)
      PROVE  UNCHANGED <<pst, forced, dst>>
    BY <1>9, Zenon DEF HandleFinishedRequest, SendDone, pVars, dVars
<1>10. ASSUME NEW w \in Worker, FinishBatch(w) \/ \E r \in Req : Transfer(w, r)
       PROVE  UNCHANGED <<pst, forced, dst>>
    BY <1>10, Zenon DEF FinishBatch, Transfer, pVars, dVars
<1>11. ASSUME BuildConnectorMeta \/ Tick \/ UNCHANGED vars
       PROVE  UNCHANGED <<pst, forced, dst>>
    BY <1>11, Zenon DEF BuildConnectorMeta, Tick, vars, pVars, dVars
<1>12. ASSUME FreeFinished PROVE Lease!Next
    <2>1. finished \in SUBSET Req /\ Expired \in SUBSET Req
        BY Zenon DEF IInv, TypeOK, Expired
    <2>2. Lease!TakeBack(finished, Expired)
        BY <1>12, FreeFinishedTakesBack, Zenon
    <2>3. \E returned, late \in SUBSET Req : Lease!TakeBack(returned, late)
        BY <2>1, <2>2, Zenon DEF Lease!TakeBack
    <2> QED
        BY <2>3, Zenon
<1>13. ASSUME NEW r \in Req, FinishPrefill(r) \/ AllocRemote(r) PROVE Lease!Next
    BY <1>13, FinishPrefillLends, AllocRemoteOpens, Zenon
<1> QED
    BY <1>1, <1>2, <1>3, <1>4, <1>5, <1>6, <1>7, <1>8, <1>9, <1>10, <1>11, <1>12, <1>13, Zenon DEF Next

\* P's delayed free, D's DONE and the timeout implement the lease: blocks come
\* back before they expire only when D is done with them on every worker.
THEOREM PullImplementsLease == Spec => ImplementsLease
<1>1. Init => Lease!Init
    BY LeaseInit, Zenon
<1>2. IInv /\ [Next]_vars => [Lease!Next]_(Lease!vars)
    BY LeaseStep, Zenon
<1> QED
    BY <1>1, <1>2, Invariant, PTL DEF Spec, ImplementsLease, Lease!Spec

-----------------------------------------------------------------------------
(* The order of the delayed requests *)

Registered == {q \in Req : pst[q] \in {"delayed", "freed"}}

\* The dictionary is in the order of its start times, and a new key goes last.
Ordered ==
    \A q \in delayed :
        /\ place[q] < Cardinality(Registered)
        /\ \A r \in delayed : place[q] <= place[r] => age[r] <= age[q]

\* A step that neither registers a request nor lets time pass keeps the order.
LEMMA OrderApart ==
    ASSUME Ordered, delayed' \subseteq delayed, UNCHANGED <<place, age>>, Registered' = Registered
    PROVE  Ordered'
BY Zenon DEF Ordered

\* One more registered request, one more place.
LEMMA OneMoreRegistered ==
    ASSUME NEW r \in Req, r \notin Registered, Registered' = Registered \cup {r}
    PROVE  Cardinality(Registered) \in Nat /\ Cardinality(Registered)' = Cardinality(Registered) + 1
<1>1. IsFiniteSet(Registered)
    BY FS_Subset, NameAssumption, Zenon DEF Registered
<1>2. Cardinality(Registered \cup {r}) = Cardinality(Registered) + 1
    BY <1>1, FS_AddElement, Zenon
<1> QED
    BY <1>1, <1>2, FS_CardinalityType, Zenon

\* Every step keeps the dictionary ordered.
LEMMA OrderStep ==
    ASSUME IInv, Ordered, [Next]_vars
    PROVE  Ordered'
<1>1. ASSUME NEW r \in Req, Prefill(r) PROVE Ordered'
    <2>1. Registered' = Registered
        BY <1>1, Zenon DEF Prefill, Registered, IInv, TypeOK
    <2> QED
        BY <1>1, <2>1, OrderApart, Zenon DEF Prefill
<1>2. ASSUME NEW r \in Req, FinishPrefill(r) PROVE Ordered'
    <2>1. /\ delayed' = delayed \cup {r} /\ r \notin delayed
          /\ place'[r] = Cardinality(Registered) /\ \A q \in delayed : place'[q] = place[q]
          /\ age'[r] = 0 /\ \A q \in delayed : age'[q] = age[q]
        BY <1>2, Zenon DEF FinishPrefill, AddDelayedRequest, Registered, IInv, TypeOK, DelayedOnce
    <2>2. r \notin Registered /\ Registered' = Registered \cup {r}
        BY <1>2 DEF FinishPrefill, Registered, IInv, TypeOK
    <2>3. Cardinality(Registered) \in Nat /\ Cardinality(Registered)' = Cardinality(Registered) + 1
        BY <2>2, OneMoreRegistered, Zenon
    <2>4. \A q \in delayed : place[q] \in Nat /\ age[q] \in Nat
        BY TimeAssumption DEF IInv, TypeOK
    <2> HIDE DEF Registered
    <2> QED
        BY <2>1, <2>3, <2>4 DEF Ordered
<1>3. ASSUME NEW r \in Req, AbortPrefill(r) PROVE Ordered'
    <2>1. r \notin Registered /\ Registered' = Registered \cup {r}
        BY <1>3 DEF AbortPrefill, Registered, IInv, TypeOK
    <2>2. Cardinality(Registered) \in Nat /\ Cardinality(Registered)' = Cardinality(Registered) + 1
        BY <2>1, OneMoreRegistered, Zenon
    <2>3. \A q \in delayed : place[q] \in Nat
        BY Zenon DEF IInv, TypeOK
    <2>4. UNCHANGED <<delayed, place, age>>
        BY <1>3, Zenon DEF AbortPrefill
    <2> QED
        BY <2>2, <2>3, <2>4 DEF Ordered
<1>4. ASSUME NEW r \in Req, HandleFinishedRequest(r) PROVE Ordered'
    BY <1>4, OrderApart, Zenon DEF HandleFinishedRequest, Registered
<1>5. ASSUME FreeFinished PROVE Ordered'
    <2>1. \A q \in finished \cup Expired : pst[q] = "delayed"
        BY Zenon DEF IInv, TypeOK, DelayedOnce, Expired
    <2>2. Registered' = Registered
        BY <1>5, <2>1, Zenon DEF FreeFinished, Registered
    <2> QED
        BY <1>5, <2>2, OrderApart, Zenon DEF FreeFinished
<1>6. ASSUME Tick PROVE Ordered'
    <2>1. /\ UNCHANGED <<delayed, place>> /\ Registered' = Registered
          /\ \A q \in delayed : age'[q] = IF age[q] <= Timeout THEN age[q] + 1 ELSE age[q]
          /\ \A q \in delayed : age[q] \in 0 .. Timeout + 1
        BY <1>6, Zenon DEF Tick, Registered, IInv, TypeOK
    <2> HIDE DEF Registered
    <2> QED
        BY <2>1, TimeAssumption DEF Ordered
<1>7. ASSUME UNCHANGED pVars PROVE Ordered'
    BY <1>7, OrderApart, Zenon DEF pVars, Registered
<1>8. ASSUME NEW r \in Req, \/ Arrive(r) \/ Drop(r) \/ AllocRemote(r) \/ AllocLocal(r) \/ Preempt(r)
                            \/ RequestFinished(r) \/ SendDone(r)
                            \/ \E w \in Worker : Transfer(w, r) \/ Collect(w, r)
      PROVE  UNCHANGED pVars
    BY <1>8, Zenon DEF Arrive, Drop, AllocRemote, AllocLocal, Preempt, RequestFinished, SendDone, Transfer, Collect
<1>9. ASSUME BuildConnectorMeta \/ UNCHANGED vars \/ \E w \in Worker : FinishBatch(w)
      PROVE  UNCHANGED pVars
    BY <1>9, Zenon DEF BuildConnectorMeta, FinishBatch, vars
<1> QED
    BY <1>1, <1>2, <1>3, <1>4, <1>5, <1>6, <1>7, <1>8, <1>9, Zenon DEF Next

\* The scan of _retrieve_expired_requests_locked that stops at the first young
\* request misses no old one.
THEOREM ScanFindsAll == Spec => []NoneHidden
<1>1. Init => Ordered
    BY Zenon DEF Init, Ordered
<1>2. IInv /\ Ordered /\ [Next]_vars => Ordered'
    BY OrderStep, Zenon
<1>3. IInv /\ Ordered => NoneHidden
    <2> SUFFICES ASSUME IInv, Ordered, NEW r \in delayed, age[r] > Timeout,
                        NEW q \in delayed, place[q] <= place[r]
                 PROVE  age[q] > Timeout
        BY Zenon DEF NoneHidden, Expired
    <2>1. age[r] \in Nat /\ age[q] \in Nat /\ age[r] <= age[q]
        BY TimeAssumption DEF IInv, TypeOK, Ordered
    <2> QED
        BY <2>1, TimeAssumption
<1> QED
    BY <1>1, <1>2, <1>3, Invariant, PTL DEF Spec

-----------------------------------------------------------------------------
(* The content of the blocks *)

Holding == {"loading", "aborting", "loaded", "running"}

\* P's blocks hold the KV of the request they are kept for, and they are kept
\* as long as D may read them, unless the timeout frees them.
Kept ==
    \A r \in Req :
        /\ pst[r] \in {"prefilling", "delayed"} => pdata[pblk[r]] = r
        /\ dst[r] \in {"offered", "waiting"} \cup Loading /\ r \notin forced => pst[r] = "delayed"

\* A block of D is held by one request.
Apart ==
    \A r \in Req : dst[r] \in Holding =>
        dblk[r] \in DBlock /\ \A q \in Req : dst[q] \in Holding /\ dblk[q] = dblk[r] => q = r

\* A worker is at its first batch.
AtHead ==
    \A w \in Worker :
        /\ lost[w] \subseteq read[w]
        /\ read[w] # {} => queue[w] # <<>> /\ read[w] \subseteq Batch(w)

\* The worker has read the request and nothing has failed for it yet.
Pulled(w, r) ==
    \/ r \in read[w] \ lost[w]
    \/ <<r, "ok">> \in results[w]
    \/ w \in seen[r] /\ r \notin failed
    \/ dst[r] \in {"loaded", "running"}

\* What a worker has read of a request is the request's own KV.
Content ==
    \A w \in Worker, r \in Req :
        dst[r] \in Holding /\ r \notin forced /\ Pulled(w, r) => ddata[w][dblk[r]] = r

KVInv == Kept /\ Apart /\ AtHead /\ Content

\* A step that leaves the memories, the threads and the holders of blocks alone
\* keeps their contents.
LEMMA ContentApart ==
    ASSUME Apart, AtHead, Content, UNCHANGED <<dblk, ddata, queue, read, lost, results, seen, failed>>,
           forced \subseteq forced',
           \A r \in Req : dst'[r] = dst[r] \/ dst'[r] \notin Holding
                          \/ (dst[r] = "loading" /\ dst'[r] = "aborting")
    PROVE  Apart' /\ AtHead' /\ Content'
<1>1. Apart'
    BY Zenon DEF Apart, Holding
<1>2. AtHead'
    BY Zenon DEF AtHead, Batch
<1>3. Content'
    BY Zenon DEF Content, Pulled, Holding
<1> QED
    BY <1>1, <1>2, <1>3, Zenon

\* P writes only a block it keeps for nobody.
LEMMA PrefillKV ==
    ASSUME IInv, KVInv, NEW r \in Req, Prefill(r)
    PROVE  KVInv'
<1>1. PICK b \in FreeP : pblk' = [pblk EXCEPT ![r] = b] /\ pdata' = [pdata EXCEPT ![b] = r]
    BY Zenon DEF Prefill
<1>2. pst[r] = "new" /\ \A q \in Req : pst'[q] = IF q = r THEN "prefilling" ELSE pst[q]
    BY Zenon DEF Prefill, IInv, TypeOK
<1>3. b \in PBlock /\ \A q \in Req : pst[q] \in {"prefilling", "delayed"} => pblk[q] # b
    BY <1>1, Zenon DEF FreeP
<1>4. /\ pblk'[r] = b /\ pdata'[b] = r
      /\ \A q \in Req : q # r => pblk'[q] = pblk[q]
      /\ \A c \in PBlock : c # b => pdata'[c] = pdata[c]
    BY <1>1, <1>3, Zenon DEF IInv, TypeOK
<1>5. UNCHANGED <<forced, dVars, wVars>>
    BY Zenon DEF Prefill
<1>6. Kept'
    <2> SUFFICES ASSUME NEW q \in Req
                 PROVE  Kept!(q)'
        BY Zenon DEF Kept
    <2>1. pst[q] \in {"prefilling", "delayed"} => pblk[q] \in PBlock
        BY Zenon DEF IInv, Linked
    <2>2. Kept!(q)
        BY Zenon DEF KVInv, Kept
    <2>3. dst'[q] = dst[q] /\ forced' = forced
        BY <1>5, Zenon DEF dVars
    <2> QED
        BY <1>2, <1>3, <1>4, <2>1, <2>2, <2>3, Zenon
<1>7. Apart' /\ AtHead' /\ Content'
    BY <1>5, ContentApart, Zenon DEF KVInv, dVars, wVars
<1> QED
    BY <1>6, <1>7, Zenon DEF KVInv

\* P's blocks come back before D has read them only by the timeout.
LEMMA FreeFinishedKV ==
    ASSUME IInv, KVInv, FreeFinished
    PROVE  KVInv'
<1>1. /\ \A q \in Req : pst'[q] = IF q \in finished \cup Expired THEN "freed" ELSE pst[q]
      /\ UNCHANGED <<pblk, pdata, dVars, wVars>> /\ forced' = forced \cup Expired
    BY Zenon DEF FreeFinished
<1>2. Kept'
    BY <1>1, Zenon DEF Kept, KVInv, IInv, OneDone, Loading, dVars
<1>3. Apart' /\ AtHead' /\ Content'
    BY <1>1, ContentApart, Zenon DEF KVInv, dVars, wVars
<1> QED
    BY <1>2, <1>3, Zenon DEF KVInv

\* The other steps of P leave the memories alone.
LEMMA ProducerKV ==
    ASSUME IInv, KVInv, NEW r \in Req,
           FinishPrefill(r) \/ AbortPrefill(r) \/ HandleFinishedRequest(r)
    PROVE  KVInv'
<1>1. UNCHANGED <<pblk, pdata, forced, dblk, ddata, wVars>>
    BY Zenon DEF FinishPrefill, AbortPrefill, HandleFinishedRequest, dVars
<1>2. CASE FinishPrefill(r)
    <2>1. /\ pst[r] = "prefilling"
          /\ \A q \in Req : /\ pst'[q] = IF q = r THEN "delayed" ELSE pst[q]
                            /\ dst'[q] = IF q = r THEN "offered" ELSE dst[q]
        BY <1>2, Zenon DEF FinishPrefill, IInv, TypeOK
    <2> QED
        BY <1>1, <2>1, ContentApart, Zenon DEF KVInv, Kept, Holding, wVars
<1>3. CASE AbortPrefill(r)
    <2>1. /\ pst[r] = "prefilling" /\ dst' = dst
          /\ \A q \in Req : pst'[q] = IF q = r THEN "freed" ELSE pst[q]
        BY <1>3, Zenon DEF AbortPrefill, IInv, TypeOK, dVars
    <2> QED
        BY <1>1, <2>1, ContentApart, Zenon DEF KVInv, Kept, wVars
<1>4. CASE HandleFinishedRequest(r)
    <2>1. UNCHANGED <<pst, dst>>
        BY <1>4, Zenon DEF HandleFinishedRequest, dVars
    <2> QED
        BY <1>1, <2>1, ContentApart, Zenon DEF KVInv, Kept, wVars
<1> QED
    BY <1>2, <1>3, <1>4, Zenon

\* A request that is not being loaded is with no worker.
LEMMA NotWithWorkers ==
    ASSUME IInv, AtHead, NEW w \in Worker, NEW r \in Req, dst[r] \notin Loading
    PROVE  r \notin read[w] /\ <<r, "ok">> \notin results[w] /\ w \notin seen[r]
<1>1. ~InBatch(w, r) /\ ~Reported(w, r) /\ w \notin seen[r]
    BY Zenon DEF IInv, LoadOnce, Loading
<1>2. r \notin read[w]
    <2> SUFFICES ASSUME r \in read[w] PROVE FALSE
        BY Zenon
    <2>1. queue[w] # <<>> /\ r \in Head(queue[w]) /\ queue[w] \in Seq(SUBSET Req)
        BY Zenon DEF AtHead, Batch, IInv, TypeOK
    <2>2. 1 \in DOMAIN queue[w] /\ Head(queue[w]) = queue[w][1]
        BY <2>1
    <2> QED
        BY <1>1, <2>1, <2>2, Zenon DEF InBatch
<1> QED
    BY <1>1, <1>2, Zenon DEF Reported, Verdict

\* A load starts in a block nobody holds, with nothing read yet.
LEMMA AllocRemoteKV ==
    ASSUME IInv, KVInv, NEW r \in Req, AllocRemote(r)
    PROVE  KVInv'
<1>1. PICK b \in FreeD : dblk' = [dblk EXCEPT ![r] = b]
    BY Zenon DEF AllocRemote
<1>2. /\ dst[r] = "waiting" /\ \A q \in Req : dst'[q] = IF q = r THEN "loading" ELSE dst[q]
      /\ UNCHANGED <<pVars, ddata, wVars>>
    BY Zenon DEF AllocRemote, IInv, TypeOK, Linked
<1>3. b \in DBlock /\ \A q \in Req : dst[q] \in Holding => dblk[q] # b
    BY <1>1, Zenon DEF FreeD, Holding
<1>4. dblk'[r] = b /\ \A q \in Req : q # r => dblk'[q] = dblk[q]
    BY <1>1, Zenon DEF IInv, TypeOK
<1>5. Kept'
    BY <1>2, Zenon DEF KVInv, Kept, Loading, pVars
<1>6. Apart'
    BY <1>2, <1>3, <1>4 DEF KVInv, Apart, Holding
<1>7. AtHead'
    BY <1>2, Zenon DEF KVInv, AtHead, Batch, wVars
<1>8. Content'
    <2> SUFFICES ASSUME NEW w \in Worker, NEW q \in Req
                 PROVE  Content!(w, q)'
        BY Zenon DEF Content
    <2>1. CASE q = r
        <3>1. r \notin read[w] /\ <<r, "ok">> \notin results[w] /\ w \notin seen[r]
            BY <1>2, NotWithWorkers, Zenon DEF KVInv, Loading
        <3> QED
            BY <2>1, <3>1, <1>2, Zenon DEF Pulled, wVars
    <2>2. CASE q # r
        <3>1. dst'[q] = dst[q] /\ dblk'[q] = dblk[q] /\ (Pulled(w, q)' <=> Pulled(w, q))
            BY <1>2, <1>4, <2>2, Zenon DEF Pulled, wVars
        <3> QED
            BY <1>2, <3>1, Zenon DEF KVInv, Content, pVars
    <2> QED
        BY <2>1, <2>2, Zenon
<1> QED
    BY <1>5, <1>6, <1>7, <1>8, Zenon DEF KVInv

\* A request that is computed on D, or found in its prefix cache, has its KV in
\* a block of its own; one that was loaded keeps what was read.
LEMMA AllocLocalKV ==
    ASSUME IInv, KVInv, NEW r \in Req, AllocLocal(r)
    PROVE  KVInv'
<1>1. /\ dst[r] \in {"waiting", "requeued", "loaded"}
      /\ \A q \in Req : dst'[q] = IF q = r THEN "running" ELSE dst[q]
      /\ UNCHANGED <<pVars, wVars>>
    BY Zenon DEF AllocLocal, IInv, TypeOK
<1>2. Kept' /\ AtHead'
    BY <1>1, Zenon DEF KVInv, Kept, Loading, AtHead, Batch, pVars, wVars
<1>3. CASE dst[r] = "loaded"
    <2>1. UNCHANGED <<dblk, ddata>>
        BY <1>3, Zenon DEF AllocLocal
    <2>2. Apart'
        BY <1>1, <1>3, <2>1, Zenon DEF KVInv, Apart, Holding
    <2>3. Content'
        BY <1>1, <1>3, <2>1, Zenon DEF KVInv, Content, Pulled, Holding, pVars, wVars
    <2> QED
        BY <1>2, <2>2, <2>3, Zenon DEF KVInv
<1>4. CASE dst[r] # "loaded"
    <2>1. PICK b \in FreeD : /\ dblk' = [dblk EXCEPT ![r] = b]
                             /\ ddata' = [w \in Worker |-> [ddata[w] EXCEPT ![b] = r]]
        BY <1>4, Zenon DEF AllocLocal
    <2>2. b \in DBlock /\ \A q \in Req : dst[q] \in Holding => dblk[q] # b
        BY <2>1, Zenon DEF FreeD, Holding
    <2>3. dblk'[r] = b /\ \A q \in Req : q # r => dblk'[q] = dblk[q]
        BY <2>1, Zenon DEF IInv, TypeOK
    <2>4. Apart'
        BY <1>1, <2>2, <2>3 DEF KVInv, Apart, Holding
    <2>5. ASSUME NEW w \in Worker
          PROVE  ddata'[w][b] = r /\ \A c \in DBlock : c # b => ddata'[w][c] = ddata[w][c]
        <3>1. ddata[w] \in [DBlock -> Req \cup {Junk}]
            BY Zenon DEF IInv, TypeOK
        <3> QED
            BY <2>1, <2>2, <3>1, Zenon
    <2>6. Content'
        <3> SUFFICES ASSUME NEW w \in Worker, NEW q \in Req, q # r,
                            dst'[q] \in Holding, q \notin forced', Pulled(w, q)'
                     PROVE  ddata'[w][dblk'[q]] = q
            BY <2>3, <2>5, Zenon DEF Content
        <3>1. dst[q] \in Holding /\ Pulled(w, q) /\ q \notin forced
            BY <1>1, Zenon DEF Pulled, wVars, pVars
        <3>2. ddata[w][dblk[q]] = q /\ dblk[q] \in DBlock /\ dblk[q] # b
            BY <3>1, <2>2, Zenon DEF KVInv, Content, Apart
        <3> QED
            BY <3>2, <2>3, <2>5
    <2> QED
        BY <1>2, <2>4, <2>6, Zenon DEF KVInv
<1> QED
    BY <1>3, <1>4, Zenon

\* Steps of D's scheduler that only give blocks up leave the others' alone.
LEMMA ReleaseKV ==
    ASSUME IInv, KVInv, NEW r \in Req,
           Arrive(r) \/ Drop(r) \/ Preempt(r) \/ RequestFinished(r) \/ SendDone(r)
    PROVE  KVInv'
<1>1. UNCHANGED <<pVars, dblk, ddata, wVars>>
    BY Zenon DEF Arrive, Drop, Preempt, RequestFinished, SendDone
<1>2. \A q \in Req : \/ dst'[q] = dst[q]
                     \/ dst[q] = "loading" /\ dst'[q] = "aborting"
                     \/ dst[q] = "offered" /\ dst'[q] = "waiting"
                     \/ dst'[q] \in {"requeued", "done"}
    BY DEF Arrive, Drop, Preempt, RequestFinished, SendDone, IInv, TypeOK
<1>3. Kept'
    BY <1>1, <1>2, Zenon DEF KVInv, Kept, Loading, pVars
<1>4. Apart' /\ AtHead' /\ Content'
    BY <1>1, <1>2, ContentApart, Zenon DEF KVInv, Holding, pVars, wVars
<1> QED
    BY <1>3, <1>4, Zenon DEF KVInv

\* A new batch goes behind the one the worker is at.
LEMMA BuildConnectorMetaKV ==
    ASSUME IInv, KVInv, BuildConnectorMeta
    PROVE  KVInv'
<1>1. /\ UNCHANGED <<pVars, dst, dblk, ddata, read, lost, results, seen, failed>>
      /\ \A w \in Worker : queue'[w] = Append(queue[w], needRecv)
    BY Zenon DEF BuildConnectorMeta
<1>2. Kept'
    BY <1>1, Zenon DEF KVInv, Kept, pVars
<1>3. Apart' /\ Content'
    BY <1>1, Zenon DEF KVInv, Apart, Content, Pulled, pVars
<1>4. AtHead'
    <2> SUFFICES ASSUME NEW w \in Worker
                 PROVE  AtHead!(w)'
        BY Zenon DEF AtHead
    <2>1. queue[w] \in Seq(SUBSET Req) /\ needRecv \in SUBSET Req
        BY Zenon DEF IInv, TypeOK
    <2>2. queue[w] # <<>> => Head(Append(queue[w], needRecv)) = Head(queue[w])
        BY <2>1
    <2>3. Append(queue[w], needRecv) # <<>>
        BY <2>1
    <2> QED
        BY <1>1, <2>2, <2>3, Zenon DEF KVInv, AtHead, Batch
<1> QED
    BY <1>2, <1>3, <1>4, Zenon DEF KVInv

\* A read takes the request's own KV from P, which still keeps it unless it has
\* expired, and writes only the block of the request.
LEMMA TransferKV ==
    ASSUME IInv, KVInv, NEW w \in Worker, NEW r \in Req, Transfer(w, r)
    PROVE  KVInv'
<1>1. /\ UNCHANGED <<pVars, dst, dblk, queue, results, seen, failed>>
      /\ r \in ToRead(w) /\ read' = [read EXCEPT ![w] = @ \cup {r}]
    BY Zenon DEF Transfer
<1>2. queue[w] # <<>> /\ r \in Batch(w) /\ r \notin read[w]
    BY <1>1, Zenon DEF ToRead
<1>3. dst[r] \in Loading
    <2>1. queue[w] \in Seq(SUBSET Req)
        BY Zenon DEF IInv, TypeOK
    <2>2. 1 \in DOMAIN queue[w] /\ Head(queue[w]) = queue[w][1]
        BY <1>2, <2>1
    <2>3. InBatch(w, r)
        BY <1>2, <2>2, Zenon DEF InBatch, Batch
    <2> QED
        BY <2>3, Zenon DEF IInv, LoadOnce, Loading
<1>4. dblk[r] \in DBlock
    BY <1>3, Zenon DEF KVInv, Apart, Holding, Loading
<1>5. PICK c : /\ ddata' = [ddata EXCEPT ![w][dblk[r]] = c]
               /\ \/ c = pdata[pblk[r]] /\ lost' = lost
                  \/ lost' = [lost EXCEPT ![w] = @ \cup {r}]
    BY Zenon DEF Transfer
<1>6. r \notin forced => pdata[pblk[r]] = r
    BY <1>3, Zenon DEF KVInv, Kept
<1>7. /\ ddata'[w][dblk[r]] = c
      /\ \A v \in Worker, b \in DBlock : v # w \/ b # dblk[r] => ddata'[v][b] = ddata[v][b]
    <2>1. \A v \in Worker : ddata[v] \in [DBlock -> Req \cup {Junk}]
        BY Zenon DEF IInv, TypeOK
    <2>2. ddata \in [Worker -> [DBlock -> Req \cup {Junk}]]
        BY Zenon DEF IInv, TypeOK
    <2> QED
        BY <1>4, <1>5, <2>1, <2>2, Zenon
<1>8. /\ read'[w] = read[w] \cup {r} /\ \A v \in Worker : v # w => read'[v] = read[v]
      /\ \A v \in Worker : v # w => lost'[v] = lost[v]
      /\ lost'[w] \in {lost[w], lost[w] \cup {r}}
      /\ c # pdata[pblk[r]] => r \in lost'[w]
    BY <1>1, <1>5 DEF IInv, TypeOK
<1>9. Kept' /\ Apart'
    BY <1>1, Zenon DEF KVInv, Kept, Apart, pVars
<1>10. AtHead'
    BY <1>1, <1>2, <1>8, Zenon DEF KVInv, AtHead, Batch
<1>11. Content'
    <2> SUFFICES ASSUME NEW v \in Worker, NEW q \in Req,
                        dst[q] \in Holding, q \notin forced, Pulled(v, q)'
                 PROVE  ddata'[v][dblk[q]] = q
        BY <1>1, Zenon DEF Content, pVars
    <2>1. CASE v = w /\ q = r
        <3>1. r \in read'[w] \ lost'[w]
            <4>1. InBatch(w, r)
                BY <1>2 DEF IInv, TypeOK, Batch, InBatch
            <4>2. ~Reported(w, r) /\ w \notin seen[r]
                BY <4>1, Zenon DEF IInv, LoadOnce
            <4> QED
                BY <1>1, <1>3, <2>1, <4>2, Zenon DEF Pulled, Loading, Reported, Verdict
        <3> QED
            BY <1>6, <1>7, <1>8, <2>1, <3>1, Zenon
    <2>2. CASE ~(v = w /\ q = r)
        <3>1. Pulled(v, q)
            BY <1>1, <1>8, <2>2, Zenon DEF Pulled
        <3>2. ddata[v][dblk[q]] = q
            BY <3>1, Zenon DEF KVInv, Content
        <3>3. dblk[q] \in DBlock /\ (dblk[q] = dblk[r] => q = r)
            BY <1>3, Zenon DEF KVInv, Apart, Holding, Loading
        <3> QED
            BY <1>7, <2>2, <3>2, <3>3, Zenon
    <2> QED
        BY <2>1, <2>2, Zenon
<1> QED
    BY <1>9, <1>10, <1>11, Zenon DEF KVInv

\* Only what was read without an error is reported as such.
LEMMA FinishBatchKV ==
    ASSUME IInv, KVInv, NEW w \in Worker, FinishBatch(w)
    PROVE  KVInv'
<1>1. PICK bad \in {lost[w], Batch(w)} :
         /\ bad = lost[w] => ToRead(w) = {}
         /\ results' = [results EXCEPT ![w] =
                @ \cup {<<r, IF r \in bad THEN "failed" ELSE "ok">> : r \in Batch(w)}]
    BY Zenon DEF FinishBatch
<1>2. /\ UNCHANGED <<pVars, dVars, seen, failed>> /\ queue[w] # <<>>
      /\ read'[w] = {} /\ lost'[w] = {}
      /\ \A v \in Worker : v # w => read'[v] = read[v] /\ lost'[v] = lost[v] /\ queue'[v] = queue[v]
    BY Zenon DEF FinishBatch, IInv, TypeOK
<1>3. Kept' /\ Apart'
    BY <1>2, Zenon DEF KVInv, Kept, Apart, pVars, dVars
<1>4. AtHead'
    BY <1>2, Zenon DEF KVInv, AtHead, Batch
<1>5. ASSUME NEW v \in Worker, NEW q \in Req, <<q, "ok">> \in results'[v]
      PROVE  Pulled(v, q)
    <2>1. CASE <<q, "ok">> \in results[v]
        BY <2>1, Zenon DEF Pulled
    <2>2. CASE <<q, "ok">> \notin results[v]
        <3>1. v = w /\ q \in Batch(w) /\ q \notin bad
            BY <1>1, <1>5, <2>2 DEF IInv, TypeOK
        <3>2. bad = lost[w] /\ q \in read[w]
            BY <1>1, <1>2, <3>1, Zenon DEF ToRead
        <3> QED
            BY <3>1, <3>2, Zenon DEF Pulled
    <2> QED
        BY <2>1, <2>2, Zenon
<1>6. Content'
    <2> SUFFICES ASSUME NEW v \in Worker, NEW q \in Req,
                        dst[q] \in Holding, q \notin forced, Pulled(v, q)'
                 PROVE  ddata[v][dblk[q]] = q
        BY <1>2, Zenon DEF Content, pVars, dVars
    <2>1. Pulled(v, q)
        BY <1>2, <1>5, Zenon DEF Pulled, dVars
    <2> QED
        BY <2>1, Zenon DEF KVInv, Content
<1> QED
    BY <1>3, <1>4, <1>6, Zenon DEF KVInv

\* A load completes well when no worker failed: every worker has then read it.
LEMMA CollectKV ==
    ASSUME IInv, KVInv, NEW w \in Worker, NEW r \in Req, Collect(w, r)
    PROVE  KVInv'
<1>1. PICK v \in Verdict :
         /\ <<r, v>> \in results[w]
         /\ results' = [results EXCEPT ![w] = @ \ {<<r, v>>}]
         /\ IF seen[r] \cup {w} = Worker
            THEN /\ Complete(r, v = "failed" \/ r \in failed)
                 /\ seen' = [seen EXCEPT ![r] = {}]
                 /\ failed' = failed \ {r}
            ELSE /\ seen' = [seen EXCEPT ![r] = @ \cup {w}]
                 /\ failed' = IF v = "failed" THEN failed \cup {r} ELSE failed
                 /\ UNCHANGED <<recvInfo, doneQ, dst>>
    BY Zenon DEF Collect
<1>2. UNCHANGED <<pVars, dblk, ddata, queue, read, lost>>
    BY Zenon DEF Collect
<1>3. dst[r] \in Loading
    BY <1>1, Zenon DEF IInv, LoadOnce, Reported, Loading
<1>4. \A u \in Worker : results'[u] \subseteq results[u]
    BY <1>1, Zenon DEF IInv, TypeOK
<1>5. AtHead'
    BY <1>2, Zenon DEF KVInv, AtHead, Batch
<1>6. CASE seen[r] \cup {w} # Worker
    <2>1. /\ dst' = dst
          /\ seen'[r] = seen[r] \cup {w} /\ \A q \in Req : q # r => seen'[q] = seen[q]
          /\ failed \subseteq failed' /\ (r \notin failed' => v = "ok")
        BY <1>1, <1>6, Zenon DEF IInv, TypeOK, Verdict
    <2>2. Kept' /\ Apart'
        BY <1>2, <2>1, Zenon DEF KVInv, Kept, Apart, pVars
    <2>3. \A u \in Worker, q \in Req : Pulled(u, q)' => Pulled(u, q)
        BY <1>1, <1>2, <1>4, <2>1, Zenon DEF Pulled
    <2>4. Content'
        BY <1>2, <2>1, <2>3, Zenon DEF KVInv, Content, pVars
    <2> QED
        BY <1>5, <2>2, <2>4, Zenon DEF KVInv
<1>7. CASE seen[r] \cup {w} = Worker
    <2>1. PICK s \in {"loaded", "requeued", "done"} :
             /\ dst' = [dst EXCEPT ![r] = s]
             /\ s = "loaded" => ~(v = "failed" \/ r \in failed)
        BY <1>1, <1>7, Zenon DEF Complete
    <2>2. dst'[r] = s /\ \A q \in Req : q # r => dst'[q] = dst[q]
        BY <2>1, Zenon DEF IInv, TypeOK
    <2>3. seen'[r] = {} /\ \A q \in Req : q # r => seen'[q] = seen[q]
        BY <1>1, <1>7, Zenon DEF IInv, TypeOK
    <2>4. \A q \in Req : q # r => (q \in failed' <=> q \in failed)
        BY <1>1, <1>7, Zenon
    <2>5. Kept'
        BY <1>2, <2>1, <2>2, Zenon DEF KVInv, Kept, Loading, pVars
    <2>6. Apart'
        BY <1>2, <1>3, <2>1, <2>2 DEF KVInv, Apart, Holding, Loading
    <2>7. s = "loaded" => \A u \in Worker : Pulled(u, r)
        BY <1>1, <1>7, <2>1, Zenon DEF Pulled, Verdict
    <2>8. Content'
        <3> SUFFICES ASSUME NEW u \in Worker, NEW q \in Req,
                            dst'[q] \in Holding, q \notin forced, Pulled(u, q)'
                     PROVE  ddata[u][dblk[q]] = q
            BY <1>2, Zenon DEF Content, pVars
        <3>1. CASE q = r
            BY <1>3, <2>1, <2>2, <2>7, <3>1, Zenon DEF KVInv, Content, Holding, Loading
        <3>2. CASE q # r
            <4>1. Pulled(u, q) /\ dst[q] \in Holding
                BY <1>2, <1>4, <2>2, <2>3, <2>4, <3>2, Zenon DEF Pulled
            <4> QED
                BY <4>1, Zenon DEF KVInv, Content
        <3> QED
            BY <3>1, <3>2, Zenon
    <2> QED
        BY <1>5, <2>5, <2>6, <2>8, Zenon DEF KVInv
<1> QED
    BY <1>6, <1>7, Zenon

\* A request that runs on D has its own KV on every worker, unless P's timeout
\* took the blocks back before they were read.
THEOREM RunsOnWhatWasComputed == Spec => []RunsOnItsOwnKV
<1>1. Init => KVInv
    BY Zenon DEF Init, KVInv, Kept, Apart, AtHead, Content, Holding, Loading
<1>2. IInv /\ KVInv /\ [Next]_vars => KVInv'
    <2> SUFFICES ASSUME IInv, KVInv, [Next]_vars PROVE KVInv'
        BY Zenon
    <2>1. CASE Next
        <3>1. CASE Tick
            <4>1. UNCHANGED <<pst, pblk, pdata, forced, dVars, wVars>>
                BY <3>1, Zenon DEF Tick
            <4>2. Kept'
                BY <4>1, Zenon DEF KVInv, Kept, dVars
            <4>3. Apart' /\ AtHead' /\ Content'
                BY <4>1, ContentApart, Zenon DEF KVInv, dVars, wVars
            <4> QED
                BY <4>2, <4>3, Zenon DEF KVInv
        <3> QED
            BY <2>1, <3>1, PrefillKV, FreeFinishedKV, ProducerKV, AllocRemoteKV, AllocLocalKV, ReleaseKV,
               BuildConnectorMetaKV, TransferKV, FinishBatchKV, CollectKV, Zenon DEF Next
    <2>2. CASE UNCHANGED vars
        <3>1. Kept'
            BY <2>2, Zenon DEF KVInv, Kept, vars, pVars, dVars
        <3>2. Apart' /\ AtHead' /\ Content'
            BY <2>2, ContentApart, Zenon DEF KVInv, vars, pVars, dVars, wVars
        <3> QED
            BY <3>1, <3>2, Zenon DEF KVInv
    <2> QED
        BY <2>1, <2>2, Zenon
<1>3. KVInv => RunsOnItsOwnKV
    <2> SUFFICES ASSUME KVInv, NEW r \in Req, NEW w \in Worker,
                        dst[r] \in {"loaded", "running"}, r \notin forced
                 PROVE  ddata[w][dblk[r]] = r
        BY Zenon DEF RunsOnItsOwnKV
    <2>1. dst[r] \in Holding /\ Pulled(w, r)
        BY Zenon DEF Pulled, Holding
    <2> QED
        BY <2>1, Zenon DEF KVInv, Content
<1> QED
    BY <1>1, <1>2, <1>3, Invariant, PTL DEF Spec

=============================================================================
