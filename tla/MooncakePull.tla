---------------------------- MODULE MooncakePull ----------------------------
(***************************************************************************)
(* Pull-based transfer of prefilled KV blocks from a producer P to a       *)
(* consumer D.                                                             *)
(*                                                                         *)
(* P's scheduler keeps the blocks of a prefilled request and registers it  *)
(* with its sending thread; the parameters of the transfer reach D through *)
(* the proxy.  D's scheduler allocates blocks and tells its workers, whose *)
(* receiving threads read P's memory.  When every worker has finished, D's *)
(* scheduler queues one DONE message, sent by a thread of its own, and P   *)
(* frees the blocks.  A request nobody reports within Timeout is freed by  *)
(* force.                                                                  *)
(*                                                                         *)
(* One block stands for the blocks of a request; its content is the        *)
(* request that computed it.                                               *)
(***************************************************************************)
EXTENDS Integers, Sequences, FiniteSets

CONSTANTS
    Req,       \* requests, under one name on P and on D
    PBlock,    \* KV blocks of P
    DBlock,    \* KV blocks of D, one copy on every worker
    Worker,    \* D's workers
    Junk,      \* content of a block nobody has written
    NoBlock,
    Timeout    \* VLLM_MOONCAKE_ABORT_REQUEST_TIMEOUT, in ticks

ASSUME TimeAssumption == Timeout \in Nat
ASSUME NameAssumption ==
    /\ Junk \notin Req /\ NoBlock \notin PBlock \cup DBlock
    /\ IsFiniteSet(Req) /\ Worker # {}

VARIABLES
    \* P: vLLM's scheduler and memory
    pst, pblk, pdata,
    \* P: connector scheduler and sending thread
    needSend,  \* _reqs_need_send
    delayed,   \* keys of delayed_free_requests
    place,     \* their insertion order
    age,       \* ticks since delay_start_time, no more than Timeout + 1
    finished,  \* finished_requests
    forced,    \* history: requests freed by the timeout
    \* D: vLLM's scheduler and memory
    dst, dblk, ddata,
    \* D: connector scheduler and its DONE thread
    prefill,   \* requests whose do_remote_prefill is set
    needRecv, recvInfo,  \* _reqs_need_recv, _reqs_recv_info
    doneQ,     \* DONE messages in request_queue, per request
    net,       \* DONE messages on their way to P
    \* D: receiving thread of each worker, and the output aggregator
    queue,     \* request_queue: batches of requests
    read, lost,  \* requests of the first batch already read; those that failed
    results,   \* finished_requests: <<request, verdict>>
    seen, failed

pVars == <<pst, pblk, pdata, needSend, delayed, place, age, finished, forced>>
dVars == <<dst, dblk, ddata, prefill, needRecv, recvInfo, doneQ>>
wVars == <<queue, read, lost, results, seen, failed>>
vars == <<pVars, dVars, net, wVars>>

PStatus == {"new", "prefilling", "delayed", "freed"}
DStatus == {"none", "offered", "waiting", "loading", "aborting", "loaded", "requeued",
            "running", "done"}
Verdict == {"ok", "failed"}

Init ==
    /\ pst = [r \in Req |-> "new"]
    /\ pblk = [r \in Req |-> NoBlock]
    /\ pdata = [b \in PBlock |-> Junk]
    /\ needSend = {} /\ delayed = {} /\ finished = {} /\ forced = {}
    /\ place = [r \in Req |-> 0]
    /\ age = [r \in Req |-> 0]
    /\ dst = [r \in Req |-> "none"]
    /\ dblk = [r \in Req |-> NoBlock]
    /\ ddata = [w \in Worker |-> [b \in DBlock |-> Junk]]
    /\ prefill = {} /\ needRecv = {} /\ recvInfo = {}
    /\ doneQ = [r \in Req |-> 0]
    /\ net = [r \in Req |-> 0]
    /\ queue = [w \in Worker |-> <<>>]
    /\ read = [w \in Worker |-> {}]
    /\ lost = [w \in Worker |-> {}]
    /\ results = [w \in Worker |-> {}]
    /\ seen = [r \in Req |-> {}]
    /\ failed = {}

-----------------------------------------------------------------------------
(* P: prefill, delayed free, DONE messages *)

FreeP == PBlock \ {pblk[r] : r \in {q \in Req : pst[q] \in {"prefilling", "delayed"}}}

\* The request gets its blocks and its prompt is computed (external).
Prefill(r) ==
    /\ pst[r] = "new"
    /\ \E b \in FreeP :
          /\ pblk' = [pblk EXCEPT ![r] = b]
          /\ pdata' = [pdata EXCEPT ![b] = r]
    /\ pst' = [pst EXCEPT ![r] = "prefilling"]
    /\ UNCHANGED <<needSend, delayed, place, age, finished, forced, dVars, net, wVars>>

\* Mutant: the start time and the clock of the scan disagree.
AddInTheFuture(r) ==
    /\ delayed' = delayed \cup {r}
    /\ place' = [place EXCEPT ![r] = Cardinality({q \in Req : pst[q] \in {"delayed", "freed"}})]
    /\ age' = [age EXCEPT ![r] = -1]

\* Mutant: the new key goes to the front.
AddFirst(r) ==
    /\ delayed' = delayed \cup {r}
    /\ place' = [place EXCEPT ![r] = 0]
    /\ age' = [age EXCEPT ![r] = 0]

\* add_delayed_request: the new key goes to the end of the dictionary.
AddDelayedRequest(r) ==
    /\ delayed' = delayed \cup {r}
    /\ place' = [place EXCEPT ![r] = Cardinality({q \in Req : pst[q] \in {"delayed", "freed"}})]
    /\ age' = [age EXCEPT ![r] = 0]

\* request_finished with FINISHED_LENGTH_CAPPED: the blocks stay and the
\* transfer parameters leave for the proxy.
FinishPrefill(r) ==
    /\ pst[r] = "prefilling"
    /\ pst' = [pst EXCEPT ![r] = "delayed"]
    /\ needSend' = needSend \cup {r}
    /\ AddDelayedRequest(r)
    /\ dst' = [dst EXCEPT ![r] = "offered"]
    /\ UNCHANGED <<pblk, pdata, finished, forced, dblk, ddata, prefill, needRecv,
                   recvInfo, doneQ, net, wVars>>

\* request_finished with any other status: nothing is exposed, the blocks are
\* freed.  The request is over on P and unknown to D.
AbortPrefill(r) ==
    /\ pst[r] = "prefilling"
    /\ pst' = [pst EXCEPT ![r] = "freed"]
    /\ UNCHANGED <<pblk, pdata, needSend, delayed, place, age, finished, forced,
                   dVars, net, wVars>>

\* Mutant: the key is not deleted.
FinishAndKeep(r) ==
    /\ net[r] > 0
    /\ net' = [net EXCEPT ![r] = @ - 1]
    /\ finished' = finished \cup (delayed \cap {r})
    /\ UNCHANGED <<pst, pblk, pdata, needSend, delayed, place, age, forced, dVars, wVars>>

\* The sending thread takes a DONE; one for an unknown id changes nothing.
HandleFinishedRequest(r) ==
    /\ net[r] > 0
    /\ net' = [net EXCEPT ![r] = @ - 1]
    /\ delayed' = delayed \ {r}
    /\ finished' = finished \cup (delayed \cap {r})
    /\ UNCHANGED <<pst, pblk, pdata, needSend, place, age, forced, dVars, wVars>>

\* Mutant: only the DONE messages are drained.
NeverExpired == {}

\* _retrieve_expired_requests_locked stops at the first request that is not
\* too old.
Expired ==
    {r \in delayed : \A q \in delayed : place[q] <= place[r] => age[q] > Timeout}

\* update_connector_output on P: the requests reported or expired are freed.
FreeFinished ==
    LET freed == finished \cup Expired
    IN /\ pst' = [r \in Req |-> IF r \in freed THEN "freed" ELSE pst[r]]
       /\ needSend' = needSend \ freed
       /\ delayed' = delayed \ Expired
       /\ finished' = {}
       /\ forced' = forced \cup Expired
       /\ UNCHANGED <<pblk, pdata, place, age, dVars, net, wVars>>

Tick ==
    /\ \E r \in delayed : age[r] <= Timeout
    /\ age' = [r \in Req |-> IF r \in delayed /\ age[r] <= Timeout THEN age[r] + 1 ELSE age[r]]
    /\ UNCHANGED <<pst, pblk, pdata, needSend, delayed, place, finished, forced, dVars, net, wVars>>

-----------------------------------------------------------------------------
(* D: the scheduler *)

\* Blocks no request holds; an aborted load keeps its blocks until it is over.
FreeD == DBlock \ {dblk[r] : r \in {q \in Req : dst[q] \in {"loading", "aborting", "loaded", "running"}}}

\* The proxy passes the parameters on to D, or drops the request.
Arrive(r) ==
    /\ dst[r] = "offered"
    /\ dst' = [dst EXCEPT ![r] = "waiting"]
    /\ prefill' = prefill \cup {r}
    /\ UNCHANGED <<pVars, dblk, ddata, needRecv, recvInfo, doneQ, net, wVars>>

Drop(r) ==
    /\ dst[r] = "offered"
    /\ dst' = [dst EXCEPT ![r] = "done"]
    /\ UNCHANGED <<pVars, dblk, ddata, prefill, needRecv, recvInfo, doneQ, net, wVars>>

\* Mutant: do_remote_prefill stays set.
AllocKeepsFlag(r, external) ==
    /\ LET load == r \in prefill /\ external
       IN /\ needRecv' = IF load THEN needRecv \cup {r} ELSE needRecv
          /\ recvInfo' = IF load THEN recvInfo \cup {r} ELSE recvInfo
    /\ doneQ' = [doneQ EXCEPT ![r] = IF r \in prefill /\ ~external THEN @ + 1 ELSE @]
    /\ UNCHANGED prefill

\* Mutant: the producer is released when the load starts.
AllocReleases(r, external) ==
    /\ LET load == r \in prefill /\ external
       IN /\ needRecv' = IF load THEN needRecv \cup {r} ELSE needRecv
          /\ UNCHANGED recvInfo
    /\ doneQ' = [doneQ EXCEPT ![r] = IF r \in prefill THEN @ + 1 ELSE @]
    /\ prefill' = prefill \ {r}

\* update_state_after_alloc: the flag is cleared so that a request is loaded,
\* or its producer released, only once.
UpdateStateAfterAlloc(r, external) ==
    /\ LET load == r \in prefill /\ external
       IN /\ needRecv' = IF load THEN needRecv \cup {r} ELSE needRecv
          /\ recvInfo' = IF load THEN recvInfo \cup {r} ELSE recvInfo
    /\ doneQ' = [doneQ EXCEPT ![r] = IF r \in prefill /\ ~external THEN @ + 1 ELSE @]
    /\ prefill' = prefill \ {r}

\* get_num_new_matched_tokens finds tokens to load from P.
AllocRemote(r) ==
    /\ dst[r] \in {"waiting", "requeued"} /\ r \in prefill
    /\ \E b \in FreeD : dblk' = [dblk EXCEPT ![r] = b]
    /\ dst' = [dst EXCEPT ![r] = "loading"]
    /\ UpdateStateAfterAlloc(r, TRUE)
    /\ UNCHANGED <<pVars, ddata, net, wVars>>

\* Nothing to load: D's prefix cache has the whole prompt, the prompt is
\* computed again, or the request was loaded and now runs.
AllocLocal(r) ==
    /\ \/ /\ dst[r] \in {"waiting", "requeued"}
          /\ \E b \in FreeD :
                /\ dblk' = [dblk EXCEPT ![r] = b]
                /\ ddata' = [w \in Worker |-> [ddata[w] EXCEPT ![b] = r]]
       \/ /\ dst[r] = "loaded"
          /\ UNCHANGED <<dblk, ddata>>
    /\ dst' = [dst EXCEPT ![r] = "running"]
    /\ UpdateStateAfterAlloc(r, FALSE)
    /\ UNCHANGED <<pVars, net, wVars>>

\* vLLM preempts a running request: its blocks go, it is scheduled again.
Preempt(r) ==
    /\ needRecv = {} /\ dst[r] = "running"
    /\ dst' = [dst EXCEPT ![r] = "requeued"]
    /\ UNCHANGED <<pVars, dblk, ddata, prefill, needRecv, recvInfo, doneQ, net, wVars>>

\* Mutant: _reqs_need_recv is not cleared.
BuildAndKeep ==
    /\ needRecv # {}
    /\ queue' = [w \in Worker |-> Append(queue[w], needRecv)]
    /\ UNCHANGED <<pVars, dst, dblk, ddata, prefill, needRecv, recvInfo, doneQ, net,
                   read, lost, results, seen, failed>>

\* build_connector_meta ends the scheduling pass; start_load_kv queues the
\* requests on every worker.
BuildConnectorMeta ==
    /\ needRecv # {}
    /\ queue' = [w \in Worker |-> Append(queue[w], needRecv)]
    /\ needRecv' = {}
    /\ UNCHANGED <<pVars, dst, dblk, ddata, prefill, recvInfo, doneQ, net,
                   read, lost, results, seen, failed>>

\* request_finished on D, between two passes: a request never allocated
\* releases its producer; one being loaded waits for its workers.
RequestFinished(r) ==
    /\ needRecv = {} /\ dst[r] \in {"waiting", "loading", "loaded", "requeued", "running"}
    /\ dst' = [dst EXCEPT ![r] = IF @ = "loading" THEN "aborting" ELSE "done"]
    /\ doneQ' = [doneQ EXCEPT ![r] = IF r \in prefill THEN @ + 1 ELSE @]
    /\ prefill' = prefill \ {r}
    /\ UNCHANGED <<pVars, dblk, ddata, needRecv, recvInfo, net, wVars>>

\* The DONE thread sends the message, or gives up after its retries.
SendDone(r) ==
    /\ doneQ[r] > 0
    /\ doneQ' = [doneQ EXCEPT ![r] = @ - 1]
    /\ net' \in {net, [net EXCEPT ![r] = @ + 1]}
    /\ UNCHANGED <<pVars, dst, dblk, ddata, prefill, needRecv, recvInfo, wVars>>

-----------------------------------------------------------------------------
(* D: the workers *)

Batch(w) == Head(queue[w])
ToRead(w) == IF queue[w] = <<>> THEN {} ELSE Batch(w) \ read[w]

\* One request of the batch is read from P, whatever P's block holds by now,
\* or its transfer fails part of the way.
Transfer(w, r) ==
    /\ r \in ToRead(w)
    /\ read' = [read EXCEPT ![w] = @ \cup {r}]
    /\ \/ /\ ddata' = [ddata EXCEPT ![w][dblk[r]] = pdata[pblk[r]]]
          /\ UNCHANGED lost
       \/ /\ ddata' = [ddata EXCEPT ![w][dblk[r]] = Junk]
          /\ lost' = [lost EXCEPT ![w] = @ \cup {r}]
    /\ UNCHANGED <<pVars, dst, dblk, prefill, needRecv, recvInfo, doneQ, net,
                   queue, results, seen, failed>>

\* Mutant: an exception leaves the batch without results.
FinishSilently(w) ==
    /\ queue[w] # <<>>
    /\ \/ /\ ToRead(w) = {}
          /\ results' = [results EXCEPT ![w] = @ \cup {<<r, IF r \in lost[w] THEN "failed" ELSE "ok">> : r \in Batch(w)}]
       \/ UNCHANGED results
    /\ queue' = [queue EXCEPT ![w] = Tail(@)]
    /\ read' = [read EXCEPT ![w] = {}]
    /\ lost' = [lost EXCEPT ![w] = {}]
    /\ UNCHANGED <<pVars, dVars, net, seen, failed>>

\* The batch is over: all of it was tried, or an exception (P's metadata, the
\* block mapping) stopped it and fails every request of it.
FinishBatch(w) ==
    /\ queue[w] # <<>>
    /\ \E bad \in {lost[w], Batch(w)} :
          /\ bad = lost[w] => ToRead(w) = {}
          /\ results' = [results EXCEPT ![w] =
                @ \cup {<<r, IF r \in bad THEN "failed" ELSE "ok">> : r \in Batch(w)}]
    /\ queue' = [queue EXCEPT ![w] = Tail(@)]
    /\ read' = [read EXCEPT ![w] = {}]
    /\ lost' = [lost EXCEPT ![w] = {}]
    /\ UNCHANGED <<pVars, dVars, net, seen, failed>>

-----------------------------------------------------------------------------
(* D: completion *)

\* All workers have finished r, bad when one of them failed: the producer is
\* released.  vLLM frees an aborted request; it schedules one that was loaded,
\* and frees the blocks of one that was not and schedules it again or fails it.
Complete(r, bad) ==
    /\ recvInfo' = recvInfo \ {r}
    /\ doneQ' = [doneQ EXCEPT ![r] = IF r \in recvInfo THEN @ + 1 ELSE @]
    /\ \E s \in IF dst[r] = "aborting" THEN {"done"}
                ELSE IF bad THEN {"requeued", "done"} ELSE {"loaded"} :
          dst' = [dst EXCEPT ![r] = s]

\* Mutant: the first worker to finish completes the request.
CollectFirst(w, r) ==
    /\ needRecv = {}
    /\ \E v \in Verdict :
          /\ <<r, v>> \in results[w]
          /\ results' = [results EXCEPT ![w] = @ \ {<<r, v>>}]
          /\ Complete(r, v = "failed")
    /\ UNCHANGED <<pVars, dblk, ddata, prefill, needRecv, net, queue, read, lost, seen, failed>>

\* D's engine loop takes one result of one worker.
Collect(w, r) ==
    /\ needRecv = {}
    /\ \E v \in Verdict :
          /\ <<r, v>> \in results[w]
          /\ results' = [results EXCEPT ![w] = @ \ {<<r, v>>}]
          /\ IF seen[r] \cup {w} = Worker
             THEN /\ Complete(r, v = "failed" \/ r \in failed)
                  /\ seen' = [seen EXCEPT ![r] = {}]
                  /\ failed' = failed \ {r}
             ELSE /\ seen' = [seen EXCEPT ![r] = @ \cup {w}]
                  /\ failed' = IF v = "failed" THEN failed \cup {r} ELSE failed
                  /\ UNCHANGED <<recvInfo, doneQ, dst>>
    /\ UNCHANGED <<pVars, dblk, ddata, prefill, needRecv, net, queue, read, lost>>

Next ==
    \/ \E r \in Req :
          \/ Prefill(r) \/ FinishPrefill(r) \/ AbortPrefill(r) \/ HandleFinishedRequest(r)
          \/ Arrive(r) \/ Drop(r) \/ AllocRemote(r) \/ AllocLocal(r)
          \/ Preempt(r) \/ RequestFinished(r) \/ SendDone(r)
          \/ \E w \in Worker : Transfer(w, r) \/ Collect(w, r)
    \/ \E w \in Worker : FinishBatch(w)
    \/ BuildConnectorMeta \/ FreeFinished \/ Tick

Spec == Init /\ [][Next]_vars

\* P's engine loop keeps stepping and time passes.  On D the loop finishes its
\* passes and collects results, and the threads of the workers and of the
\* scheduler make progress.
Fairness ==
    /\ WF_vars(FreeFinished) /\ WF_vars(Tick)
    /\ WF_vars(BuildConnectorMeta)
    /\ \A r \in Req : WF_vars(SendDone(r)) /\ WF_vars(HandleFinishedRequest(r))
    /\ \A w \in Worker : WF_vars(FinishBatch(w))
    /\ \A w \in Worker, r \in Req : WF_vars(Transfer(w, r)) /\ SF_vars(Collect(w, r))

FairSpec == Spec /\ Fairness

-----------------------------------------------------------------------------
(* Properties *)

\* Every variable has its type.
TypeOK ==
    /\ pst \in [Req -> PStatus] /\ pblk \in [Req -> PBlock \cup {NoBlock}]
    /\ pdata \in [PBlock -> Req \cup {Junk}]
    /\ needSend \subseteq Req /\ delayed \subseteq Req
    /\ finished \subseteq Req /\ forced \subseteq Req
    /\ place \in [Req -> Nat] /\ age \in [Req -> 0 .. Timeout + 1]
    /\ dst \in [Req -> DStatus] /\ dblk \in [Req -> DBlock \cup {NoBlock}]
    /\ ddata \in [Worker -> [DBlock -> Req \cup {Junk}]]
    /\ prefill \subseteq Req /\ needRecv \subseteq Req /\ recvInfo \subseteq Req
    /\ doneQ \in [Req -> Nat] /\ net \in [Req -> Nat]
    /\ queue \in [Worker -> Seq(SUBSET Req)]
    /\ read \in [Worker -> SUBSET Req] /\ lost \in [Worker -> SUBSET Req]
    /\ results \in [Worker -> SUBSET (Req \X Verdict)]
    /\ seen \in [Req -> SUBSET Worker] /\ failed \subseteq Req

\* A request whose blocks P keeps is either still registered with the sending
\* thread or queued as finished, never both, and nothing else is: vLLM is told
\* once to free it (a second finished_sending fails an assertion there).
DelayedOnce ==
    /\ delayed \cap finished = {}
    /\ \A r \in Req : r \in delayed \cup finished <=> pst[r] = "delayed"
    /\ needSend = delayed \cup finished

\* At most one DONE exists for a request, on whichever path D gave it up, and
\* while D may still read P's blocks there is none.
OneDone ==
    \A r \in Req :
        /\ doneQ[r] + net[r] <= 1
        /\ dst[r] \in {"offered", "waiting", "loading", "aborting"} =>
              doneQ[r] + net[r] = 0 /\ r \notin finished

InBatch(w, r) == \E i \in DOMAIN queue[w] : r \in queue[w][i]
Reported(w, r) == \E v \in Verdict : <<r, v>> \in results[w]

\* A request being loaded is, for every worker, at exactly one point of its
\* way: waiting for the pass to end, in one batch of the worker, among its
\* results, or counted by the aggregator.  No other request is on the way.
LoadOnce ==
    \A w \in Worker, r \in Req :
        /\ dst[r] \in {"loading", "aborting"} <=>
              r \in needRecv \/ InBatch(w, r) \/ Reported(w, r) \/ w \in seen[r]
        /\ r \in needRecv => ~InBatch(w, r) /\ ~Reported(w, r) /\ w \notin seen[r]
        /\ InBatch(w, r) => ~Reported(w, r) /\ w \notin seen[r]
        /\ Reported(w, r) => w \notin seen[r]
        /\ \A i, j \in DOMAIN queue[w] : r \in queue[w][i] /\ r \in queue[w][j] => i = j
        /\ ~(<<r, "ok">> \in results[w] /\ <<r, "failed">> \in results[w])

\* A request that runs on D has its own KV on every worker, pulled, cached or
\* computed again after a failure, unless P's timeout freed the blocks before
\* they were read: no block of P is reused while D reads it, and none of D's
\* while a thread may still write it.
RunsOnItsOwnKV ==
    \A r \in Req : dst[r] \in {"loaded", "running"} /\ r \notin forced =>
        \A w \in Worker : ddata[w][dblk[r]] = r

\* No request past the timeout hides behind a younger one: the scan that stops
\* at the first young entry finds them all.
NoneHidden == {r \in delayed : age[r] > Timeout} \subseteq Expired

\* "Let P's delayed-free timeout reclaim blocks if this notification cannot
\* arrive": P's blocks come back whatever D and the network do.
DelayedIsFreed == \A r \in Req : pst[r] = "delayed" ~> pst[r] = "freed"

\* A load ends, well or badly on any of the workers, aborted meanwhile or not:
\* the request is loaded, scheduled again or over.
LoadEnds ==
    \A r \in Req : dst[r] \in {"loading", "aborting"} ~> dst[r] \in {"loaded", "requeued", "done"}

-----------------------------------------------------------------------------
(* The lease of P's blocks *)

Lease ==
    INSTANCE BlockLease WITH
        lease <- [r \in Req |-> IF pst[r] = "delayed" THEN "lent"
                                ELSE IF pst[r] = "freed" THEN "back" ELSE "none"],
        reader <- [r \in Req |-> IF dst[r] \in {"loading", "aborting"} THEN "reading"
                                 ELSE IF dst[r] \in {"none", "offered", "waiting"} THEN "idle"
                                 ELSE "gone"],
        expired <- forced

\* P's delayed free and D's DONE message implement a lease: blocks come back
\* before the timeout only when D is through with them on every worker.
ImplementsLease == Lease!Spec

=============================================================================
