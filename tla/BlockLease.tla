----------------------------- MODULE BlockLease -----------------------------
(***************************************************************************)
(* What the delayed free of a producer's blocks promises.  A producer      *)
(* lends the blocks of a request; a reader opens them at most once and     *)
(* closes them; the lender takes them back after the reader is done with   *)
(* them, or at any time when the lease has expired.                        *)
(***************************************************************************)
CONSTANTS Req

VARIABLES
    lease,    \* [Req -> {"none", "lent", "back"}]
    reader,   \* [Req -> {"idle", "reading", "gone"}]
    expired   \* leases that ended by expiry

vars == <<lease, reader, expired>>

Init ==
    /\ lease = [r \in Req |-> "none"]
    /\ reader = [r \in Req |-> "idle"]
    /\ expired = {}

Lend(r) ==
    /\ lease[r] = "none"
    /\ lease' = [lease EXCEPT ![r] = "lent"]
    /\ UNCHANGED <<reader, expired>>

\* The owner gives the request up before it lent anything.
Withdraw(r) ==
    /\ lease[r] = "none"
    /\ lease' = [lease EXCEPT ![r] = "back"]
    /\ UNCHANGED <<reader, expired>>

Open(r) ==
    /\ reader[r] = "idle" /\ lease[r] # "none"
    /\ reader' = [reader EXCEPT ![r] = "reading"]
    /\ UNCHANGED <<lease, expired>>

\* The reader is through, or never wants to read.
Close(r) ==
    /\ reader[r] # "gone"
    /\ reader' = [reader EXCEPT ![r] = "gone"]
    /\ UNCHANGED <<lease, expired>>

TakeBack(returned, late) ==
    /\ \A r \in returned : lease[r] = "lent" /\ reader[r] = "gone"
    /\ \A r \in late : lease[r] = "lent"
    /\ lease' = [r \in Req |-> IF r \in returned \cup late THEN "back" ELSE lease[r]]
    /\ expired' = expired \cup late
    /\ UNCHANGED reader

Next ==
    \/ \E r \in Req : Lend(r) \/ Withdraw(r) \/ Open(r) \/ Close(r)
    \/ \E returned, late \in SUBSET Req : TakeBack(returned, late)

Spec == Init /\ [][Next]_vars

=============================================================================
