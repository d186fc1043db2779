----------------------- MODULE MCTransactionLifecycle -----------------------
(***************************************************************************)
(* Model checking of TransactionLifecycle in two scenarios that share the  *)
(* constants: requests that compete for transactions and a key while the   *)
(* daemon stays up, and requests one after the other, with more keys than  *)
(* the store retains, across a restart.                                    *)
(***************************************************************************)
EXTENDS TransactionLifecycle, TLC

VARIABLE scenario

MCInit == Init /\ scenario \in {"competing", "restart"}
MCNext == Next /\ UNCHANGED scenario
MCSpec == MCInit /\ [][MCNext]_<<vars, scenario>>

CONSTANT MainKey   \* the key of the competing requests

Busy == {r \in Requests : request[r].pc # "idle"}

\* Competing requests meet on a transaction or on the key.
Competing ==
    /\ crashes = 0 /\ purged = {}
    /\ \A r \in Busy : request[r].key \in {None, MainKey}
    /\ \A r, q \in Busy : request[r].txn = request[q].txn \/ {request[r].key, request[q].key} = {MainKey}

Explored == IF scenario = "competing" THEN Competing ELSE Cardinality(Busy) <= 1

\* The keys are not interchangeable.
Symmetry == Permutations(Sessions) \cup Permutations(Txns) \cup Permutations(Requests)
                \cup Permutations(Payloads)
=============================================================================
