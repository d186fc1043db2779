------------------------ MODULE TransactionLifecycle ------------------------
(***************************************************************************)
(* The life of a read-write transaction across three components that share *)
(* no lock: the session service, which owns the transaction's state in     *)
(* memory, the graph service, which owns its overlay, a per-transaction    *)
(* mutation lock and a short-lived finalization barrier, and the domain    *)
(* store, which is durable.  CommitTransaction and RollbackTransaction     *)
(* (internal/daemon/api/client/session_service.go) call one after the      *)
(* other, and other requests, a closing session, an expiry or a crash of   *)
(* the daemon may come between any two calls.                              *)
(*                                                                         *)
(* Storage is in direct mode (neither WAL nor Raft groups).  The graph of  *)
(* GraphTransactions is abstracted to one payload per transaction.         *)
(***************************************************************************)
EXTENDS Integers, Sequences, FiniteSets

CONSTANTS Sessions,    \* session ids
          Txns,        \* transaction ids, each used once
          Requests,    \* bound: concurrent commit and rollback requests
          Keys,        \* idempotency keys of one principal and domain
          Payloads,    \* what a transaction can have staged
          MaxRecords,  \* MaxIdempotencyRecordsPerStore
          MaxCrashes,  \* bound: restarts of the daemon
          None

\* finalizedTransactions holds the outcome of a transaction, the store the
\* transaction, revision and mutation digest of a key.
Barriers == [kind : {"committed", "discarded"}, rev : Nat, replay : BOOLEAN]
IdemRecords == [txn : Txns, rev : Nat, digest : Payloads]

ASSUME LifecycleAssumption ==
    /\ MaxRecords \in Nat \ {0}
    /\ MaxCrashes \in Nat
    /\ None \notin Sessions \cup Txns \cup Requests \cup Keys \cup Payloads
    /\ None \notin Barriers \cup IdemRecords

VARIABLES
    session,   \* session[s]: its state in the session service
    home,      \* home[t]: the session of the transaction
    txn,       \* txn[t]: its state in the session service
    base,      \* base[t]: BaseRevision
    revision,  \* the session service's view of the domain revision
    overlay,   \* overlay[t]: staged payload in the graph service
    final,     \* final[t]: finalizedTransactions, the terminal race barrier
    lock,      \* lock[t]: the request that holds the mutation lock
    request,   \* request[r]: a commit or rollback in progress
    log,       \* the durable store: one record per committed revision
    idem,      \* idem[k]: the durable idempotency record of the key
    crashes,   \* restarts so far
    intent,    \* history: the payload the transaction staged last
    undone,    \* history: transactions a rollback request took out of "active"
    purged,    \* history: keys whose record has expired
    replies    \* history: transactions a client was told are committed

serviceVars == <<session, home, txn, base, revision>>
graphVars   == <<overlay, final, lock>>
storeVars   == <<log, idem>>
history     == <<intent, undone, purged, replies>>
vars == <<serviceVars, graphVars, storeVars, request, crashes, history>>

Discarded == [kind |-> "discarded", rev |-> 0, replay |-> FALSE]
Committed(rev, replay) == [kind |-> "committed", rev |-> rev, replay |-> replay]

NoRequest == [op |-> "none", txn |-> None, key |-> None, pc |-> "idle",
              payload |-> None, rev |-> 0, replay |-> FALSE]

Terminal == {"committed", "rolledback", "expired"}

Init ==
    /\ session = [s \in Sessions |-> "none"]
    /\ home = [t \in Txns |-> None]
    /\ txn = [t \in Txns |-> "none"]
    /\ base = [t \in Txns |-> 0]
    /\ revision = 0
    /\ overlay = [t \in Txns |-> None]
    /\ final = [t \in Txns |-> None]
    /\ lock = [t \in Txns |-> None]
    /\ request = [r \in Requests |-> NoRequest]
    /\ log = <<>>
    /\ idem = [k \in Keys |-> None]
    /\ crashes = 0
    /\ intent = [t \in Txns |-> None]
    /\ undone = {}
    /\ purged = {}
    /\ replies = {}

-----------------------------------------------------------------------------
(* Sessions, beginning and staging.                                        *)

\* A session lost in a restart leaves no trace: its name stands for a new one.
OpenSession(s) ==
    /\ session[s] \in {"none", "lost"}
    /\ session' = [session EXCEPT ![s] = "active"]
    /\ UNCHANGED <<home, txn, base, revision, graphVars, storeVars, request, crashes, history>>

\* CloseSession rolls back the session's active transactions; neither their
\* overlays nor the graph service's barrier is touched.
CloseSession(s) ==
    /\ session[s] = "active"
    /\ session' = [session EXCEPT ![s] = "closed"]
    /\ txn' = [t \in Txns |-> IF home[t] = s /\ txn[t] = "active"
                              THEN "rolledback" ELSE txn[t]]
    /\ UNCHANGED <<home, base, revision, graphVars, storeVars, request, crashes, history>>

\* Expiry is written when a state is next read; every read checks it first, so
\* it is visible from the moment the deadline passes.
ExpireSession(s) ==
    /\ session[s] = "active"
    /\ session' = [session EXCEPT ![s] = "expired"]
    /\ txn' = [t \in Txns |-> IF home[t] = s /\ txn[t] = "active"
                              THEN "expired" ELSE txn[t]]
    /\ UNCHANGED <<home, base, revision, graphVars, storeVars, request, crashes, history>>

\* The base revision is the graph's current revision, or the session service's
\* view of it when that is ahead.
BeginTransaction(t, s) ==
    /\ txn[t] = "none"
    /\ session[s] = "active"
    /\ txn' = [txn EXCEPT ![t] = "active"]
    /\ home' = [home EXCEPT ![t] = s]
    /\ base' = [base EXCEPT ![t] = IF revision > Len(log) THEN revision ELSE Len(log)]
    /\ UNCHANGED <<session, revision, graphVars, storeVars, request, crashes, history>>

\* Fault: a mutation asks the session service only.
MayMutateSessionOnly(t) == txn[t] = "active"

\* validateTransactionActive: the barrier first, then the session service.
MayMutate(t) == final[t] = None /\ txn[t] = "active"

\* Any graph mutation, under the mutation lock.
StageMutation(t, p) ==
    /\ lock[t] = None
    /\ MayMutate(t)
    /\ overlay' = [overlay EXCEPT ![t] = p]
    /\ intent' = [intent EXCEPT ![t] = p]
    /\ UNCHANGED <<serviceVars, final, lock, storeVars, request, crashes, undone, purged, replies>>

-----------------------------------------------------------------------------
(* Requests.                                                               *)

\* Request r has reached pc.
At(r, pc) == request[r].pc = pc

Goto(r, pc) == request' = [request EXCEPT ![r].pc = pc]

\* Fault: the request keeps the overlay it took.
WithResultKeepsOverlay(r, rev, replay) ==
    request' = [request EXCEPT ![r] = [@ EXCEPT !.pc = "session", !.rev = rev, !.replay = replay]]

\* The request goes on to finalize the session with a graph commit result.
WithResult(r, rev, replay) ==
    request' = [request EXCEPT ![r] = [@ EXCEPT !.pc = "session", !.payload = None,
                                                !.rev = rev, !.replay = replay]]

\* The request returns, with an error unless a reply is recorded.
Return(r) == request' = [request EXCEPT ![r] = NoRequest]

ReplyCommitted(r) ==
    /\ Return(r)
    /\ replies' = replies \cup {[txn |-> request[r].txn, rev |-> request[r].rev]}

StartCommit(r, t, k) ==
    /\ At(r, "idle")
    /\ txn[t] # "none"
    /\ request' = [request EXCEPT ![r] = [NoRequest EXCEPT
            !.op = "commit", !.txn = t, !.key = k,
            !.pc = IF k = None THEN "get" ELSE "lookup"]]
    /\ UNCHANGED <<serviceVars, graphVars, storeVars, crashes, history>>

\* RollbackTransaction; CloseTransaction does the same to a read-write
\* transaction.
StartRollback(r, t) ==
    /\ At(r, "idle")
    /\ txn[t] # "none"
    /\ request' = [request EXCEPT ![r] = [NoRequest EXCEPT
            !.op = "rollback", !.txn = t, !.pc = "get"]]
    /\ UNCHANGED <<serviceVars, graphVars, storeVars, crashes, history>>

\* A cancelled context or a quiesced gate ends a request where it is noticed
\* without an effect.  Discarding and acknowledging take no context and no gate.
Interrupted(r) ==
    /\ request[r].pc \in {"lookup", "get", "lock", "session", "transition"}
    /\ Return(r)
    /\ UNCHANGED <<serviceVars, graphVars, storeVars, crashes, history>>

\* LookupIdempotentCommit.
Lookup(r) ==
    LET q == request[r]
        found == idem[q.key] # None /\ idem[q.key].txn = q.txn IN
    /\ At(r, "lookup")
    /\ request' = [request EXCEPT ![r] = [@ EXCEPT !.pc = IF found THEN "replayGet" ELSE "get",
                                                   !.rev = IF found THEN idem[q.key].rev ELSE 0]]
    /\ UNCHANGED <<serviceVars, graphVars, storeVars, crashes, history>>

\* finalizeIdempotentLookup: GetTransaction.  A transaction lost in a restart
\* is not an error: the durable result is the answer.
LookupGet(r) ==
    LET t == request[r].txn IN
    /\ At(r, "replayGet")
    /\ \/ /\ txn[t] = "lost"
          /\ ReplyCommitted(r)
       \/ /\ txn[t] = "active"
          /\ Goto(r, "replayCommit")
          /\ UNCHANGED replies
       \/ /\ txn[t] \in Terminal
          /\ Goto(r, "replayAck")
          /\ UNCHANGED replies
    /\ UNCHANGED <<serviceVars, graphVars, storeVars, crashes, intent, undone, purged>>

\* finalizeIdempotentLookup: CommitTransactionReplay, whose failure is ignored.
LookupCommit(r) ==
    LET t == request[r].txn IN
    /\ At(r, "replayCommit")
    /\ \/ /\ txn[t] = "active"
          /\ txn' = [txn EXCEPT ![t] = "committed"]
          /\ Goto(r, "replayAck")
          /\ UNCHANGED replies
       \/ /\ ReplyCommitted(r)   \* no longer active, or the gate is closed
          /\ UNCHANGED txn
    /\ UNCHANGED <<session, home, base, revision, graphVars, storeVars, crashes, intent, undone, purged>>

\* GetTransaction at the head of both requests.
Get(r) ==
    LET t == request[r].txn IN
    /\ At(r, "get")
    /\ \/ /\ txn[t] = "active"
          /\ Goto(r, IF request[r].op = "commit" THEN "lock" ELSE "discard")
       \/ /\ txn[t] \in Terminal
          /\ Goto(r, "ackOnly")
       \/ /\ txn[t] = "lost"
          /\ Return(r)
    /\ UNCHANGED <<serviceVars, graphVars, storeVars, crashes, history>>

-----------------------------------------------------------------------------
(* CommitTransactionGraph.                                                 *)

\* Under the mutation lock: the barrier answers for a finalized transaction;
\* otherwise the transaction must still be active, and its overlay is taken.
LockCommit(r) ==
    LET q == request[r]
        t == q.txn IN
    /\ At(r, "lock")
    /\ lock[t] = None
    /\ \/ /\ final[t] # None /\ final[t].kind = "committed"
          /\ WithResult(r, final[t].rev, final[t].replay)
          /\ UNCHANGED graphVars
       \/ /\ \/ final[t] = Discarded
             \/ final[t] = None /\ txn[t] # "active"
             \/ MayMutate(t) /\ overlay[t] = None /\ q.key # None
          /\ Return(r)
          /\ UNCHANGED graphVars
       \/ /\ MayMutate(t) /\ overlay[t] = None /\ q.key = None
          /\ final' = [final EXCEPT ![t] = Committed(0, FALSE)]
          /\ WithResult(r, 0, FALSE)
          /\ UNCHANGED <<overlay, lock>>
       \/ /\ MayMutate(t) /\ overlay[t] # None
          /\ overlay' = [overlay EXCEPT ![t] = None]
          /\ lock' = [lock EXCEPT ![t] = r]
          /\ request' = [request EXCEPT ![r] = [@ EXCEPT !.pc = "store", !.payload = overlay[t]]]
          /\ UNCHANGED final
    /\ UNCHANGED <<serviceVars, storeVars, crashes, history>>

Records == {k \in Keys : idem[k] # None}

\* Fault: the commit gives its overlay up when the store refuses it.
RestoreOverlayNever(t, p) == overlay' = overlay

\* The deferred restoreOverlay.
RestoreOverlay(t, p) == overlay' = [overlay EXCEPT ![t] = p]

\* Fault: the refused commit keeps the mutation lock.
RefuseKeepsLock(r) ==
    /\ RestoreOverlay(request[r].txn, request[r].payload)
    /\ Return(r)
    /\ UNCHANGED <<final, lock, storeVars>>

\* The store refused the commit: the overlay comes back and the lock is freed.
Refuse(r) ==
    /\ RestoreOverlay(request[r].txn, request[r].payload)
    /\ lock' = [lock EXCEPT ![request[r].txn] = None]
    /\ Return(r)
    /\ UNCHANGED <<final, storeVars>>

\* Fault: an error after the store has committed is treated as a refusal.
FinalizeRefused(r, rev, replay) ==
    LET t == request[r].txn IN
    /\ final' = final
    /\ lock' = [lock EXCEPT ![t] = None]
    /\ Return(r)

\* The commit has a result: the barrier goes up before the lock is freed.
Finalize(r, rev, replay) ==
    LET t == request[r].txn IN
    /\ final' = [final EXCEPT ![t] = Committed(rev, replay)]
    /\ lock' = [lock EXCEPT ![t] = None]
    /\ WithResult(r, rev, replay)

\* Fault: only a record of the same transaction counts.
KnownSameTxn(q) == q.key # None /\ idem[q.key] # None /\ idem[q.key].txn = q.txn

\* The store retains a record of the request's key.
Known(q) == q.key # None /\ idem[q.key] # None

\* Fault: off by one at the capacity.
RoomOffByOne(q) == q.key = None \/ Cardinality(Records) <= MaxRecords

\* The store has room for the record the request would add.
Room(q) == q.key = None \/ Cardinality(Records) < MaxRecords

\* The rest of CommitTransactionGraph, with CommitWithInfo: a retained record of
\* the key and the same mutations answers; otherwise the key must be unknown,
\* with room for its record, and the base not ahead of the store.  A write
\* conflict, a failed blob check or a cancelled context may refuse any commit.
CommitToStore(r) ==
    LET q == request[r]
        t == q.txn IN
    /\ At(r, "store")
    /\ \/ /\ Known(q) /\ idem[q.key].digest = q.payload
          /\ Finalize(r, idem[q.key].rev, TRUE)
          /\ UNCHANGED <<overlay, storeVars>>
       \/ Refuse(r)
       \/ /\ ~Known(q) /\ Room(q) /\ base[t] <= Len(log)
          /\ log' = Append(log, [txn |-> t, key |-> q.key, payload |-> q.payload])
          /\ idem' = IF q.key = None THEN idem
                     ELSE [idem EXCEPT ![q.key] =
                             [txn |-> t, rev |-> Len(log) + 1, digest |-> q.payload]]
          /\ request' = [request EXCEPT ![r] = [@ EXCEPT !.pc = "revision", !.payload = None,
                                                         !.rev = Len(log) + 1]]
          /\ UNCHANGED graphVars
    /\ UNCHANGED <<serviceVars, crashes, history>>

\* The revision the commit reports: with a key the one in its idempotency
\* record, without one whatever the store is at when it is asked again.
CommittedRevision(q) == IF q.key # None THEN q.rev ELSE Len(log)

ReadRevision(r) ==
    /\ At(r, "revision")
    /\ Finalize(r, CommittedRevision(request[r]), FALSE)
    /\ UNCHANGED <<serviceVars, overlay, storeVars, crashes, history>>

\* Fault: an empty commit advances the view like any other.
RevisionViewCountsEmpty(q) ==
    IF q.rev = 0 THEN revision + 1
    ELSE IF ~q.replay /\ q.rev > revision THEN q.rev ELSE revision

\* The session service's view of the revision is a high-water mark, which a
\* replay and an empty commit leave alone.
RevisionView(q) == IF ~q.replay /\ q.rev > revision THEN q.rev ELSE revision

\* The session service's own commit.
FinalizeSession(r) ==
    LET q == request[r]
        t == q.txn IN
    /\ At(r, "session")
    /\ \/ /\ txn[t] = "active"
          /\ txn' = [txn EXCEPT ![t] = "committed"]
          /\ revision' = RevisionView(q)
          /\ Goto(r, "ack")
       \/ /\ txn[t] # "active"
          /\ Return(r)
          /\ UNCHANGED <<txn, revision>>
    /\ UNCHANGED <<session, home, base, graphVars, storeVars, crashes, history>>

-----------------------------------------------------------------------------
(* discardAndTransitionTransaction.                                        *)

\* Fault: discarding overrules a committed barrier.
DiscardAlways(r) ==
    LET t == request[r].txn IN
    /\ At(r, "discard")
    /\ lock[t] = None
    /\ final' = [final EXCEPT ![t] = Discarded]
    /\ overlay' = [overlay EXCEPT ![t] = None]
    /\ Goto(r, "transition")
    /\ UNCHANGED <<serviceVars, lock, storeVars, crashes, history>>

\* DiscardTransactionGraph.
Discard(r) ==
    LET t == request[r].txn IN
    /\ At(r, "discard")
    /\ lock[t] = None
    /\ \/ /\ final[t] \in {None, Discarded}
          /\ final' = [final EXCEPT ![t] = Discarded]
          /\ overlay' = [overlay EXCEPT ![t] = None]
          /\ Goto(r, "transition")
       \/ /\ final[t] \notin {None, Discarded}
          /\ Return(r)
          /\ UNCHANGED <<final, overlay>>
    /\ UNCHANGED <<serviceVars, lock, storeVars, crashes, history>>

\* The session service's RollbackTransaction: a transaction that is no longer
\* active is returned as it is.
Transition(r) ==
    LET t == request[r].txn IN
    /\ At(r, "transition")
    /\ txn' = [txn EXCEPT ![t] = IF @ = "active" THEN "rolledback" ELSE @]
    /\ undone' = IF txn[t] = "active" THEN undone \cup {t} ELSE undone
    /\ Goto(r, "ack")
    /\ UNCHANGED <<session, home, base, revision, graphVars, storeVars, crashes, intent, purged, replies>>

\* The barrier once the session service says the transaction is over.
BarrierAfterAck(t) == IF txn[t] \in Terminal THEN [final EXCEPT ![t] = None] ELSE final

\* AcknowledgeTransactionFinalization, the last call of every request that got
\* so far; only a commit that was carried out replies "committed".
Acknowledge(r) ==
    LET q == request[r] IN
    /\ q.pc \in {"ack", "ackOnly", "replayAck"}
    /\ lock[q.txn] = None
    /\ final' = BarrierAfterAck(q.txn)
    /\ IF q.op = "commit" /\ q.pc # "ackOnly"
       THEN ReplyCommitted(r)
       ELSE Return(r) /\ UNCHANGED replies
    /\ UNCHANGED <<serviceVars, overlay, lock, storeVars, crashes, intent, undone, purged>>

-----------------------------------------------------------------------------
(* The store's clock and the daemon's crashes.                             *)

\* purgeExpiredIdempotencyRecordsLocked, for one key.
PurgeRecord(k) ==
    /\ idem[k] # None
    /\ idem' = [idem EXCEPT ![k] = None]
    /\ purged' = purged \cup {k}
    /\ UNCHANGED <<serviceVars, graphVars, log, request, crashes, intent, undone, replies>>

\* Fault: recovery does not rebuild the idempotency records.
CrashForgetsRecords ==
    /\ crashes < MaxCrashes
    /\ crashes' = crashes + 1
    /\ session' = [s \in Sessions |-> IF session[s] = "none" THEN "none" ELSE "lost"]
    /\ txn' = [t \in Txns |-> IF txn[t] = "none" THEN "none" ELSE "lost"]
    /\ revision' = 0
    /\ overlay' = [t \in Txns |-> None]
    /\ final' = [t \in Txns |-> None]
    /\ lock' = [t \in Txns |-> None]
    /\ request' = [r \in Requests |-> NoRequest]
    /\ home' = [t \in Txns |-> None]
    /\ base' = [t \in Txns |-> 0]
    /\ idem' = [k \in Keys |-> None]
    /\ UNCHANGED <<log, history>>

\* Sessions, transactions, overlays, barriers and requests are in memory.
Crash ==
    /\ crashes < MaxCrashes
    /\ crashes' = crashes + 1
    /\ session' = [s \in Sessions |-> IF session[s] = "none" THEN "none" ELSE "lost"]
    /\ txn' = [t \in Txns |-> IF txn[t] = "none" THEN "none" ELSE "lost"]
    /\ revision' = 0
    /\ overlay' = [t \in Txns |-> None]
    /\ final' = [t \in Txns |-> None]
    /\ lock' = [t \in Txns |-> None]
    /\ request' = [r \in Requests |-> NoRequest]
    /\ home' = [t \in Txns |-> None]
    /\ base' = [t \in Txns |-> 0]
    /\ UNCHANGED <<storeVars, history>>

\* The steps a request takes once it has started.
Step(r) ==
    \/ Lookup(r) \/ LookupGet(r) \/ LookupCommit(r)
    \/ Get(r) \/ LockCommit(r) \/ CommitToStore(r) \/ ReadRevision(r)
    \/ FinalizeSession(r)
    \/ Discard(r) \/ Transition(r) \/ Acknowledge(r)

Next ==
    \/ \E s \in Sessions : OpenSession(s) \/ CloseSession(s) \/ ExpireSession(s)
    \/ \E t \in Txns, s \in Sessions : BeginTransaction(t, s)
    \/ \E t \in Txns, p \in Payloads : StageMutation(t, p)
    \/ \E r \in Requests, t \in Txns, k \in Keys \cup {None} : StartCommit(r, t, k)
    \/ \E r \in Requests, t \in Txns : StartRollback(r, t)
    \/ \E r \in Requests : Step(r) \/ Interrupted(r)
    \/ \E k \in Keys : PurgeRecord(k)
    \/ Crash

Spec == Init /\ [][Next]_vars

\* A request runs in a goroutine of its own, and the mutation lock is a
\* channel, which serves its waiters in order: a request whose next step is
\* possible again and again takes it.
FairSpec == Spec /\ \A r \in Requests : SF_vars(Step(r))

-----------------------------------------------------------------------------
TxnStates == {"none", "active", "committed", "rolledback", "expired", "lost"}
SessionStates == {"none", "active", "closed", "expired", "lost"}
PCs == {"idle", "lookup", "replayGet", "replayCommit", "replayAck", "get", "lock", "store",
        "revision", "session", "ack", "ackOnly", "discard", "transition"}

RequestRecords ==
    [op : {"none", "commit", "rollback"}, txn : Txns \cup {None}, key : Keys \cup {None}, pc : PCs,
     payload : Payloads \cup {None}, rev : Nat, replay : BOOLEAN]
ServiceType ==
    /\ session \in [Sessions -> SessionStates]
    /\ home \in [Txns -> Sessions \cup {None}]
    /\ txn \in [Txns -> TxnStates]
    /\ base \in [Txns -> Nat]
    /\ revision \in Nat
    /\ crashes \in 0 .. MaxCrashes
GraphType ==
    /\ overlay \in [Txns -> Payloads \cup {None}]
    /\ final \in [Txns -> Barriers \cup {None}]
    /\ lock \in [Txns -> Requests \cup {None}]
StoreType ==
    /\ log \in Seq([txn : Txns, key : Keys \cup {None}, payload : Payloads])
    /\ idem \in [Keys -> IdemRecords \cup {None}]
RequestType == request \in [Requests -> RequestRecords]

\* No barrier, request or idempotency record names a revision still to come.
RevisionsReached ==
    /\ revision <= Len(log)
    /\ \A t \in Txns : final[t] # None => final[t].rev <= Len(log)
    /\ \A r \in Requests : request[r].rev <= Len(log)
    /\ \A k \in Records : idem[k].rev \in 1 .. Len(log)

\* Types of the session service's, the graph service's and the store's state;
\* a request carries the staged payload exactly while it is committing it, and
\* no revision is ahead of the store.
TypeOK ==
    /\ ServiceType /\ GraphType /\ StoreType /\ RequestType
    /\ \A r \in Requests : At(r, "store") <=> request[r].payload # None
    /\ RevisionsReached

\* The base revision of an active transaction is never ahead of the store,
\* which would make its commit a false conflict (the hazard the comment in
\* commitTransaction describes).
BaseNotAhead == \A t \in Txns : txn[t] = "active" => base[t] <= Len(log)

\* No transaction is applied to the store twice, whatever requests are
\* retried, raced or interrupted.
CommitOnce ==
    \A i, j \in 1 .. Len(log) : log[i].txn = log[j].txn => i = j

\* While its record is retained an idempotency key is applied once, even by
\* different transactions and across restarts.
KeyOnce ==
    \A i, j \in 1 .. Len(log) :
        log[i].key # None /\ log[i].key = log[j].key /\ log[i].key \notin purged => i = j

\* A client that is told "committed" at a revision finds there what its
\* transaction staged, or finds it below as a commit of that transaction
\* (without a key CommitTransactionGraph reads the store's revision after the
\* commit).  Revision 0, a graph commit without operations, means nothing was
\* staged; the client then gets the session service's view of the revision.
ReplyTruthful ==
    \A a \in replies :
        IF a.rev = 0 THEN intent[a.txn] = None
        ELSE \E i \in 1 .. a.rev : /\ log[i].payload = intent[a.txn]
                                   /\ i = a.rev \/ log[i].txn = a.txn

\* A rollback request that took the transaction out of "active" won: nothing
\* the transaction staged is, or ever becomes, durable.
RollbackWins == \A i \in 1 .. Len(log) : log[i].txn \notin undone

\* Capacity: the store never holds more idempotency records than it may.
RecordsBounded == Cardinality(Records) <= MaxRecords

\* What the design says of sessions: a transaction that was rolled back or
\* expired with its session left nothing behind.
SessionEndRollsBack ==
    \A i \in 1 .. Len(log) : txn[log[i].txn] \notin {"rolledback", "expired"}

\* Every commit and rollback request returns: no path leaves the mutation lock
\* taken, and no two requests wait for one another.
RequestsReturn == \A r \in Requests : request[r].pc # "idle" ~> request[r].pc = "idle"
=============================================================================
