--------------------- MODULE TransactionLifecycleProofs ---------------------
(***************************************************************************)
(* Proofs about TransactionLifecycle for any sessions, transactions, keys, *)
(* requests and crashes.                                                   *)
(*                                                                         *)
(* The argument: once a transaction is in the log it is closed, by the     *)
(* lock of the commit that is about to report it, by the committed barrier *)
(* or by its state in the session service, and each of these is taken over *)
(* by the next.  A closed transaction stages nothing and is not committed  *)
(* again, so what it staged last is what the log has, and every answer     *)
(* that is on its way to a client stays true.                              *)
(***************************************************************************)
EXTENDS TransactionLifecycle, FiniteSetTheorems, SequenceTheorems, TLAPS

Over(t) == txn[t] \notin {"none", "active"}
Logged(t) == \E i \in 1 .. Len(log) : log[i].txn = t

\* Nothing that the transaction stages can become durable any more, other than
\* what already is.
Closed(t) ==
    \/ Over(t)
    \/ final[t] # None /\ final[t].kind = "committed"
    \/ lock[t] # None /\ At(lock[t], "revision")

\* A commit of t reported at revision rev is the truth.
Truth(t, rev) ==
    IF rev = 0 THEN intent[t] = None
    ELSE \E i \in 1 .. rev : log[i].payload = intent[t] /\ (i = rev \/ log[i].txn = t)

\* Where a request can be, by what it is; its transaction has begun.
RequestInv ==
    \A r \in Requests : ~At(r, "idle") =>
        /\ request[r].txn \in Txns /\ txn[request[r].txn] # "none"
        /\ request[r].op # "none"
        /\ At(r, "lookup") => request[r].key # None
        /\ request[r].pc \in {"discard", "transition"} => request[r].op = "rollback"

\* The mutation lock is held by the commit that is in the store.
LockInv ==
    /\ \A r \in Requests : request[r].pc \in {"store", "revision"} => lock[request[r].txn] = r
    /\ \A t \in Txns : lock[t] # None => /\ request[lock[t]].txn = t
                                         /\ request[lock[t]].pc \in {"store", "revision"}
                                         /\ final[t] = None

\* The overlay is what was staged last, unless it has been discarded or a
\* commit holds it.
OverlayInv ==
    \A t \in Txns :
        /\ txn[t] = "none" => overlay[t] = None /\ intent[t] = None /\ final[t] = None
        /\ txn[t] = "active" /\ final[t] = None /\ lock[t] = None => overlay[t] = intent[t]

\* A committed transaction is closed and has its last payload in the log.
LogInv ==
    \A i \in 1 .. Len(log) : /\ txn[log[i].txn] # "none"
                             /\ Closed(log[i].txn)
                             /\ log[i].payload = intent[log[i].txn]

\* The answers that barriers and requests carry.
BarrierAnswers ==
    \A t \in Txns : final[t] # None /\ final[t].kind = "committed" => Truth(t, final[t].rev)
RequestAnswers(r) ==
    LET t == request[r].txn IN
    /\ At(r, "store") => request[r].payload = intent[t] /\ ~Logged(t)
    /\ request[r].pc \in {"revision", "replayGet", "replayCommit", "replayAck"} =>
           request[r].rev \in 1 .. Len(log) /\ log[request[r].rev].txn = t
    /\ At(r, "session") \/ (At(r, "ack") /\ request[r].op = "commit") =>
           Closed(t) /\ Truth(t, request[r].rev)
AnswerInv == BarrierAnswers /\ \A r \in Requests : RequestAnswers(r)

\* The answers that clients have, as ReplyTruthful has it, are final.
ReplyInv == \A a \in replies : a.txn \in Txns /\ a.rev \in 0 .. Len(log) /\ Closed(a.txn) /\ Truth(a.txn, a.rev)

\* A rollback under way has put the barrier up, or has lost; one that has won
\* has closed the transaction before anything of it was committed.
RollbackInv ==
    /\ \A r \in Requests : At(r, "transition") =>
           final[request[r].txn] = Discarded \/ txn[request[r].txn] # "active"
    /\ \A t \in undone : t \in Txns /\ Over(t) /\ lock[t] = None /\ ~Logged(t)

\* Every retained record is that of a commit, and every key in the log that was
\* not purged has its record.
KeyInv ==
    /\ \A k \in Records : /\ log[idem[k].rev].txn = idem[k].txn
                          /\ log[idem[k].rev].payload = idem[k].digest
                          /\ log[idem[k].rev].key = k
    /\ \A i \in 1 .. Len(log) : log[i].key # None /\ log[i].key \notin purged =>
           idem[log[i].key] # None /\ idem[log[i].key].rev = i
    /\ IsFiniteSet(Records)

HistoryType ==
    /\ intent \in [Txns -> Payloads \cup {None}]
    /\ purged \subseteq Keys

LifecycleInv ==
    /\ TypeOK /\ HistoryType /\ RequestInv /\ LockInv /\ OverlayInv /\ LogInv /\ AnswerInv /\ ReplyInv
    /\ RollbackInv /\ KeyInv /\ CommitOnce /\ BaseNotAhead /\ RecordsBounded

-----------------------------------------------------------------------------
(* What a step of request r does to the requests.                          *)

Others(r) == \A q \in Requests \ {r} : request'[q] = request[q]

\* Request r goes on at pc with the given payload and revision.
Moves(r, pc, payload, rev) ==
    /\ RequestType' /\ Others(r)
    /\ request'[r].op = request[r].op
    /\ request'[r].txn = request[r].txn
    /\ request'[r].key = request[r].key
    /\ request'[r].pc = pc
    /\ request'[r].payload = payload
    /\ request'[r].rev = rev

Goes(r, pc) == Moves(r, pc, request[r].payload, request[r].rev)

Returns(r) == RequestType' /\ Others(r) /\ request'[r] = NoRequest

\* A fresh request is one the type allows.
LEMMA NoRequestType == NoRequest \in RequestRecords
  BY DEF NoRequest, RequestRecords, PCs

\* Goto changes the place of one request and nothing else.
LEMMA GotoEffect ==
    ASSUME RequestType, NEW r \in Requests, NEW pc \in PCs, Goto(r, pc)
    PROVE  Goes(r, pc)
  BY DEF RequestType, RequestRecords, Goto, Goes, Moves, Others

\* WithResult gives a request its result and takes its payload away.
LEMMA WithResultEffect ==
    ASSUME RequestType, NEW r \in Requests, NEW rev \in Nat, NEW replay \in BOOLEAN,
           WithResult(r, rev, replay)
    PROVE  Moves(r, "session", None, rev)
  BY ZenonT(60) DEF RequestType, RequestRecords, PCs, WithResult, Moves, Others

\* A request that returns leaves no trace.
LEMMA ReturnEffect ==
    ASSUME RequestType, NEW r \in Requests, Return(r)
    PROVE  Returns(r)
  BY NoRequestType DEF RequestType, Return, Returns, Others

\* The start of a commit.
LEMMA StartCommitEffect ==
    ASSUME RequestType, NEW r \in Requests, NEW t \in Txns, NEW k \in Keys \cup {None},
           StartCommit(r, t, k)
    PROVE  /\ RequestType' /\ Others(r)
           /\ request'[r].op = "commit" /\ request'[r].txn = t /\ request'[r].key = k
           /\ request'[r].pc = IF k = None THEN "get" ELSE "lookup"
           /\ request'[r].payload = None /\ request'[r].rev = 0
  BY DEF RequestType, RequestRecords, PCs, StartCommit, NoRequest, Others

\* The start of a rollback.
LEMMA StartRollbackEffect ==
    ASSUME RequestType, NEW r \in Requests, NEW t \in Txns, StartRollback(r, t)
    PROVE  /\ RequestType' /\ Others(r)
           /\ request'[r].op = "rollback" /\ request'[r].txn = t /\ request'[r].key = None
           /\ request'[r].pc = "get"
           /\ request'[r].payload = None /\ request'[r].rev = 0
  BY DEF RequestType, RequestRecords, PCs, StartRollback, NoRequest, Others

\* A request that goes on with a revision it has found.
LEMMA FoundEffect ==
    ASSUME RequestType, NEW r \in Requests, NEW pc \in PCs, NEW n \in Nat,
           request' = [request EXCEPT ![r] = [@ EXCEPT !.pc = pc, !.rev = n]]
    PROVE  Moves(r, pc, request[r].payload, n)
  BY DEF RequestType, RequestRecords, Moves, Others

\* The lookup of a key finds a revision or leaves zero.
LEMMA LookupEffect ==
    ASSUME RequestType, StoreType, RequestInv, LifecycleAssumption,
           NEW r \in Requests, Lookup(r)
    PROVE  LET q == request[r]
               found == idem[q.key] # None /\ idem[q.key].txn = q.txn IN
           /\ q.key \in Keys
           /\ IF found THEN Moves(r, "replayGet", q.payload, idem[q.key].rev)
              ELSE Moves(r, "get", q.payload, 0)
  <1> DEFINE q == request[r]
             found == idem[q.key] # None /\ idem[q.key].txn = q.txn
             pc == IF found THEN "replayGet" ELSE "get"
             new == IF found THEN idem[q.key].rev ELSE 0
  <1>1. q \in RequestRecords
    BY DEF RequestType
  <1>2. q.key \in Keys
    BY <1>1 DEF RequestInv, RequestRecords, Lookup, At
  <1>3. new \in Nat /\ pc \in PCs
    BY <1>2 DEF StoreType, IdemRecords, PCs
  <1>4. request' = [request EXCEPT ![r] = [@ EXCEPT !.pc = pc, !.rev = new]]
    BY DEF Lookup
  <1> HIDE DEF pc, new
  <1>5. Moves(r, pc, q.payload, new)
    BY <1>3, <1>4, FoundEffect
  <1> QED
    BY <1>2, <1>5 DEF pc, new

\* A commit that takes the lock and the overlay goes to the store with it.
LEMMA TakeEffect ==
    ASSUME RequestType, NEW r \in Requests, NEW p \in Payloads \cup {None},
           request' = [request EXCEPT ![r] = [@ EXCEPT !.pc = "store", !.payload = p]]
    PROVE  Moves(r, "store", p, request[r].rev)
  BY ZenonT(60) DEF RequestType, RequestRecords, PCs, Moves, Others

\* A commit that the store has carried out has a revision to report.
LEMMA StoredEffect ==
    ASSUME RequestType, NEW r \in Requests, NEW n \in Nat,
           request' = [request EXCEPT ![r] = [@ EXCEPT !.pc = "revision", !.payload = None,
                                                       !.rev = n]]
    PROVE  Moves(r, "revision", None, n)
  BY ZenonT(60) DEF RequestType, RequestRecords, PCs, Moves, Others

-----------------------------------------------------------------------------
(* Types.                                                                  *)

\* A record that is held is one the type allows.
LEMMA Facts ==
    ASSUME LifecycleInv
    PROVE  /\ None \notin Sessions /\ None \notin Txns /\ None \notin Requests /\ None \notin Keys
           /\ None \notin Payloads
           /\ Len(log) \in Nat
           /\ \A r \in Requests : request[r] \in RequestRecords
           /\ \A t \in Txns : final[t] # None => final[t] \in Barriers
           /\ \A k \in Keys : idem[k] # None => idem[k] \in IdemRecords
           /\ Discarded \in Barriers
           /\ \A rev \in Nat : Committed(rev, TRUE) \in Barriers /\ Committed(rev, FALSE) \in Barriers
  <1> USE DEF LifecycleInv, TypeOK
  <1>1. None \notin Sessions /\ None \notin Txns /\ None \notin Requests /\ None \notin Keys
        /\ None \notin Payloads
    BY LifecycleAssumption
  <1>2. Len(log) \in Nat
    BY DEF StoreType
  <1>3. \A r \in Requests : request[r] \in RequestRecords
    BY DEF RequestType
  <1>4. \A t \in Txns : final[t] # None => final[t] \in Barriers
    BY DEF GraphType
  <1>5. \A k \in Keys : idem[k] # None => idem[k] \in IdemRecords
    BY DEF StoreType
  <1>6. /\ Discarded \in Barriers
        /\ \A rev \in Nat : Committed(rev, TRUE) \in Barriers /\ Committed(rev, FALSE) \in Barriers
    BY DEF Discarded, Committed, Barriers
  <1> QED
    BY <1>1, <1>2, <1>3, <1>4, <1>5, <1>6

\* A committed barrier goes up for t, with a revision.
Raised(t, rev) ==
    /\ final' \in [Txns -> Barriers \cup {None}]
    /\ final'[t] # None /\ final'[t].kind = "committed" /\ final'[t].rev = rev
    /\ \A u \in Txns \ {t} : final'[u] = final[u]

\* A commit that replaces the barrier by a committed one raises it.
LEMMA RaisedEffect ==
    ASSUME LifecycleInv, NEW t \in Txns, NEW rev \in Nat, NEW b \in BOOLEAN,
           final' = [final EXCEPT ![t] = Committed(rev, b)]
    PROVE  Raised(t, rev)
  <1>1. Committed(rev, b) \in Barriers /\ Committed(rev, b).kind = "committed" /\ Committed(rev, b).rev = rev
    BY DEF Committed, Barriers
  <1>2. Committed(rev, b) # None
    BY <1>1, LifecycleAssumption
  <1> QED
    BY <1>1, <1>2 DEF Raised, LifecycleInv, TypeOK, GraphType

\* The four ways through the mutation lock of a commit: the barrier answers,
\* the request returns, it commits nothing, or it goes to the store.
Answered(r) ==
    LET t == request[r].txn IN
    /\ final[t] # None /\ final[t].kind = "committed"
    /\ Moves(r, "session", None, final[t].rev)
    /\ UNCHANGED graphVars
CommitsNothing(r) ==
    LET t == request[r].txn IN
    /\ MayMutate(t) /\ overlay[t] = None
    /\ Raised(t, 0)
    /\ Moves(r, "session", None, 0)
    /\ UNCHANGED <<overlay, lock>>
Takes(r) ==
    LET t == request[r].txn IN
    /\ MayMutate(t) /\ overlay[t] # None
    /\ overlay' = [overlay EXCEPT ![t] = None]
    /\ lock' = [lock EXCEPT ![t] = r]
    /\ Moves(r, "store", overlay[t], request[r].rev)
    /\ UNCHANGED final

\* The barrier goes up with a revision and the lock is freed.
Finalizes(r, rev) ==
    LET t == request[r].txn IN
    /\ Raised(t, rev)
    /\ lock' = [lock EXCEPT ![t] = None]
    /\ Moves(r, "session", None, rev)

\* The three results of the store: replayed, refused, stored.
Replays(r) ==
    LET q == request[r] IN
    /\ q.key \in Keys /\ idem[q.key] # None /\ idem[q.key].digest = q.payload
    /\ Finalizes(r, idem[q.key].rev)
    /\ UNCHANGED <<overlay, storeVars>>
Refused(r) ==
    /\ overlay' = [overlay EXCEPT ![request[r].txn] = request[r].payload]
    /\ lock' = [lock EXCEPT ![request[r].txn] = None]
    /\ Returns(r)
    /\ UNCHANGED <<final, storeVars>>
Stores(r) ==
    LET q == request[r]
        t == q.txn IN
    /\ ~Known(q) /\ Room(q)
    /\ log' = Append(log, [txn |-> t, key |-> q.key, payload |-> q.payload])
    /\ idem' = IF q.key = None THEN idem
               ELSE [idem EXCEPT ![q.key] = [txn |-> t, rev |-> Len(log) + 1, digest |-> q.payload]]
    /\ Moves(r, "revision", None, Len(log) + 1)
    /\ UNCHANGED graphVars

\* A request past its start names a transaction that has begun.
LEMMA RequestTxn ==
    ASSUME LifecycleInv, NEW r \in Requests, ~At(r, "idle")
    PROVE  /\ request[r].txn \in Txns /\ txn[request[r].txn] # "none"
           /\ request[r].key \in Keys \cup {None}
           /\ request[r].rev \in Nat /\ request[r].rev <= Len(log)
           /\ At(r, "store") => request[r].payload \in Payloads
  <1>1. request[r] \in RequestRecords /\ request[r].key \in Keys \cup {None} /\ request[r].rev \in Nat
    BY Facts DEF RequestRecords
  <1>2. At(r, "store") => request[r].payload \in Payloads
    BY <1>1 DEF RequestRecords, LifecycleInv, TypeOK
  <1> QED
    BY <1>1, <1>2 DEF LifecycleInv, TypeOK, RevisionsReached, RequestInv

\* The outcomes of LockCommit.
LEMMA LockCommitEffect ==
    ASSUME LifecycleInv, NEW r \in Requests, LockCommit(r)
    PROVE  /\ At(r, "lock") /\ request[r].txn \in Txns /\ lock[request[r].txn] = None
           /\ Answered(r) \/ (Returns(r) /\ UNCHANGED graphVars) \/ CommitsNothing(r) \/ Takes(r)
           /\ UNCHANGED <<serviceVars, storeVars, crashes, history>>
  <1> DEFINE t == request[r].txn
  <1>1. At(r, "lock") /\ t \in Txns /\ lock[t] = None
    BY RequestTxn DEF LockCommit, At
  <1>2. final[t] # None => final[t].rev \in Nat /\ final[t].replay \in BOOLEAN
    BY <1>1, Facts DEF Barriers
  <1>3. overlay[t] \in Payloads \cup {None}
    BY <1>1 DEF LifecycleInv, TypeOK, GraphType
  <1>4. RequestType
    BY DEF LifecycleInv, TypeOK
  <1>5. CASE final[t] # None /\ final[t].kind = "committed" /\ UNCHANGED graphVars
             /\ WithResult(r, final[t].rev, final[t].replay)
    BY <1>1, <1>2, <1>4, <1>5, WithResultEffect DEF Answered, LockCommit
  <1>6. CASE Return(r) /\ UNCHANGED graphVars
    BY <1>1, <1>4, <1>6, ReturnEffect DEF LockCommit
  <1>7. CASE /\ MayMutate(t) /\ overlay[t] = None /\ request[r].key = None
             /\ final' = [final EXCEPT ![t] = Committed(0, FALSE)]
             /\ WithResult(r, 0, FALSE)
             /\ UNCHANGED <<overlay, lock>>
    BY <1>1, <1>4, <1>7, WithResultEffect, RaisedEffect DEF CommitsNothing, LockCommit
  <1>8. CASE /\ MayMutate(t) /\ overlay[t] # None
             /\ overlay' = [overlay EXCEPT ![t] = None]
             /\ lock' = [lock EXCEPT ![t] = r]
             /\ request' = [request EXCEPT ![r] = [@ EXCEPT !.pc = "store", !.payload = overlay[t]]]
             /\ UNCHANGED final
    <2>1. Moves(r, "store", overlay[t], request[r].rev)
      BY <1>3, <1>4, <1>8, TakeEffect
    <2> QED
      BY <1>1, <1>8, <2>1 DEF Takes, LockCommit
  <1> QED
    BY <1>5, <1>6, <1>7, <1>8 DEF LockCommit

\* The outcomes of CommitToStore.
LEMMA CommitToStoreEffect ==
    ASSUME LifecycleInv, NEW r \in Requests, CommitToStore(r)
    PROVE  /\ At(r, "store") /\ request[r].txn \in Txns /\ request[r].payload \in Payloads
           /\ Replays(r) \/ Refused(r) \/ Stores(r)
           /\ UNCHANGED <<serviceVars, crashes, history>>
  <1> DEFINE q == request[r]
             t == q.txn
  <1>1. At(r, "store") /\ t \in Txns /\ q.payload \in Payloads /\ q.key \in Keys \cup {None}
    BY RequestTxn DEF CommitToStore, At
  <1>2. Known(q) => q.key \in Keys /\ idem[q.key] # None /\ idem[q.key].rev \in Nat
    BY <1>1, Facts DEF Known, IdemRecords
  <1>3. RequestType /\ Len(log) + 1 \in Nat
    BY Facts DEF LifecycleInv, TypeOK
  <1>4. CASE /\ Known(q) /\ idem[q.key].digest = q.payload
             /\ Finalize(r, idem[q.key].rev, TRUE)
             /\ UNCHANGED <<overlay, storeVars>>
    BY <1>1, <1>2, <1>3, <1>4, WithResultEffect, RaisedEffect DEF Replays, Finalize, Finalizes, CommitToStore
  <1>5. CASE Refuse(r)
    BY <1>1, <1>3, <1>5, ReturnEffect DEF Refused, Refuse, RestoreOverlay, CommitToStore
  <1>6. CASE /\ ~Known(q) /\ Room(q) /\ base[t] <= Len(log)
             /\ log' = Append(log, [txn |-> t, key |-> q.key, payload |-> q.payload])
             /\ idem' = IF q.key = None THEN idem
                        ELSE [idem EXCEPT ![q.key] =
                                [txn |-> t, rev |-> Len(log) + 1, digest |-> q.payload]]
             /\ request' = [request EXCEPT ![r] = [@ EXCEPT !.pc = "revision", !.payload = None,
                                                            !.rev = Len(log) + 1]]
             /\ UNCHANGED graphVars
    <2>1. Moves(r, "revision", None, Len(log) + 1)
      BY <1>3, <1>6, StoredEffect
    <2> QED
      BY <1>1, <1>6, <2>1 DEF Stores, CommitToStore
  <1> QED
    BY <1>4, <1>5, <1>6 DEF CommitToStore

\* ReadRevision reports the revision of the commit or a later one.
LEMMA ReadRevisionEffect ==
    ASSUME LifecycleInv, NEW r \in Requests, ReadRevision(r)
    PROVE  /\ At(r, "revision") /\ request[r].txn \in Txns
           /\ CommittedRevision(request[r]) \in Nat
           /\ Finalizes(r, CommittedRevision(request[r]))
           /\ UNCHANGED <<serviceVars, overlay, storeVars, crashes, history>>
  <1>1. At(r, "revision") /\ request[r].txn \in Txns /\ CommittedRevision(request[r]) \in Nat
    BY RequestTxn, Facts DEF ReadRevision, At, CommittedRevision
  <1> QED
    BY <1>1, WithResultEffect, RaisedEffect DEF ReadRevision, Finalize, Finalizes, LifecycleInv, TypeOK

\* A step of a request changes that request only, and keeps the types of the
\* requests.
LEMMA StepOthers ==
    ASSUME LifecycleInv, NEW r \in Requests, Step(r) \/ Interrupted(r)
    PROVE  RequestType' /\ Others(r)
  <1> USE Facts DEF LifecycleInv, TypeOK
  <1>a. request[r] \in RequestRecords
    BY DEF RequestType
  <1>1. CASE Lookup(r)
    BY <1>1, LookupEffect, LifecycleAssumption DEF Moves
  <1>2. CASE LookupGet(r)
    BY <1>2, GotoEffect, ReturnEffect DEF LookupGet, ReplyCommitted, PCs, Goes, Moves, Returns
  <1>3. CASE LookupCommit(r)
    BY <1>3, GotoEffect, ReturnEffect DEF LookupCommit, ReplyCommitted, PCs, Goes, Moves, Returns
  <1>4. CASE Get(r)
    BY <1>4, GotoEffect, ReturnEffect DEF Get, PCs, Goes, Moves, Returns
  <1>5. CASE LockCommit(r)
    BY <1>5, LockCommitEffect DEF Answered, CommitsNothing, Takes, Moves, Returns
  <1>6. CASE CommitToStore(r)
    BY <1>6, CommitToStoreEffect DEF Replays, Refused, Stores, Finalizes, Moves, Returns
  <1>7. CASE ReadRevision(r)
    BY <1>7, ReadRevisionEffect DEF Finalizes, Moves
  <1>8. CASE FinalizeSession(r)
    BY <1>8, GotoEffect, ReturnEffect DEF FinalizeSession, PCs, Goes, Moves, Returns
  <1>9. CASE Discard(r)
    BY <1>9, GotoEffect, ReturnEffect DEF Discard, PCs, Goes, Moves, Returns
  <1>10. CASE Transition(r)
    BY <1>10, GotoEffect DEF Transition, PCs, Goes, Moves
  <1>11. CASE Acknowledge(r)
    BY <1>11, ReturnEffect DEF Acknowledge, ReplyCommitted, Returns
  <1>12. CASE Interrupted(r)
    BY <1>12, ReturnEffect DEF Interrupted, Returns
  <1> QED
    BY <1>1, <1>2, <1>3, <1>4, <1>5, <1>6, <1>7, <1>8, <1>9, <1>10, <1>11, <1>12 DEF Step

\* A request starts: it is idle before and changes nothing but itself.
Starts(r, t) ==
    /\ At(r, "idle") /\ txn[t] # "none"
    /\ RequestType' /\ Others(r)
    /\ request'[r].op # "none" /\ request'[r].txn = t
    /\ request'[r].pc \in {"get", "lookup"}
    /\ request'[r].pc = "lookup" => request'[r].key # None
    /\ request'[r].payload = None /\ request'[r].rev = 0
    /\ UNCHANGED <<serviceVars, graphVars, storeVars, crashes, history>>

\* Both kinds of request start like that.
LEMMA StartEffect ==
    ASSUME LifecycleInv, NEW r \in Requests, NEW t \in Txns,
           StartRollback(r, t) \/ \E k \in Keys \cup {None} : StartCommit(r, t, k)
    PROVE  Starts(r, t)
  <1>1. ASSUME NEW k \in Keys \cup {None}, StartCommit(r, t, k)
        PROVE  Starts(r, t)
    <2>1. At(r, "idle") /\ txn[t] # "none" /\ UNCHANGED <<serviceVars, graphVars, storeVars, crashes, history>>
      BY <1>1 DEF StartCommit
    <2> QED
      BY <1>1, <2>1, StartCommitEffect DEF Starts, LifecycleInv, TypeOK
  <1>2. CASE StartRollback(r, t)
    <2>1. At(r, "idle") /\ txn[t] # "none" /\ UNCHANGED <<serviceVars, graphVars, storeVars, crashes, history>>
      BY <1>2 DEF StartRollback
    <2> QED
      BY <1>2, <2>1, StartRollbackEffect DEF Starts, LifecycleInv, TypeOK
  <1> QED
    BY <1>1, <1>2

\* The requests keep their type.
LEMMA RequestTypeStep ==
    ASSUME LifecycleInv, Next
    PROVE  RequestType'
  <1> USE DEF LifecycleInv, TypeOK
  <1>1. CASE request' = request
    BY <1>1 DEF RequestType
  <1>2. ASSUME NEW r \in Requests, NEW t \in Txns, NEW k \in Keys \cup {None}, StartCommit(r, t, k)
        PROVE  RequestType'
    BY <1>2, StartCommitEffect
  <1>3. ASSUME NEW r \in Requests, NEW t \in Txns, StartRollback(r, t)
        PROVE  RequestType'
    BY <1>3, StartRollbackEffect
  <1>4. ASSUME NEW r \in Requests, Step(r) \/ Interrupted(r)
        PROVE  RequestType'
    BY <1>4, StepOthers
  <1>5. CASE Crash
    BY SMTT(60), <1>5, NoRequestType DEF Crash, RequestType
  <1> QED
    BY <1>1, <1>2, <1>3, <1>4, <1>5
       DEF Next, OpenSession, CloseSession, ExpireSession, BeginTransaction, StageMutation, PurgeRecord

\* The session service's state keeps its type.
LEMMA ServiceTypeStep ==
    ASSUME LifecycleInv, Next
    PROVE  ServiceType'
  <1> USE LifecycleAssumption, Facts DEF LifecycleInv, TypeOK, ServiceType, SessionStates, TxnStates
  <1>1. CASE UNCHANGED <<serviceVars, crashes>>
    BY <1>1 DEF serviceVars
  <1>2. ASSUME NEW s \in Sessions, OpenSession(s) \/ CloseSession(s) \/ ExpireSession(s)
        PROVE  ServiceType'
    BY <1>2 DEF OpenSession, CloseSession, ExpireSession
  <1>3. ASSUME NEW t \in Txns, NEW s \in Sessions, BeginTransaction(t, s)
        PROVE  ServiceType'
    BY <1>3 DEF BeginTransaction
  <1>4. CASE Crash
    BY <1>4 DEF Crash
  <1>5. ASSUME NEW r \in Requests, LookupCommit(r) \/ FinalizeSession(r) \/ Transition(r)
        PROVE  ServiceType'
    <2>1. request[r].txn \in Txns /\ request[r].rev \in Nat
      BY <1>5, RequestTxn DEF LookupCommit, FinalizeSession, Transition, At
    <2>2. RevisionView(request[r]) \in Nat
      BY <2>1 DEF RevisionView
    <2>3. revision' \in Nat
      BY <1>5, <2>2 DEF LookupCommit, FinalizeSession, Transition
    <2>4. txn' \in [Txns -> TxnStates]
      BY SMTT(60), <1>5, <2>1 DEF LookupCommit, FinalizeSession, Transition, serviceVars
    <2> QED
      BY <1>5, <2>3, <2>4 DEF LookupCommit, FinalizeSession, Transition
  <1> QED
    BY <1>1, <1>2, <1>3, <1>4, <1>5
       DEF Next, Step, StageMutation, StartCommit, StartRollback, Lookup, LookupGet, Get, LockCommit,
           CommitToStore, ReadRevision, Discard, Acknowledge, Interrupted, PurgeRecord

\* The graph service's state keeps its type.
LEMMA GraphTypeStep ==
    ASSUME LifecycleInv, Next
    PROVE  GraphType'
  <1> USE Facts DEF LifecycleInv, TypeOK, GraphType
  <1>1. CASE UNCHANGED graphVars
    BY <1>1 DEF graphVars
  <1>2. ASSUME NEW t \in Txns, NEW p \in Payloads, StageMutation(t, p)
        PROVE  GraphType'
    BY <1>2 DEF StageMutation
  <1>3. ASSUME NEW r \in Requests, LockCommit(r)
        PROVE  GraphType'
    BY <1>3, LockCommitEffect DEF Answered, CommitsNothing, Takes, Raised, graphVars
  <1>4. ASSUME NEW r \in Requests, CommitToStore(r)
        PROVE  GraphType'
    <2>1. Stores(r) \/ Refused(r) => GraphType'
      BY <1>4, CommitToStoreEffect DEF Refused, Stores, graphVars
    <2>2. Replays(r) => GraphType'
      BY <1>4, CommitToStoreEffect DEF Replays, Finalizes, Raised
    <2> QED
      BY <1>4, <2>1, <2>2, CommitToStoreEffect
  <1>5. ASSUME NEW r \in Requests, ReadRevision(r)
        PROVE  GraphType'
    BY <1>5, ReadRevisionEffect DEF Finalizes, Raised
  <1>6. ASSUME NEW r \in Requests, Discard(r) \/ Acknowledge(r)
        PROVE  GraphType'
    <2>1. request[r].txn \in Txns
      BY <1>6, RequestTxn DEF Discard, Acknowledge, At
    <2> QED
      BY ZenonT(60), <1>6, <2>1 DEF Discard, Acknowledge, BarrierAfterAck
  <1>7. CASE Crash
    BY SMTT(60), <1>7 DEF Crash
  <1> QED
    BY <1>1, <1>2, <1>3, <1>4, <1>5, <1>6, <1>7
       DEF Next, Step, OpenSession, CloseSession, ExpireSession, BeginTransaction, StartCommit,
           StartRollback, Lookup, LookupGet, LookupCommit, Get, FinalizeSession, Transition,
           Interrupted, PurgeRecord

\* The store keeps its type, and so do the histories the properties speak of.
LEMMA StoreTypeStep ==
    ASSUME LifecycleInv, Next
    PROVE  StoreType' /\ HistoryType'
  <1> USE Facts DEF LifecycleInv, TypeOK, StoreType, HistoryType
  <1>1. CASE UNCHANGED <<storeVars, intent, purged>>
    BY <1>1 DEF storeVars
  <1>2. ASSUME NEW t \in Txns, NEW p \in Payloads, StageMutation(t, p)
        PROVE  StoreType' /\ HistoryType'
    BY <1>2 DEF StageMutation, storeVars
  <1>3. ASSUME NEW k \in Keys, PurgeRecord(k)
        PROVE  StoreType' /\ HistoryType'
    BY <1>3 DEF PurgeRecord
  <1>4. ASSUME NEW r \in Requests, CommitToStore(r)
        PROVE  StoreType' /\ HistoryType'
    <2>1. CASE Stores(r)
      <3> DEFINE q == request[r]
      <3>1. q.txn \in Txns /\ q.key \in Keys \cup {None} /\ q.payload \in Payloads
        BY <1>4, CommitToStoreEffect, RequestTxn DEF At
      <3>2. [txn |-> q.txn, rev |-> Len(log) + 1, digest |-> q.payload] \in IdemRecords
        BY <3>1 DEF IdemRecords
      <3>3. idem' \in [Keys -> IdemRecords \cup {None}]
        BY <2>1, <3>1, <3>2 DEF Stores
      <3>4. log' \in Seq([txn : Txns, key : Keys \cup {None}, payload : Payloads])
        BY <2>1, <3>1 DEF Stores
      <3> QED
        BY <1>4, <3>3, <3>4, CommitToStoreEffect DEF history
    <2> QED
      BY <1>4, <2>1, <1>1, CommitToStoreEffect DEF Replays, Refused, history
  <1>5. CASE Crash
    BY <1>5 DEF Crash, storeVars, history
  <1> QED
    BY ZenonT(60), <1>1, <1>2, <1>3, <1>4, <1>5
       DEF Next, Step, OpenSession, CloseSession, ExpireSession, BeginTransaction, StartCommit,
           StartRollback, Lookup, LookupGet, LookupCommit, Get, LockCommit, ReadRevision,
           FinalizeSession, Discard, Transition, Acknowledge, Interrupted, history

-----------------------------------------------------------------------------
(* What no step undoes.                                                    *)

\* The log only grows, by one record of the commit in the store.
LEMMA LogGrows ==
    ASSUME LifecycleInv, Next
    PROVE  /\ Len(log') \in Nat /\ Len(log) <= Len(log')
           /\ \A i \in 1 .. Len(log) : log'[i] = log[i]
           /\ log' # log => \E r \in Requests : CommitToStore(r) /\ Stores(r)
  <1>1. CASE log' = log
    BY <1>1, Facts
  <1>2. ASSUME NEW r \in Requests, CommitToStore(r), Stores(r)
        PROVE  /\ Len(log') \in Nat /\ Len(log) <= Len(log')
               /\ \A i \in 1 .. Len(log) : log'[i] = log[i]
    <2>1. log \in Seq([txn : Txns, key : Keys \cup {None}, payload : Payloads])
      BY DEF LifecycleInv, TypeOK, StoreType
    <2>2. [txn |-> request[r].txn, key |-> request[r].key, payload |-> request[r].payload]
              \in [txn : Txns, key : Keys \cup {None}, payload : Payloads]
      BY <1>2, CommitToStoreEffect, RequestTxn DEF At
    <2> QED
      BY <1>2, <2>1, <2>2 DEF Stores
  <1>3. ASSUME NEW r \in Requests, CommitToStore(r), ~Stores(r)
        PROVE  log' = log
    BY SMTT(60), <1>3, CommitToStoreEffect DEF Replays, Refused, storeVars
  <1>4. log' = log \/ \E r \in Requests : CommitToStore(r)
    BY ZenonT(60) DEF Next, Step, OpenSession, CloseSession, ExpireSession, BeginTransaction, StageMutation,
           StartCommit, StartRollback, Lookup, LookupGet, LookupCommit, Get, LockCommit, ReadRevision,
           FinalizeSession, Discard, Transition, Acknowledge, Interrupted, PurgeRecord, Crash, storeVars
  <1> QED
    BY <1>1, <1>2, <1>3, <1>4

\* A transaction that has begun stays begun, and one that is over stays over.
LEMMA TxnForward ==
    ASSUME LifecycleInv, Next, NEW t \in Txns
    PROVE  /\ txn[t] # "none" => txn'[t] # "none"
           /\ Over(t) => Over(t)'
  <1> USE DEF Over, LifecycleInv, TypeOK, ServiceType
  <1>1. CASE txn' = txn
    BY <1>1
  <1>2. ASSUME NEW s \in Sessions, CloseSession(s) \/ ExpireSession(s)
        PROVE  (txn[t] # "none" => txn'[t] # "none") /\ (Over(t) => Over(t)')
    BY <1>2 DEF CloseSession, ExpireSession
  <1>3. ASSUME NEW u \in Txns, NEW s \in Sessions, BeginTransaction(u, s)
        PROVE  (txn[t] # "none" => txn'[t] # "none") /\ (Over(t) => Over(t)')
    BY <1>3 DEF BeginTransaction
  <1>4. ASSUME NEW r \in Requests, LookupCommit(r) \/ FinalizeSession(r) \/ Transition(r)
        PROVE  (txn[t] # "none" => txn'[t] # "none") /\ (Over(t) => Over(t)')
    <2>1. request[r].txn \in Txns
      BY <1>4, RequestTxn DEF LookupCommit, FinalizeSession, Transition, At
    <2> QED
      BY <1>4, <2>1 DEF LookupCommit, FinalizeSession, Transition
  <1>5. CASE Crash
    BY <1>5 DEF Crash
  <1> QED
    BY ZenonT(60), <1>1, <1>2, <1>3, <1>4, <1>5
       DEF Next, Step, OpenSession, StageMutation, StartCommit, StartRollback, Lookup, LookupGet, Get,
           LockCommit, CommitToStore, ReadRevision, Discard, Acknowledge, Interrupted, PurgeRecord,
           serviceVars

\* A closed transaction has begun.
LEMMA ClosedBegun ==
    ASSUME LifecycleInv, NEW t \in Txns, Closed(t)
    PROVE  txn[t] # "none"
  <1>1. CASE lock[t] # None
    <2>1. lock[t] \in Requests /\ request[lock[t]].txn = t /\ ~At(lock[t], "idle")
      BY <1>1 DEF LifecycleInv, TypeOK, GraphType, LockInv, At
    <2> QED
      BY <2>1, RequestTxn
  <1> QED
    BY <1>1 DEF Closed, Over, LifecycleInv, OverlayInv

\* What a closed transaction staged last does not change any more.
LEMMA IntentFixed ==
    ASSUME LifecycleInv, Next, NEW t \in Txns, Closed(t)
    PROVE  intent'[t] = intent[t]
  <1>1. CASE intent' = intent
    BY <1>1
  <1>2. ASSUME NEW u \in Txns, NEW p \in Payloads, StageMutation(u, p)
        PROVE  intent'[t] = intent[t]
    BY <1>2 DEF StageMutation, MayMutate, Closed, Over, LifecycleInv, HistoryType
  <1> QED
    BY ZenonT(60), <1>1, <1>2
       DEF Next, Step, OpenSession, CloseSession, ExpireSession, BeginTransaction, StartCommit,
           StartRollback, Lookup, LookupGet, LookupCommit, Get, LockCommit, CommitToStore, ReadRevision,
           FinalizeSession, Discard, Transition, Acknowledge, Interrupted, PurgeRecord, Crash, history

\* A transaction stays closed: the lock is handed over to the barrier, and the
\* barrier to the session service.
LEMMA ClosedStays ==
    ASSUME LifecycleInv, Next, NEW t \in Txns, Closed(t)
    PROVE  Closed(t)'
  <1> DEFINE Barrier == final[t] # None /\ final[t].kind = "committed"
             Held == lock[t] # None /\ At(lock[t], "revision")
  <1>1. CASE Over(t)
    BY <1>1, TxnForward DEF Closed
  <1>2. CASE Barrier
    <2>1. CASE final'[t] = final[t]
      BY <1>2, <2>1 DEF Closed
    <2>2. ASSUME NEW r \in Requests, LockCommit(r)
          PROVE  Closed(t)'
      BY <1>2, <2>2, LockCommitEffect
         DEF Answered, CommitsNothing, Takes, Raised, graphVars, Closed
    <2>3. ASSUME NEW r \in Requests, CommitToStore(r)
          PROVE  Closed(t)'
      BY <1>2, <2>3, CommitToStoreEffect
         DEF Replays, Refused, Stores, Finalizes, Raised, graphVars, Closed
    <2>4. ASSUME NEW r \in Requests, ReadRevision(r)
          PROVE  Closed(t)'
      BY <1>2, <2>4, ReadRevisionEffect DEF Finalizes, Raised, Closed
    <2>5. ASSUME NEW r \in Requests, Discard(r)
          PROVE  Closed(t)'
      <3>1. request[r].txn \in Txns /\ final \in [Txns -> Barriers \cup {None}]
        BY <2>5, RequestTxn DEF Discard, At, LifecycleInv, TypeOK, GraphType
      <3>2. Discarded.kind = "discarded"
        BY DEF Discarded
      <3>3. final'[t] = final[t]
        BY <1>2, <2>5, <3>1, <3>2 DEF Discard
      <3> QED
        BY <2>1, <3>3
    <2>6. ASSUME NEW r \in Requests, Acknowledge(r)
          PROVE  Closed(t)'
      <3>1. request[r].txn \in Txns
        BY <2>6, RequestTxn DEF Acknowledge, At
      <3>2. final'[t] = final[t] \/ txn[t] \in Terminal
        BY <2>6, <3>1 DEF Acknowledge, BarrierAfterAck, LifecycleInv, TypeOK, GraphType
      <3> QED
        BY <2>1, <3>2, <1>1 DEF Terminal, Over
    <2>7. CASE Crash
      BY <1>2, <2>7, ClosedBegun DEF Crash, Closed, Over
    <2> QED
      BY <2>1, <2>2, <2>3, <2>4, <2>5, <2>6, <2>7
         DEF Next, Step, OpenSession, CloseSession, ExpireSession, BeginTransaction, StageMutation,
             StartCommit, StartRollback, Lookup, LookupGet, LookupCommit, Get, FinalizeSession,
             Transition, Interrupted, PurgeRecord, graphVars
  <1>3. CASE Held
    <2> DEFINE h == lock[t]
    <2>1. h \in Requests /\ request[h].txn = t /\ request[h].pc = "revision"
      BY <1>3 DEF LifecycleInv, TypeOK, GraphType, LockInv, At
    <2>2. CASE lock'[t] = h /\ request'[h] = request[h]
      BY <1>3, <2>2 DEF Closed, At
    <2>3. CASE UNCHANGED <<lock, request>>
      BY <2>2, <2>3
    <2>4. CASE Crash
      BY <1>3, <2>4, ClosedBegun DEF Crash, Closed, Over
    <2>5. ASSUME NEW r \in Requests, ReadRevision(r), r = h
          PROVE  Closed(t)'
      BY <2>1, <2>5, ReadRevisionEffect DEF Finalizes, Raised, Closed
    <2>6. ASSUME NEW r \in Requests, Step(r) \/ Interrupted(r), r # h
          PROVE  Closed(t)'
      <3>1. request'[h] = request[h]
        BY <2>1, <2>6, StepOthers DEF Others
      <3>2. CASE LockCommit(r)
        BY <1>3, <2>2, <3>1, <3>2, LockCommitEffect
           DEF Answered, CommitsNothing, Takes, graphVars, LifecycleInv, TypeOK, GraphType
      <3>3. CASE CommitToStore(r)
        <4>1. request[r].txn # t /\ request[r].txn \in Txns
          BY <2>1, <2>6, <3>3, CommitToStoreEffect DEF LifecycleInv, LockInv, At
        <4> QED
          BY <2>2, <3>1, <3>3, <4>1, CommitToStoreEffect
             DEF Replays, Refused, Stores, Finalizes, graphVars, LifecycleInv, TypeOK, GraphType
      <3>4. CASE ReadRevision(r)
        <4>1. request[r].txn # t /\ request[r].txn \in Txns
          BY <2>1, <2>6, <3>4, ReadRevisionEffect DEF LifecycleInv, LockInv, At
        <4> QED
          BY <2>2, <3>1, <3>4, <4>1, ReadRevisionEffect
             DEF Finalizes, LifecycleInv, TypeOK, GraphType
      <3>5. CASE lock' = lock
        BY SMTT(60), <2>2, <3>1, <3>5
      <3> QED
        BY <2>6, <3>2, <3>3, <3>4, <3>5
           DEF Step, Lookup, LookupGet, LookupCommit, Get, FinalizeSession, Discard, Transition,
               Acknowledge, Interrupted, graphVars
    <2>7. ASSUME NEW r \in Requests, Step(r) \/ Interrupted(r), r = h
          PROVE  ReadRevision(r)
      BY <2>1, <2>7
         DEF Step, Lookup, LookupGet, LookupCommit, Get, LockCommit, CommitToStore, FinalizeSession,
             Discard, Transition, Acknowledge, Interrupted, At
    <2>8. ASSUME NEW r \in Requests, NEW u \in Txns,
                 StartRollback(r, u) \/ \E k \in Keys \cup {None} : StartCommit(r, u, k)
          PROVE  Closed(t)'
      <3>1. r # h /\ Others(r) /\ lock' = lock
        BY <2>1, <2>8, StartEffect DEF Starts, At, graphVars
      <3> QED
        BY <2>1, <2>2, <3>1 DEF Others
    <2> QED
      BY <2>3, <2>4, <2>5, <2>6, <2>7, <2>8
         DEF Next, OpenSession, CloseSession, ExpireSession, BeginTransaction, StageMutation,
             PurgeRecord, graphVars
  <1> QED
    BY <1>1, <1>2, <1>3 DEF Closed

\* Truth in the next state.
TruthNext(t, rev) ==
    IF rev = 0 THEN intent'[t] = None
    ELSE \E i \in 1 .. rev : log'[i].payload = intent'[t] /\ (i = rev \/ log'[i].txn = t)

\* So an answer about a closed transaction stays true.
LEMMA TruthStays ==
    ASSUME LifecycleInv, Next, NEW t \in Txns, Closed(t),
           NEW rev \in 0 .. Len(log), Truth(t, rev)
    PROVE  TruthNext(t, rev)
  <1>1. intent'[t] = intent[t] /\ \A i \in 1 .. rev : log'[i] = log[i]
    BY IntentFixed, LogGrows, Facts
  <1> QED
    BY <1>1 DEF Truth, TruthNext

-----------------------------------------------------------------------------
(* The requests' path.                                                     *)

\* A step that does not return keeps the request's identity, comes to a place
\* past the start, and has a payload exactly in the store.
Advances(r) ==
    /\ request'[r].op = request[r].op
    /\ request'[r].txn = request[r].txn
    /\ request'[r].key = request[r].key
    /\ request'[r].pc \notin {"idle", "lookup"}
    /\ request'[r].pc \in {"discard", "transition"} => request[r].op = "rollback"
    /\ request'[r].pc = "store" <=> request'[r].payload # None
    /\ request'[r].rev <= Len(log')

\* A step of a request ends it or moves it one place on.
LEMMA StepPath ==
    ASSUME LifecycleInv, Next, NEW r \in Requests, Step(r) \/ Interrupted(r)
    PROVE  ~At(r, "idle") /\ (Returns(r) \/ Advances(r))
  <1> USE Facts, LogGrows, GotoEffect, ReturnEffect DEF LifecycleInv, TypeOK
  <1>a. ~At(r, "idle")
    BY DEF Step, Lookup, LookupGet, LookupCommit, Get, LockCommit, CommitToStore, ReadRevision,
           FinalizeSession, Discard, Transition, Acknowledge, Interrupted, At
  <1>b. /\ request[r].txn \in Txns /\ request[r].rev \in Nat /\ request[r].rev <= Len(log)
        /\ At(r, "store") <=> request[r].payload # None
        /\ request[r].pc \in {"discard", "transition"} => request[r].op = "rollback"
    BY <1>a, RequestTxn DEF RequestInv
  <1>1. CASE Lookup(r)
    <2>1. \A k \in Keys : idem[k] # None => idem[k].rev \in Nat /\ idem[k].rev <= Len(log)
      BY DEF RevisionsReached, Records
    <2>2. At(r, "lookup")
      BY <1>1 DEF Lookup
    <2> QED
      BY <1>a, <1>b, <1>1, <2>1, <2>2, LookupEffect, LifecycleAssumption DEF Moves, Advances, At
  <1>2. CASE LookupGet(r)
    BY <1>a, <1>b, <1>2 DEF LookupGet, ReplyCommitted, PCs, Goes, Moves, Advances, At
  <1>3. CASE LookupCommit(r)
    BY <1>a, <1>b, <1>3 DEF LookupCommit, ReplyCommitted, PCs, Goes, Moves, Advances, At
  <1>4. CASE Get(r)
    <2>1. request[r].op \in {"commit", "rollback"}
      BY <1>a DEF RequestInv, RequestRecords
    <2>2. At(r, "get") /\ (Goto(r, "lock") \/ (Goto(r, "discard") /\ request[r].op = "rollback")
                           \/ Goto(r, "ackOnly") \/ Return(r))
      BY <1>4, <2>1 DEF Get
    <2> QED
      BY <1>a, <1>b, <2>2 DEF PCs, Goes, Moves, Advances, At
  <1>5. CASE LockCommit(r)
    <2>1. \A t \in Txns : final[t] # None => final[t].rev \in Nat /\ final[t].rev <= Len(log)
      BY DEF RevisionsReached, Barriers
    <2> QED
      BY <1>a, <1>b, <1>5, <2>1, LockCommitEffect DEF Answered, CommitsNothing, Takes, Moves, Advances, At
  <1>6. CASE CommitToStore(r)
    <2>1. \A k \in Keys : idem[k] # None => idem[k].rev \in Nat /\ idem[k].rev <= Len(log)
      BY DEF RevisionsReached, Records
    <2>2. CASE Replays(r)
      BY <1>a, <1>b, <2>1, <2>2 DEF Replays, Finalizes, Moves, Advances, At
    <2>3. CASE Stores(r)
      <3>1. Len(log') = Len(log) + 1
        BY <2>3 DEF Stores, StoreType
      <3> QED
        BY <1>a, <1>b, <2>3, <3>1 DEF Stores, Moves, Advances, At
    <2> QED
      BY <1>a, <1>6, <2>2, <2>3, CommitToStoreEffect DEF Refused
  <1>7. CASE ReadRevision(r)
    <2>1. CommittedRevision(request[r]) <= Len(log)
      BY <1>b DEF CommittedRevision
    <2> QED
      BY <1>a, <1>b, <1>7, <2>1, ReadRevisionEffect DEF Finalizes, Moves, Advances, At
  <1>8. CASE FinalizeSession(r)
    BY <1>a, <1>b, <1>8 DEF FinalizeSession, PCs, Goes, Moves, Advances, At
  <1>9. CASE Discard(r)
    BY <1>a, <1>b, <1>9 DEF Discard, PCs, Goes, Moves, Advances, At
  <1>10. CASE Transition(r)
    BY <1>a, <1>b, <1>10 DEF Transition, PCs, Goes, Moves, Advances, At
  <1>11. CASE Acknowledge(r)
    BY <1>a, <1>11 DEF Acknowledge, ReplyCommitted
  <1>12. CASE Interrupted(r)
    BY <1>a, <1>12 DEF Interrupted
  <1> QED
    BY SMTT(60), <1>1, <1>2, <1>3, <1>4, <1>5, <1>6, <1>7, <1>8, <1>9, <1>10, <1>11, <1>12 DEF Step

\* Every request's new state is its old one, nothing, that of a start or of an
\* advance.
LEMMA RequestSteps ==
    ASSUME LifecycleInv, Next, NEW q \in Requests
    PROVE  \/ request'[q] = request[q]
           \/ request'[q] = NoRequest
           \/ \E t \in Txns : Starts(q, t)
           \/ (Step(q) \/ Interrupted(q)) /\ Advances(q)
  <1>1. CASE request' = request
    BY <1>1
  <1>2. ASSUME NEW r \in Requests, NEW t \in Txns, NEW k \in Keys \cup {None}, StartCommit(r, t, k)
        PROVE  request'[q] = request[q] \/ Starts(q, t)
    BY <1>2, StartEffect DEF Starts, Others
  <1>3. ASSUME NEW r \in Requests, NEW t \in Txns, StartRollback(r, t)
        PROVE  request'[q] = request[q] \/ Starts(q, t)
    BY <1>3, StartEffect DEF Starts, Others
  <1>4. ASSUME NEW r \in Requests, Step(r) \/ Interrupted(r)
        PROVE  \/ request'[q] = request[q]
               \/ request'[q] = NoRequest
               \/ (Step(q) \/ Interrupted(q)) /\ Advances(q)
    BY <1>4, StepPath, StepOthers DEF Others, Returns
  <1>5. CASE Crash
    BY <1>5 DEF Crash
  <1> QED
    BY <1>1, <1>2, <1>3, <1>4, <1>5
       DEF Next, OpenSession, CloseSession, ExpireSession, BeginTransaction, StageMutation, PurgeRecord

\* Where a request can be is kept.
LEMMA RequestInvStep ==
    ASSUME LifecycleInv, Next
    PROVE  /\ RequestInv'
           /\ \A r \in Requests : (At(r, "store") <=> request[r].payload # None)'
           /\ \A r \in Requests : request'[r].rev <= Len(log')
  <1> SUFFICES ASSUME NEW r \in Requests
               PROVE  /\ request'[r].pc # "idle" =>
                          /\ request'[r].txn \in Txns /\ txn'[request'[r].txn] # "none"
                          /\ request'[r].op # "none"
                          /\ request'[r].pc = "lookup" => request'[r].key # None
                          /\ request'[r].pc \in {"discard", "transition"} => request'[r].op = "rollback"
                      /\ request'[r].pc = "store" <=> request'[r].payload # None
                      /\ request'[r].rev <= Len(log')
    BY DEF RequestInv, At
  <1> USE DEF LifecycleInv, TypeOK, RequestInv, At
  <1>1. CASE request'[r] = request[r]
    <2>a. request[r].rev \in Nat /\ request[r].rev <= Len(log)
      BY Facts DEF RevisionsReached, RequestRecords
    <2>1. request[r].rev <= Len(log')
      BY <2>a, LogGrows, Facts
    <2> QED
      BY <1>1, <2>1, TxnForward
  <1>2. CASE request'[r] = NoRequest
    BY <1>2, LogGrows DEF NoRequest
  <1>3. ASSUME NEW t \in Txns, Starts(r, t)
        PROVE  /\ request'[r].txn \in Txns /\ txn'[request'[r].txn] # "none"
               /\ request'[r].op # "none"
               /\ request'[r].pc = "lookup" => request'[r].key # None
               /\ request'[r].pc \in {"get", "lookup"} /\ request'[r].payload = None
               /\ request'[r].rev <= Len(log')
    BY <1>3, TxnForward, LogGrows DEF Starts
  <1>4. CASE (Step(r) \/ Interrupted(r)) /\ Advances(r)
    <2>1. ~At(r, "idle")
      BY <1>4, StepPath
    <2> QED
      BY <1>4, <2>1, TxnForward DEF Advances
  <1> QED
    BY <1>1, <1>2, <1>3, <1>4, RequestSteps

-----------------------------------------------------------------------------
(* The mutation lock.                                                      *)

\* A request away from the store leaves the lock's state alone.
LEMMA LockFrame ==
    ASSUME LifecycleInv, NEW r \in Requests, Others(r), lock' = lock,
           request[r].pc \notin {"store", "revision"}, request'[r].pc \notin {"store", "revision"},
           \A t \in Txns : lock[t] # None => final'[t] = None
    PROVE  LockInv'
  <1>1. \A t \in Txns : lock[t] # None => lock[t] \in Requests \ {r}
    BY DEF LifecycleInv, TypeOK, GraphType, LockInv
  <1> QED
    BY <1>1 DEF Others, LifecycleInv, LockInv

\* The steps that stay away from the store.
LEMMA AwayFromStore ==
    ASSUME LifecycleInv, NEW r \in Requests,
           \/ Lookup(r) \/ LookupGet(r) \/ LookupCommit(r) \/ Get(r) \/ FinalizeSession(r)
           \/ Discard(r) \/ Transition(r) \/ Acknowledge(r) \/ Interrupted(r)
    PROVE  /\ request[r].pc \notin {"store", "revision"}
           /\ request'[r].pc \notin {"store", "revision"}
           /\ lock' = lock
  <1> USE GotoEffect, ReturnEffect DEF LifecycleInv, TypeOK, Goes, Moves, Returns, NoRequest, PCs, At
  <1>1. CASE Lookup(r)
    BY ZenonT(60), <1>1, LookupEffect, LifecycleAssumption DEF Lookup, graphVars
  <1>2. CASE LookupGet(r) \/ LookupCommit(r)
    BY <1>2 DEF LookupGet, LookupCommit, ReplyCommitted, graphVars
  <1>3. CASE Get(r) \/ FinalizeSession(r)
    BY SMTT(60), <1>3 DEF Get, FinalizeSession, graphVars
  <1>4. CASE Discard(r) \/ Transition(r)
    BY <1>4 DEF Discard, Transition, graphVars
  <1>5. CASE Acknowledge(r)
    BY <1>5 DEF Acknowledge, ReplyCommitted
  <1>6. CASE Interrupted(r)
    BY <1>6 DEF Interrupted, graphVars
  <1> QED
    BY SMTT(60), <1>1, <1>2, <1>3, <1>4, <1>5, <1>6

\* The lock is held by the commit in the store, below no barrier.
LEMMA LockInvStep ==
    ASSUME LifecycleInv, Next
    PROVE  LockInv'
  <1> USE DEF LifecycleInv, TypeOK, GraphType
  <1>a. LockInv /\ lock \in [Txns -> Requests \cup {None}]
    OBVIOUS
  <1>1. CASE UNCHANGED <<lock, final, request>>
    BY <1>1 DEF LockInv
  <1>2. ASSUME NEW r \in Requests, NEW t \in Txns,
               StartRollback(r, t) \/ \E k \in Keys \cup {None} : StartCommit(r, t, k)
        PROVE  LockInv'
    BY <1>2, <1>a, StartEffect, LockFrame DEF Starts, At, graphVars, LockInv
  <1>3. ASSUME NEW r \in Requests,
               \/ Lookup(r) \/ LookupGet(r) \/ LookupCommit(r) \/ Get(r) \/ FinalizeSession(r)
               \/ Discard(r) \/ Transition(r) \/ Acknowledge(r) \/ Interrupted(r)
        PROVE  LockInv'
    <2>1. Others(r)
      BY <1>3, StepOthers DEF Step
    <2>2. CASE UNCHANGED graphVars
      BY <1>3, <2>1, <2>2, AwayFromStore, LockFrame DEF graphVars, LockInv
    <2>3. CASE Discard(r) \/ Acknowledge(r)
      <3>1. request[r].txn \in Txns
        BY <2>3, RequestTxn DEF Discard, Acknowledge, At
      <3>2. \A t \in Txns : lock[t] # None => final'[t] = final[t] \/ final'[t] = None
        BY <2>3, <3>1 DEF Discard, Acknowledge, BarrierAfterAck
      <3> QED
        BY <1>3, <2>1, <3>2, AwayFromStore, LockFrame DEF LockInv
    <2> QED
      BY <1>3, <2>2, <2>3
         DEF Lookup, LookupGet, LookupCommit, Get, FinalizeSession, Transition, Interrupted
  <1>4. ASSUME NEW r \in Requests, LockCommit(r)
        PROVE  LockInv'
    <2> DEFINE u == request[r].txn
    <2>1. request[r].pc = "lock" /\ u \in Txns /\ lock[u] = None /\ Others(r)
      BY <1>4, LockCommitEffect, StepOthers DEF At, Step
    <2>2. CASE Takes(r)
      <3>1. lock'[u] = r /\ final'[u] = None /\ \A t \in Txns \ {u} : lock'[t] = lock[t] /\ final'[t] = final[t]
        BY <2>1, <2>2 DEF Takes, MayMutate
      <3>2. request'[r].pc = "store" /\ request'[r].txn = u
        BY <2>2 DEF Takes, Moves
      <3>3. \A t \in Txns : lock[t] # None => lock[t] \in Requests \ {r}
        BY <2>1 DEF LockInv
      <3>4. \A q \in Requests \ {r} : request[q].pc \in {"store", "revision"} =>
                request[q].txn \in Txns \ {u}
        <4>1. \A q \in Requests : q # None
          BY LifecycleAssumption
        <4> QED
          BY <2>1, <4>1, RequestTxn DEF LockInv, At
      <3> QED
        BY <2>1, <3>1, <3>2, <3>3, <3>4 DEF LockInv, Others
    <2>3. CASE Answered(r) \/ CommitsNothing(r) \/ (Returns(r) /\ UNCHANGED graphVars)
      <3>1. lock' = lock /\ request'[r].pc \notin {"store", "revision"}
        BY <2>3 DEF Answered, CommitsNothing, Moves, Returns, NoRequest, graphVars
      <3>2. \A t \in Txns : lock[t] # None => final'[t] = final[t]
        BY <2>1, <2>3 DEF Answered, CommitsNothing, Raised, graphVars
      <3> QED
        BY <2>1, <3>1, <3>2, LockFrame DEF LockInv
    <2> QED
      BY <1>4, <2>2, <2>3, LockCommitEffect
  <1>5. ASSUME NEW r \in Requests, CommitToStore(r) \/ ReadRevision(r)
        PROVE  LockInv'
    <2> DEFINE u == request[r].txn
    <2>1. /\ u \in Txns /\ lock[u] = r /\ Others(r) /\ request[r].pc \in {"store", "revision"}
      BY <1>5, CommitToStoreEffect, ReadRevisionEffect, StepOthers DEF At, Step, LockInv
    <2>2. CASE Stores(r)
      BY <2>1, <2>2, <1>a DEF Stores, Moves, graphVars, LockInv, Others
    <2>3. CASE /\ lock' = [lock EXCEPT ![u] = None]
               /\ \A t \in Txns \ {u} : final'[t] = final[t]
               /\ request'[r].pc \notin {"store", "revision"}
      <3>1. \A t \in Txns : lock'[t] # None => /\ lock'[t] = lock[t] /\ final'[t] = final[t]
                                              /\ lock[t] \in Requests \ {r}
        BY <2>1, <2>3, <1>a DEF LockInv
      <3>2. \A q \in Requests \ {r} : request[q].pc \in {"store", "revision"} =>
                request[q].txn \in Txns \ {u}
        BY <2>1, RequestTxn DEF LockInv, At
      <3> QED
        BY <2>1, <2>3, <3>1, <3>2 DEF LockInv, Others
    <2>4. CASE Replays(r) \/ Refused(r)
      <3>1. request'[r].pc \notin {"store", "revision"}
        BY <2>4 DEF Replays, Refused, Finalizes, Moves, Returns, NoRequest
      <3> QED
        BY <2>3, <2>4, <3>1 DEF Replays, Refused, Finalizes, Raised
    <2>5. CASE ReadRevision(r)
      <3>1. request'[r].pc \notin {"store", "revision"}
        BY <2>5, ReadRevisionEffect DEF Finalizes, Moves
      <3> QED
        BY <2>3, <2>5, <3>1, ReadRevisionEffect DEF Finalizes, Raised
    <2> QED
      BY <1>5, <2>2, <2>4, <2>5, CommitToStoreEffect
  <1>6. CASE Crash
    BY <1>6 DEF Crash, LockInv, NoRequest
  <1> QED
    BY <1>1, <1>2, <1>3, <1>4, <1>5, <1>6
       DEF Next, Step, OpenSession, CloseSession, ExpireSession, BeginTransaction, StageMutation,
           PurgeRecord, graphVars

-----------------------------------------------------------------------------
(* The overlay, the log and the answers.                                   *)

\* A transaction that may still commit or stage is not closed.
LEMMA OpenUnlogged ==
    ASSUME LifecycleInv, NEW t \in Txns, MayMutate(t), lock[t] = None
    PROVE  ~Closed(t) /\ ~Logged(t) /\ overlay[t] = intent[t]
  <1>1. ~Closed(t)
    BY SMTT(60) DEF MayMutate, Closed, Over
  <1> QED
    BY <1>1 DEF MayMutate, Logged, LifecycleInv, LogInv, OverlayInv

\* The overlay is what was staged last.
LEMMA OverlayInvStep ==
    ASSUME LifecycleInv, Next
    PROVE  OverlayInv'
  <1> USE DEF LifecycleInv, TypeOK, ServiceType, GraphType, HistoryType
  <1>a. OverlayInv
    OBVIOUS
  <1>1. CASE UNCHANGED <<txn, overlay, final, lock, intent>>
    BY <1>1 DEF OverlayInv
  <1>2. ASSUME NEW s \in Sessions, CloseSession(s) \/ ExpireSession(s)
        PROVE  OverlayInv'
    BY <1>2 DEF CloseSession, ExpireSession, OverlayInv, graphVars, history
  <1>3. ASSUME NEW t \in Txns, NEW s \in Sessions, BeginTransaction(t, s)
        PROVE  OverlayInv'
    BY <1>3 DEF BeginTransaction, OverlayInv, graphVars, history
  <1>4. ASSUME NEW t \in Txns, NEW p \in Payloads, StageMutation(t, p)
        PROVE  OverlayInv'
    BY <1>4 DEF StageMutation, MayMutate, OverlayInv, serviceVars
  <1>5. ASSUME NEW r \in Requests, LookupCommit(r) \/ FinalizeSession(r) \/ Transition(r)
        PROVE  OverlayInv'
    <2>1. request[r].txn \in Txns /\ txn[request[r].txn] # "none"
      BY <1>5, RequestTxn DEF LookupCommit, FinalizeSession, Transition, At
    <2> QED
      BY <1>5, <2>1 DEF LookupCommit, FinalizeSession, Transition, OverlayInv, graphVars, history
  <1>6. ASSUME NEW r \in Requests, LockCommit(r)
        PROVE  OverlayInv'
    <2>1. request[r].txn \in Txns /\ txn[request[r].txn] # "none" /\ txn' = txn /\ intent' = intent
      BY <1>6, RequestTxn, LockCommitEffect DEF At, serviceVars, history
    <2>2. CASE Takes(r)
      BY <2>1, <2>2, Facts DEF Takes, OverlayInv
    <2>3. CASE Answered(r) \/ CommitsNothing(r) \/ (Returns(r) /\ UNCHANGED graphVars)
      BY <2>1, <2>3 DEF Answered, CommitsNothing, Raised, graphVars, OverlayInv
    <2> QED
      BY <1>6, <2>2, <2>3, LockCommitEffect
  <1>7. ASSUME NEW r \in Requests, CommitToStore(r) \/ ReadRevision(r)
        PROVE  OverlayInv'
    <2> DEFINE u == request[r].txn
    <2>1. u \in Txns /\ txn[u] # "none" /\ txn' = txn /\ intent' = intent
      BY <1>7, RequestTxn, CommitToStoreEffect, ReadRevisionEffect DEF At, serviceVars, history
    <2>2. CASE Refused(r) /\ CommitToStore(r)
      <3>1. request[r].payload = intent[u]
        BY <2>2, CommitToStoreEffect DEF AnswerInv, RequestAnswers
      <3> QED
        BY <2>1, <2>2, <3>1 DEF Refused, OverlayInv
    <2>3. CASE Replays(r) \/ Stores(r) \/ ReadRevision(r)
      BY <2>1, <2>3, ReadRevisionEffect DEF Replays, Stores, Finalizes, Raised, graphVars, OverlayInv
    <2> QED
      BY <1>7, <2>2, <2>3, CommitToStoreEffect
  <1>8. ASSUME NEW r \in Requests, Discard(r) \/ Acknowledge(r)
        PROVE  OverlayInv'
    <2>1. request[r].txn \in Txns /\ txn[request[r].txn] # "none"
      BY <1>8, RequestTxn DEF Discard, Acknowledge, At
    <2>2. CASE Discard(r)
      <3>1. Discarded # None
        BY Facts, LifecycleAssumption
      <3>2. txn' = txn /\ lock' = lock /\ intent' = intent
        BY <2>2 DEF Discard, serviceVars, history
      <3>3. \/ UNCHANGED <<final, overlay>>
            \/ /\ final' = [final EXCEPT ![request[r].txn] = Discarded]
               /\ overlay' = [overlay EXCEPT ![request[r].txn] = None]
        BY <2>2 DEF Discard
      <3> QED
        BY <2>1, <3>1, <3>2, <3>3 DEF OverlayInv
    <2>3. CASE Acknowledge(r)
      BY <2>1, <2>3 DEF Acknowledge, BarrierAfterAck, Terminal, OverlayInv, serviceVars
    <2> QED
      BY <1>8, <2>2, <2>3
  <1>9. CASE Crash
    BY <1>9 DEF Crash, OverlayInv, history
  <1> QED
    BY <1>1, <1>2, <1>3, <1>4, <1>5, <1>6, <1>7, <1>8, <1>9
       DEF Next, Step, OpenSession, StartCommit, StartRollback, Lookup, LookupGet, Get, Interrupted,
           PurgeRecord, serviceVars, graphVars, history

\* What the log holds is typed.
LEMMA LogRecords ==
    ASSUME LifecycleInv
    PROVE  \A i \in 1 .. Len(log) : log[i] \in [txn : Txns, key : Keys \cup {None}, payload : Payloads]
  <1> DEFINE S == [txn : Txns, key : Keys \cup {None}, payload : Payloads]
  <1>1. log \in Seq(S)
    BY DEF LifecycleInv, TypeOK, StoreType
  <1> HIDE DEF S
  <1>2. \A i \in 1 .. Len(log) : log[i] \in S
    BY <1>1
  <1> QED
    BY <1>2 DEF S

\* The record that the store adds.
LEMMA StoredRecord ==
    ASSUME LifecycleInv, NEW r \in Requests, CommitToStore(r), Stores(r)
    PROVE  /\ Len(log') = Len(log) + 1
           /\ log'[Len(log) + 1].txn = request[r].txn
           /\ log'[Len(log) + 1].key = request[r].key
           /\ log'[Len(log) + 1].payload = request[r].payload
           /\ \A i \in 1 .. Len(log) : log'[i] = log[i]
           /\ request[r].payload = intent[request[r].txn] /\ ~Logged(request[r].txn)
           /\ lock[request[r].txn] = r
  <1> DEFINE new == [txn |-> request[r].txn, key |-> request[r].key, payload |-> request[r].payload]
  <1>1. log \in Seq([txn : Txns, key : Keys \cup {None}, payload : Payloads])
    BY DEF LifecycleInv, TypeOK, StoreType
  <1>2. new \in [txn : Txns, key : Keys \cup {None}, payload : Payloads] /\ At(r, "store")
    BY CommitToStoreEffect, RequestTxn DEF At
  <1>3. log' = Append(log, new)
    BY DEF Stores
  <1>4. Len(log') = Len(log) + 1 /\ log'[Len(log) + 1] = new /\ \A i \in 1 .. Len(log) : log'[i] = log[i]
    BY <1>1, <1>2, <1>3
  <1>5. /\ request[r].payload = intent[request[r].txn] /\ ~Logged(request[r].txn)
        /\ lock[request[r].txn] = r
    BY <1>2 DEF LifecycleInv, AnswerInv, RequestAnswers, LockInv, At
  <1> QED
    BY <1>4, <1>5

\* What is logged is closed and is what was staged last.
LEMMA LogInvStep ==
    ASSUME LifecycleInv, Next
    PROVE  LogInv'
  <1>1. ASSUME NEW i \in 1 .. Len(log)
        PROVE  /\ txn'[log'[i].txn] # "none"
               /\ log'[i].payload = intent'[log'[i].txn]
               /\ \A t \in Txns : t = log'[i].txn => Closed(t)'
    <2>1. log'[i] = log[i] /\ log[i].txn \in Txns
      BY LogGrows, LogRecords
    <2>2. txn[log[i].txn] # "none" /\ Closed(log[i].txn) /\ log[i].payload = intent[log[i].txn]
      BY DEF LifecycleInv, LogInv
    <2> QED
      BY <2>1, <2>2, TxnForward, ClosedStays, IntentFixed
  <1>2. CASE log' = log
    BY <1>1, <1>2, LogRecords DEF LogInv
  <1>3. ASSUME NEW r \in Requests, CommitToStore(r), Stores(r)
        PROVE  LogInv'
    <2> DEFINE n == Len(log) + 1
    <2>1. /\ log'[n].txn = request[r].txn /\ log'[n].payload = intent[request[r].txn]
          /\ lock[request[r].txn] = r /\ Len(log') = n
      BY <1>3, StoredRecord
    <2>2. /\ request[r].txn \in Txns /\ txn[request[r].txn] # "none"
          /\ intent' = intent /\ txn' = txn /\ lock' = lock /\ request'[r].pc = "revision"
      BY <1>3, CommitToStoreEffect, RequestTxn DEF At, history, serviceVars, Stores, graphVars, Moves
    <2>3. \A t \in Txns : t = request[r].txn => Closed(t)'
      BY <2>1, <2>2, LifecycleAssumption DEF Closed, At
    <2>4. \A i \in 1 .. Len(log') : i \in 1 .. Len(log) \/ i = n
      BY <2>1, Facts
    <2>5. \A i \in 1 .. Len(log') : log'[i].txn \in Txns
      BY <2>1, <2>2, <2>4, LogGrows, LogRecords
    <2> QED
      BY <1>1, <2>1, <2>2, <2>3, <2>4, <2>5 DEF LogInv
  <1> QED
    BY <1>2, <1>3, LogGrows

\* A commit that goes on to the session service with a result has closed its
\* transaction, and the result is true.
LEMMA ResultTrue ==
    ASSUME LifecycleInv, Next, NEW r \in Requests,
           LockCommit(r) \/ CommitToStore(r) \/ ReadRevision(r), request'[r].pc = "session",
           NEW t \in Txns, t = request[r].txn
    PROVE  Closed(t)' /\ TruthNext(t, request'[r].rev)
  <1> USE DEF LifecycleInv
  <1>1. CASE LockCommit(r)
    <2>1. CASE Answered(r)
      <3>1. Closed(t) /\ Truth(t, final[t].rev)
        BY <2>1 DEF Answered, Closed, AnswerInv, BarrierAnswers
      <3>2. final[t].rev \in 0 .. Len(log)
        <4>1. final[t] # None /\ final[t] \in Barriers
          BY <2>1, Facts DEF Answered
        <4>2. final[t].rev \in Nat
          BY <4>1 DEF Barriers
        <4> QED
          BY <4>1, <4>2, Facts DEF TypeOK, RevisionsReached
      <3>3. request'[r].rev = final[t].rev
        BY <2>1 DEF Answered, Moves
      <3> QED
        BY <3>1, <3>2, <3>3, ClosedStays, TruthStays
    <2>2. CASE CommitsNothing(r)
      <3>1. intent[t] = None /\ intent' = intent
        BY <1>1, <2>2, LockCommitEffect, OpenUnlogged DEF CommitsNothing, history
      <3> QED
        BY <2>2, <3>1 DEF CommitsNothing, Moves, Raised, Closed, TruthNext
    <2> QED
      BY <1>1, <2>1, <2>2, LockCommitEffect DEF Takes, Moves, Returns, NoRequest
  <1>2. CASE CommitToStore(r)
    <2>1. CASE Replays(r)
      <3> DEFINE k == request[r].key
      <3>1. k \in Keys /\ idem[k] # None /\ idem[k].digest = request[r].payload
        BY <2>1 DEF Replays
      <3>2. log[idem[k].rev].payload = intent[t] /\ idem[k].rev \in 1 .. Len(log)
        BY <1>2, <3>1, CommitToStoreEffect
           DEF KeyInv, Records, AnswerInv, RequestAnswers, TypeOK, RevisionsReached
      <3>3. intent' = intent /\ log' = log /\ request'[r].rev = idem[k].rev
        BY <1>2, <2>1, CommitToStoreEffect DEF Replays, Finalizes, Moves, storeVars, history
      <3>4. Closed(t)'
        BY <2>1 DEF Replays, Finalizes, Raised, Closed
      <3> QED
        BY <3>2, <3>3, <3>4, Facts DEF TruthNext
    <2>2. ~Refused(r)
      BY DEF Refused, Returns, NoRequest
    <2>3. ~Stores(r)
      BY DEF Stores, Moves
    <2> QED
      BY <1>2, <2>1, <2>2, <2>3, CommitToStoreEffect
  <1>3. CASE ReadRevision(r)
    <2> DEFINE n == request[r].rev
    <2>1. n \in 1 .. Len(log) /\ log[n].txn = t
      BY <1>3, ReadRevisionEffect DEF AnswerInv, RequestAnswers, At
    <2>2. log[n].payload = intent[t]
      BY <2>1 DEF LogInv
    <2>3. /\ intent' = intent /\ log' = log
          /\ request'[r].rev = IF request[r].key # None THEN n ELSE Len(log)
      BY <1>3, ReadRevisionEffect DEF Finalizes, Moves, storeVars, history, CommittedRevision
    <2>4. Closed(t)'
      BY SMTT(60), <1>3, ReadRevisionEffect DEF Finalizes, Raised, Closed
    <2> QED
      BY <2>1, <2>2, <2>3, <2>4, Facts DEF TruthNext
  <1> QED
    BY <1>1, <1>2, <1>3

\* The barriers stay true.
LEMMA BarrierAnswersStep ==
    ASSUME LifecycleInv, Next
    PROVE  BarrierAnswers'
  <1> SUFFICES ASSUME NEW t \in Txns, final'[t] # None, final'[t].kind = "committed"
               PROVE  TruthNext(t, final'[t].rev)
    BY DEF BarrierAnswers, Truth, TruthNext
  <1> USE DEF LifecycleInv
  <1>1. CASE final'[t] = final[t]
    <2>1. Closed(t) /\ Truth(t, final[t].rev)
      BY <1>1 DEF Closed, AnswerInv, BarrierAnswers
    <2>2. final[t].rev \in 0 .. Len(log)
      <3>1. final[t] \in Barriers
        BY <1>1, Facts
      <3>2. final[t].rev \in Nat
        BY <3>1 DEF Barriers
      <3> QED
        BY <1>1, <3>2, Facts DEF TypeOK, RevisionsReached
    <2> QED
      BY <1>1, <2>1, <2>2, TruthStays
  <1>2. ASSUME NEW r \in Requests, LockCommit(r)
        PROVE  TruthNext(t, final'[t].rev)
    <2>1. CASE CommitsNothing(r) /\ t = request[r].txn
      <3>1. request'[r].pc = "session" /\ request'[r].rev = final'[t].rev
        BY <2>1 DEF CommitsNothing, Raised, Moves
      <3> QED
        BY <1>2, <2>1, <3>1, ResultTrue
    <2>2. CASE ~(CommitsNothing(r) /\ t = request[r].txn)
      BY <1>1, <1>2, <2>2, LockCommitEffect DEF CommitsNothing, Raised, Answered, Takes, graphVars
    <2> QED
      BY <2>1, <2>2
  <1>3. ASSUME NEW r \in Requests, CommitToStore(r)
        PROVE  TruthNext(t, final'[t].rev)
    <2>1. CASE Replays(r) /\ t = request[r].txn
      <3>1. request'[r].pc = "session" /\ request'[r].rev = final'[t].rev
        BY <2>1 DEF Replays, Finalizes, Raised, Moves
      <3> QED
        BY <1>3, <2>1, <3>1, ResultTrue
    <2>2. CASE ~(Replays(r) /\ t = request[r].txn)
      BY <1>1, <1>3, <2>2, CommitToStoreEffect DEF Replays, Refused, Stores, Finalizes, Raised, graphVars
    <2> QED
      BY <2>1, <2>2
  <1>4. ASSUME NEW r \in Requests, ReadRevision(r)
        PROVE  TruthNext(t, final'[t].rev)
    <2>1. CASE t = request[r].txn
      <3>1. request'[r].pc = "session" /\ request'[r].rev = final'[t].rev
        BY <1>4, <2>1, ReadRevisionEffect DEF Finalizes, Raised, Moves
      <3> QED
        BY <1>4, <2>1, <3>1, ResultTrue
    <2>2. CASE t # request[r].txn
      BY <1>1, <1>4, <2>2, ReadRevisionEffect DEF Finalizes, Raised
    <2> QED
      BY <2>1, <2>2
  <1>5. ASSUME NEW r \in Requests, Discard(r) \/ Acknowledge(r)
        PROVE  TruthNext(t, final'[t].rev)
    <2>1. request[r].txn \in Txns /\ final \in [Txns -> Barriers \cup {None}]
      BY <1>5, RequestTxn DEF Discard, Acknowledge, At, TypeOK, GraphType
    <2>2. Discarded.kind = "discarded"
      BY DEF Discarded
    <2>3. final'[t] = final[t] \/ final'[t] = Discarded \/ final'[t] = None
      BY <1>5, <2>1 DEF Discard, Acknowledge, BarrierAfterAck
    <2> QED
      BY <1>1, <2>2, <2>3
  <1>6. CASE Crash
    BY <1>6 DEF Crash
  <1> QED
    BY <1>1, <1>2, <1>3, <1>4, <1>5, <1>6
       DEF Next, Step, OpenSession, CloseSession, ExpireSession, BeginTransaction, StageMutation,
           StartCommit, StartRollback, Lookup, LookupGet, LookupCommit, Get, FinalizeSession, Transition,
           Interrupted, PurgeRecord, graphVars

\* A request that does not step keeps its answer.
LEMMA AnswerKept ==
    ASSUME LifecycleInv, Next, NEW q \in Requests, request'[q] = request[q]
    PROVE  RequestAnswers(q)'
  <1> DEFINE t == request[q].txn
  <1> USE DEF LifecycleInv, At
  <1>1. RequestAnswers(q) /\ (~At(q, "idle") => t \in Txns)
    BY RequestTxn DEF AnswerInv
  <1>2. CASE At(q, "store")
    <2>1. lock[t] = q /\ t \in Txns /\ lock[t] # None
      BY SMTT(60), <1>1, <1>2, LifecycleAssumption DEF LockInv
    <2>2. intent'[t] = intent[t]
      <3>1. ASSUME NEW u \in Txns, NEW p \in Payloads, StageMutation(u, p)
            PROVE  intent'[t] = intent[t]
        BY <2>1, <3>1 DEF StageMutation, HistoryType
      <3>2. CASE intent' = intent
        BY <3>2
      <3> QED
        BY ZenonT(60), <3>1, <3>2
           DEF Next, Step, OpenSession, CloseSession, ExpireSession, BeginTransaction, StartCommit,
               StartRollback, Lookup, LookupGet, LookupCommit, Get, LockCommit, CommitToStore,
               ReadRevision, FinalizeSession, Discard, Transition, Acknowledge, Interrupted,
               PurgeRecord, Crash, history
    <2>3. \A i \in 1 .. Len(log') : log'[i].txn # t
      <3>1. CASE log' = log
        BY <1>1, <1>2, <3>1 DEF RequestAnswers, Logged
      <3>2. ASSUME NEW r \in Requests, CommitToStore(r), Stores(r)
            PROVE  \A i \in 1 .. Len(log') : log'[i].txn # t
        <4>1. r # q
          BY <1>2, <3>2 DEF Stores, Moves
        <4>2. request[r].txn # t
          BY <2>1, <3>2, <4>1, StoredRecord
        <4>3. \A i \in 1 .. Len(log') : i \in 1 .. Len(log) \/ i = Len(log) + 1
          BY <3>2, StoredRecord, Facts
        <4>4. \A i \in 1 .. Len(log) : log[i].txn # t
          BY <1>1, <1>2 DEF RequestAnswers, Logged
        <4> QED
          BY <3>2, <4>2, <4>3, <4>4, StoredRecord
      <3> QED
        BY <3>1, <3>2, LogGrows
    <2> QED
      BY <1>1, <1>2, <2>2, <2>3 DEF RequestAnswers, Logged
  <1>3. CASE request[q].pc \in {"revision", "replayGet", "replayCommit", "replayAck"}
    <2>1. request[q].rev \in 1 .. Len(log) /\ log[request[q].rev].txn = t
      BY <1>1, <1>3 DEF RequestAnswers
    <2>2. request[q].rev \in 1 .. Len(log') /\ log'[request[q].rev].txn = t
      BY <2>1, LogGrows, Facts
    <2> QED
      BY <1>3, <2>2 DEF RequestAnswers
  <1>4. CASE At(q, "session") \/ (At(q, "ack") /\ request[q].op = "commit")
    <2>1. Closed(t) /\ Truth(t, request[q].rev) /\ t \in Txns
      BY <1>1, <1>4 DEF RequestAnswers
    <2>2. request[q].rev \in 0 .. Len(log)
      BY <1>4, RequestTxn, Facts
    <2>3. TruthNext(t, request[q].rev) /\ \A u \in Txns : u = t => Closed(u)'
      BY <2>1, <2>2, TruthStays, ClosedStays
    <2>4. t = request'[q].txn /\ request[q].rev = request'[q].rev
      OBVIOUS
    <2> QED
      BY <1>4, <2>1, <2>3, <2>4 DEF RequestAnswers, Truth, TruthNext
  <1> QED
    BY <1>2, <1>3, <1>4 DEF RequestAnswers

\* A request that steps has a true answer where it arrives.
LEMMA AnswerAdvances ==
    ASSUME LifecycleInv, Next, NEW q \in Requests, Step(q) \/ Interrupted(q), Advances(q)
    PROVE  RequestAnswers(q)'
  <1> DEFINE t == request[q].txn
  <1> USE DEF LifecycleInv, TypeOK, At
  <1>1. /\ RequestAnswers(q) /\ t \in Txns /\ request'[q].txn = t /\ request'[q].op = request[q].op
        /\ request[q].rev \in Nat /\ request[q].rev <= Len(log)
    BY StepPath, RequestTxn DEF AnswerInv, Advances
  <1>2. CASE request'[q].pc \in {"get", "lock", "ackOnly", "discard", "transition"}
    BY <1>2 DEF RequestAnswers
  <1>3. CASE request'[q].pc = "session" /\ (LockCommit(q) \/ CommitToStore(q) \/ ReadRevision(q))
    <2>1. TruthNext(t, request'[q].rev) /\ \A u \in Txns : u = t => Closed(u)'
      BY <1>1, <1>3, ResultTrue
    <2> QED
      BY <1>1, <1>3, <2>1 DEF RequestAnswers, Truth, TruthNext
  <1>4. CASE request'[q].pc = "ack" /\ request'[q].op = "rollback"
    BY <1>4 DEF RequestAnswers
  <1>5. CASE /\ request'[q].pc \in {"replayCommit", "replayAck"}
             /\ request[q].pc \in {"replayGet", "replayCommit"} /\ request'[q].rev = request[q].rev
    <2>1. request[q].rev \in 1 .. Len(log') /\ log'[request[q].rev].txn = t
      BY <1>1, <1>5, LogGrows, Facts DEF RequestAnswers
    <2> QED
      BY <1>1, <1>5, <2>1 DEF RequestAnswers
  <1>a. NoRequest.pc = "idle"
    BY DEF NoRequest
  <1>b. ~Returns(q)
    BY <1>a DEF Returns, Advances
  <1> USE GotoEffect, ReturnEffect
  <1>6. CASE Lookup(q)
    <2> DEFINE k == request[q].key
    <2>1. CASE request'[q].pc = "get"
      BY <1>2, <2>1
    <2>2. CASE request'[q].pc # "get"
      <3>1. /\ request'[q].pc = "replayGet" /\ request'[q].rev = idem[k].rev
            /\ k \in Keys /\ idem[k] # None /\ idem[k].txn = t
        BY <1>6, <2>2, LookupEffect, LifecycleAssumption DEF Moves
      <3>2. idem[k].rev \in 1 .. Len(log) /\ log[idem[k].rev].txn = t
        BY <3>1 DEF KeyInv, Records, RevisionsReached
      <3>3. idem[k].rev \in 1 .. Len(log') /\ log'[idem[k].rev].txn = t
        BY <3>2, LogGrows, Facts
      <3> QED
        BY <1>1, <3>1, <3>3 DEF RequestAnswers
    <2> QED
      BY <2>1, <2>2
  <1>7. CASE LookupGet(q) \/ LookupCommit(q)
    BY <1>b, <1>5, <1>7 DEF LookupGet, LookupCommit, ReplyCommitted, Goes, Moves, PCs
  <1>8. CASE Get(q)
    BY <1>b, <1>2, <1>8 DEF Get, Goes, Moves, PCs
  <1>9. CASE LockCommit(q)
    <2>1. CASE Takes(q)
      <3>1. request'[q].pc = "store" /\ request'[q].payload = overlay[t]
        BY <2>1 DEF Takes, Moves
      <3>2. overlay[t] = intent[t] /\ ~Logged(t) /\ intent' = intent /\ log' = log
        BY <1>9, <2>1, LockCommitEffect, OpenUnlogged DEF Takes, history, storeVars
      <3> QED
        BY <1>1, <3>1, <3>2 DEF RequestAnswers, Logged
    <2>2. CASE ~Takes(q)
      BY <1>b, <1>3, <1>9, <2>2, LockCommitEffect DEF Answered, CommitsNothing, Moves
    <2> QED
      BY <2>1, <2>2
  <1>10. CASE CommitToStore(q)
    <2>1. CASE Stores(q)
      <3>1. request'[q].pc = "revision" /\ request'[q].rev = Len(log) + 1
        BY <2>1 DEF Stores, Moves
      <3>2. request'[q].rev \in 1 .. Len(log') /\ log'[request'[q].rev].txn = t
        BY <1>10, <2>1, <3>1, StoredRecord, Facts
      <3> QED
        BY <1>1, <3>1, <3>2 DEF RequestAnswers
    <2>2. CASE ~Stores(q)
      BY <1>b, <1>3, <1>10, <2>2, CommitToStoreEffect DEF Replays, Refused, Finalizes, Moves
    <2> QED
      BY <2>1, <2>2
  <1>11. CASE ReadRevision(q)
    BY <1>3, <1>11, ReadRevisionEffect DEF Finalizes, Moves
  <1>12. CASE FinalizeSession(q)
    <2>1. /\ request'[q].pc = "ack" /\ request'[q].rev = request[q].rev /\ At(q, "session")
      BY <1>b, <1>12 DEF FinalizeSession, Goes, Moves, PCs
    <2>2. Closed(t) /\ Truth(t, request[q].rev)
      BY <1>1, <2>1 DEF RequestAnswers
    <2>3. TruthNext(t, request[q].rev) /\ \A u \in Txns : u = t => Closed(u)'
      BY <1>1, <2>2, TruthStays, ClosedStays, Facts
    <2> QED
      BY <1>1, <2>1, <2>3 DEF RequestAnswers, Truth, TruthNext
  <1>13. CASE Discard(q)
    BY <1>b, <1>2, <1>13 DEF Discard, Goes, Moves, PCs
  <1>14. CASE Transition(q)
    BY <1>1, <1>4, <1>14 DEF Transition, Goes, Moves, PCs, RequestInv
  <1>15. CASE Acknowledge(q) \/ Interrupted(q)
    BY <1>b, <1>15 DEF Acknowledge, Interrupted, ReplyCommitted
  <1> QED
    BY <1>6, <1>7, <1>8, <1>9, <1>10, <1>11, <1>12, <1>13, <1>14, <1>15 DEF Step

\* The answers stay true.
LEMMA AnswerInvStep ==
    ASSUME LifecycleInv, Next
    PROVE  AnswerInv'
  <1>1. ASSUME NEW q \in Requests
        PROVE  RequestAnswers(q)'
    <2>1. CASE request'[q] = NoRequest
      BY <2>1 DEF RequestAnswers, At, NoRequest
    <2>2. ASSUME NEW t \in Txns, Starts(q, t)
          PROVE  RequestAnswers(q)'
      BY SMTT(60), <2>2 DEF Starts, RequestAnswers, At
    <2> QED
      BY <2>1, <2>2, RequestSteps, AnswerKept, AnswerAdvances
  <1> QED
    BY <1>1, BarrierAnswersStep DEF AnswerInv

\* A client is told the truth, and it stays the truth.
LEMMA ReplyInvStep ==
    ASSUME LifecycleInv, Next
    PROVE  ReplyInv'
  <1> USE DEF LifecycleInv
  <1>a. ASSUME NEW a, a.txn \in Txns, a.rev \in 0 .. Len(log), Closed(a.txn), Truth(a.txn, a.rev)
        PROVE  /\ a.rev \in 0 .. Len(log') /\ TruthNext(a.txn, a.rev)
               /\ \A u \in Txns : u = a.txn => Closed(u)'
    BY <1>a, TruthStays, ClosedStays, LogGrows, Facts
  <1>b. ASSUME NEW a \in replies
        PROVE  /\ a.txn \in Txns /\ a.rev \in 0 .. Len(log') /\ TruthNext(a.txn, a.rev)
               /\ \A u \in Txns : u = a.txn => Closed(u)'
    BY <1>a, <1>b DEF ReplyInv
  <1>1. CASE replies' = replies
    BY <1>1, <1>b DEF ReplyInv, Truth, TruthNext
  <1>2. ASSUME NEW r \in Requests, ReplyCommitted(r), Step(r),
               \/ request[r].pc \in {"replayGet", "replayCommit", "replayAck"}
               \/ At(r, "ack") /\ request[r].op = "commit"
        PROVE  ReplyInv'
    <2> DEFINE n == [txn |-> request[r].txn, rev |-> request[r].rev]
               t == request[r].txn
               v == request[r].rev
    <2>1. t \in Txns /\ v \in 0 .. Len(log)
      BY <1>2, RequestTxn, Facts DEF At
    <2>2. Closed(t) /\ Truth(t, v)
      <3>1. CASE At(r, "ack")
        BY <1>2, <3>1 DEF AnswerInv, RequestAnswers, At
      <3>2. CASE request[r].pc \in {"replayGet", "replayCommit", "replayAck"}
        <4>1. v \in 1 .. Len(log) /\ log[v].txn = t
          BY <3>2 DEF AnswerInv, RequestAnswers
        <4>2. Closed(t) /\ log[v].payload = intent[t]
          BY <4>1 DEF LogInv
        <4> QED
          BY <4>1, <4>2, Facts DEF Truth
      <3> QED
        BY <1>2, <3>1, <3>2
    <2>3. n.txn = t /\ n.rev = v /\ replies' = replies \cup {n}
      BY <1>2 DEF ReplyCommitted
    <2>4. /\ v \in 0 .. Len(log') /\ TruthNext(t, v)
          /\ \A u \in Txns : u = t => Closed(u)'
      BY <2>1, <2>2, TruthStays, ClosedStays, LogGrows, Facts
    <2>5. ASSUME NEW a \in replies'
          PROVE  /\ a.txn \in Txns /\ a.rev \in 0 .. Len(log') /\ TruthNext(a.txn, a.rev)
                 /\ \A u \in Txns : u = a.txn => Closed(u)'
      BY <1>b, <2>1, <2>3, <2>4
    <2> QED
      BY <2>5 DEF ReplyInv, Truth, TruthNext
  <1>3. ASSUME NEW r \in Requests, LookupGet(r) \/ LookupCommit(r)
        PROVE  ReplyInv'
    BY <1>1, <1>2, <1>3 DEF LookupGet, LookupCommit, Step, At
  <1>4. ASSUME NEW r \in Requests, Acknowledge(r)
        PROVE  ReplyInv'
    BY <1>1, <1>2, <1>4 DEF Acknowledge, Step, At
  <1> QED
    BY ZenonT(60), <1>1, <1>3, <1>4
       DEF Next, Step, OpenSession, CloseSession, ExpireSession, BeginTransaction, StageMutation,
           StartCommit, StartRollback, Lookup, Get, LockCommit, CommitToStore, ReadRevision,
           FinalizeSession, Discard, Transition, Interrupted, PurgeRecord, Crash, history

-----------------------------------------------------------------------------
(* Rollback.                                                               *)

\* A discarded barrier stays until the transaction is no longer active.
LEMMA DiscardStays ==
    ASSUME LifecycleInv, Next, NEW t \in Txns, txn[t] # "none",
           final[t] = Discarded \/ txn[t] # "active"
    PROVE  final'[t] = Discarded \/ txn'[t] # "active"
  <1> USE DEF LifecycleInv, TypeOK, GraphType
  <1>a. Discarded # None /\ Discarded.kind = "discarded"
    BY Facts, LifecycleAssumption DEF Discarded
  <1>1. CASE txn[t] # "active"
    BY <1>1, TxnForward DEF Over
  <1>2. CASE final'[t] = final[t] /\ final[t] = Discarded
    BY <1>2
  <1>3. CASE final[t] = Discarded
    <2>1. lock[t] = None
      BY <1>a, <1>3 DEF LockInv
    <2>2. ASSUME NEW r \in Requests, LockCommit(r)
          PROVE  final'[t] = final[t]
      BY <1>3, <1>a, <2>2, LockCommitEffect
         DEF Answered, CommitsNothing, Takes, MayMutate, Raised, graphVars
    <2>3. ASSUME NEW r \in Requests, CommitToStore(r) \/ ReadRevision(r)
          PROVE  final'[t] = final[t]
      <3>1. request[r].txn # t
        BY <2>1, <2>3, CommitToStoreEffect, ReadRevisionEffect, LifecycleAssumption DEF LockInv, At
      <3> QED
        BY <2>3, <3>1, CommitToStoreEffect, ReadRevisionEffect
           DEF Replays, Refused, Stores, Finalizes, Raised, graphVars
    <2>4. ASSUME NEW r \in Requests, Discard(r)
          PROVE  final'[t] = Discarded
      BY <1>3, <2>4, RequestTxn DEF Discard, At
    <2>5. ASSUME NEW r \in Requests, Acknowledge(r)
          PROVE  final'[t] = Discarded \/ txn'[t] # "active"
      BY <1>3, <2>5, RequestTxn DEF Acknowledge, BarrierAfterAck, Terminal, At, serviceVars
    <2>6. CASE Crash
      BY <2>6 DEF Crash
    <2> QED
      BY <1>2, <1>3, <2>2, <2>3, <2>4, <2>5, <2>6
         DEF Next, Step, OpenSession, CloseSession, ExpireSession, BeginTransaction, StageMutation,
             StartCommit, StartRollback, Lookup, LookupGet, LookupCommit, Get, FinalizeSession,
             Transition, Interrupted, PurgeRecord, graphVars
  <1> QED
    BY <1>1, <1>3

\* A transaction that is over without having been committed stays so.
LEMMA UndoneStays ==
    ASSUME LifecycleInv, Next, NEW t \in Txns, Over(t), lock[t] = None, ~Logged(t)
    PROVE  Over(t)' /\ lock'[t] = None /\ ~Logged(t)'
  <1> USE DEF LifecycleInv, TypeOK, GraphType
  <1>1. Over(t)'
    BY SMTT(60), TxnForward
  <1>2. lock'[t] = None
    <2>1. CASE lock' = lock
      BY <2>1
    <2>2. ASSUME NEW r \in Requests, LockCommit(r)
          PROVE  lock'[t] = None
      BY <2>2, LockCommitEffect DEF Answered, CommitsNothing, Takes, MayMutate, Over, graphVars
    <2>3. ASSUME NEW r \in Requests, CommitToStore(r) \/ ReadRevision(r)
          PROVE  lock'[t] = None
      BY <2>3, CommitToStoreEffect, ReadRevisionEffect
         DEF Replays, Refused, Stores, Finalizes, graphVars
    <2>4. CASE Crash
      BY <2>4 DEF Crash
    <2> QED
      BY <2>1, <2>2, <2>3, <2>4
         DEF Next, Step, OpenSession, CloseSession, ExpireSession, BeginTransaction, StageMutation,
             StartCommit, StartRollback, Lookup, LookupGet, LookupCommit, Get, FinalizeSession, Discard,
             Transition, Acknowledge, Interrupted, PurgeRecord, graphVars
  <1>3. \A i \in 1 .. Len(log') : log'[i].txn # t
    <2>1. CASE log' = log
      BY <2>1 DEF Logged
    <2>2. ASSUME NEW r \in Requests, CommitToStore(r), Stores(r)
          PROVE  \A i \in 1 .. Len(log') : log'[i].txn # t
      <3>1. request[r].txn # t
        BY <2>2, StoredRecord, LifecycleAssumption
      <3>2. \A i \in 1 .. Len(log') : i \in 1 .. Len(log) \/ i = Len(log) + 1
        BY SMTT(60), <2>2, StoredRecord, Facts
      <3> QED
        BY <2>2, <3>1, <3>2, StoredRecord DEF Logged
    <2> QED
      BY <2>1, <2>2, LogGrows
  <1> QED
    BY <1>1, <1>2, <1>3 DEF Logged

\* A rollback under way has put the barrier up, and one that has won is final.
LEMMA RollbackInvStep ==
    ASSUME LifecycleInv, Next
    PROVE  RollbackInv'
  <1> USE DEF LifecycleInv, TypeOK
  <1>1. ASSUME NEW q \in Requests, request'[q].pc = "transition"
        PROVE  final'[request'[q].txn] = Discarded \/ txn'[request'[q].txn] # "active"
    <2>1. CASE request'[q] = request[q]
      <3>1. request[q].txn \in Txns /\ txn[request[q].txn] # "none"
        BY <1>1, <2>1, RequestTxn DEF At
      <3>2. final[request[q].txn] = Discarded \/ txn[request[q].txn] # "active"
        BY <1>1, <2>1 DEF RollbackInv, At
      <3> QED
        BY <2>1, <3>1, <3>2, DiscardStays
    <2>2. CASE (Step(q) \/ Interrupted(q)) /\ Advances(q)
      <3>a. NoRequest.pc = "idle"
        BY DEF NoRequest
      <3>b. ~Returns(q)
        BY <1>1, <3>a DEF Returns
      <3>1. Discard(q)
        <4> USE GotoEffect, ReturnEffect, <1>1, <3>b
        <4>1. ~Lookup(q)
          BY LookupEffect, LifecycleAssumption DEF Moves
        <4>2. ~LookupGet(q) /\ ~LookupCommit(q)
          BY DEF LookupGet, LookupCommit, ReplyCommitted, Goes, Moves, PCs
        <4>3. ~Get(q) /\ ~FinalizeSession(q) /\ ~Transition(q)
          BY DEF Get, FinalizeSession, Transition, Goes, Moves, PCs
        <4>4. ~LockCommit(q)
          BY LockCommitEffect DEF Answered, CommitsNothing, Takes, Moves
        <4>5. ~CommitToStore(q) /\ ~ReadRevision(q)
          BY CommitToStoreEffect, ReadRevisionEffect DEF Replays, Refused, Stores, Finalizes, Moves
        <4>6. ~Acknowledge(q) /\ ~Interrupted(q)
          BY DEF Acknowledge, Interrupted, ReplyCommitted
        <4> QED
          BY <2>2, <4>1, <4>2, <4>3, <4>4, <4>5, <4>6 DEF Step
      <3>2. request[q].txn \in Txns /\ request'[q].txn = request[q].txn
        BY <2>2, <3>1, RequestTxn DEF Discard, At, Advances
      <3>3. final' = [final EXCEPT ![request[q].txn] = Discarded]
        BY <3>1, <3>b, ReturnEffect DEF Discard
      <3> QED
        BY <3>2, <3>3 DEF GraphType
    <2> QED
      BY <1>1, <2>1, <2>2, RequestSteps DEF NoRequest, Starts
  <1>2. ASSUME NEW t \in undone
        PROVE  t \in Txns /\ Over(t)' /\ lock'[t] = None /\ ~Logged(t)'
    BY UndoneStays DEF RollbackInv
  <1>3. CASE undone' = undone
    BY <1>1, <1>2, <1>3 DEF RollbackInv, At
  <1>4. ASSUME NEW r \in Requests, Transition(r), txn[request[r].txn] = "active"
        PROVE  RollbackInv'
    <2> DEFINE t == request[r].txn
    <2>1. t \in Txns /\ final[t] = Discarded
      BY <1>4, RequestTxn DEF Transition, At, RollbackInv
    <2>2. Discarded # None /\ Discarded.kind = "discarded"
      BY Facts, LifecycleAssumption DEF Discarded
    <2>3. lock[t] = None
      BY <2>1, <2>2 DEF LockInv
    <2>4. ~Closed(t)
      BY <1>4, <2>1, <2>2, <2>3 DEF Closed, Over
    <2>5. ~Logged(t)
      BY <2>4 DEF Logged, LogInv
    <2>6. log' = log /\ lock' = lock /\ undone' = undone \cup {t}
      BY <1>4 DEF Transition, storeVars, graphVars
    <2>7. \A u \in undone' : u \in Txns /\ (txn'[u] \notin {"none", "active"}) /\ lock'[u] = None
                             /\ \A i \in 1 .. Len(log') : log'[i].txn # u
      <3>1. txn'[t] \notin {"none", "active"}
        BY <1>4, <2>1 DEF Transition, ServiceType
      <3> QED
        BY <1>2, <2>1, <2>3, <2>5, <2>6, <3>1 DEF Over, Logged
    <2> QED
      BY <1>1, <2>7 DEF RollbackInv, At, Over, Logged
  <1>5. ASSUME NEW r \in Requests, Transition(r), txn[request[r].txn] # "active"
        PROVE  undone' = undone
    BY <1>5 DEF Transition
  <1> QED
    BY ZenonT(60), <1>3, <1>4, <1>5
       DEF Next, Step, OpenSession, CloseSession, ExpireSession, BeginTransaction, StageMutation,
           StartCommit, StartRollback, Lookup, LookupGet, LookupCommit, Get, LockCommit, CommitToStore,
           ReadRevision, FinalizeSession, Discard, Acknowledge, Interrupted, PurgeRecord, Crash, history

-----------------------------------------------------------------------------
(* The store's records, its keys and the revisions.                        *)

\* No barrier, request, record or view is ahead of the store.
LEMMA RevisionsStep ==
    ASSUME LifecycleInv, Next
    PROVE  RevisionsReached'
  <1> USE DEF LifecycleInv, TypeOK
  <1>1. revision' <= Len(log')
    <2>a. revision \in Nat /\ revision <= Len(log)
      BY DEF ServiceType, RevisionsReached
    <2>1. CASE revision' = revision \/ revision' = 0
      BY <2>a, <2>1, LogGrows, Facts
    <2>2. ASSUME NEW r \in Requests, FinalizeSession(r)
          PROVE  revision' \in {revision, request[r].rev}
      BY <2>2 DEF FinalizeSession, RevisionView
    <2>3. ASSUME NEW r \in Requests, FinalizeSession(r)
          PROVE  revision' <= Len(log')
      BY <2>a, <2>2, <2>3, RequestTxn, LogGrows, Facts DEF FinalizeSession, At
    <2> QED
      BY ZenonT(60), <2>1, <2>3
         DEF Next, Step, OpenSession, CloseSession, ExpireSession, BeginTransaction, StageMutation,
             StartCommit, StartRollback, Lookup, LookupGet, LookupCommit, Get, LockCommit, CommitToStore,
             ReadRevision, Discard, Transition, Acknowledge, Interrupted, PurgeRecord, Crash, serviceVars
  <1>2. ASSUME NEW t \in Txns, final'[t] # None
        PROVE  final'[t].rev <= Len(log')
    <2>1. CASE final'[t] = final[t]
      <3>1. final[t] \in Barriers /\ final[t].rev <= Len(log)
        BY <1>2, <2>1, Facts DEF RevisionsReached
      <3>2. final[t].rev \in Nat
        BY <3>1 DEF Barriers
      <3> QED
        BY <2>1, <3>1, <3>2, LogGrows, Facts
    <2>2. CASE final'[t] = Discarded
      BY <2>2, LogGrows DEF Discarded
    <2>3. ASSUME NEW r \in Requests, final'[t].rev = request'[r].rev
          PROVE  final'[t].rev <= Len(log')
      BY <2>3, RequestInvStep
    <2>4. ASSUME NEW r \in Requests, LockCommit(r)
          PROVE  final'[t].rev <= Len(log')
      BY <2>1, <2>3, <2>4, LockCommitEffect
         DEF Answered, CommitsNothing, Takes, Raised, Moves, graphVars
    <2>5. ASSUME NEW r \in Requests, CommitToStore(r) \/ ReadRevision(r)
          PROVE  final'[t].rev <= Len(log')
      BY ZenonT(60), <2>1, <2>3, <2>5, CommitToStoreEffect, ReadRevisionEffect
         DEF Replays, Refused, Stores, Finalizes, Raised, Moves, graphVars
    <2>6. ASSUME NEW r \in Requests, Discard(r) \/ Acknowledge(r)
          PROVE  final'[t].rev <= Len(log')
      <3>1. request[r].txn \in Txns
        BY <2>6, RequestTxn DEF Discard, Acknowledge, At
      <3>2. final'[t] = final[t] \/ final'[t] = Discarded
        BY <1>2, <2>6, <3>1 DEF Discard, Acknowledge, BarrierAfterAck, GraphType
      <3> QED
        BY <2>1, <2>2, <3>2
    <2>7. ~Crash
      BY SMTT(60), <1>2 DEF Crash
    <2> QED
      BY <2>1, <2>4, <2>5, <2>6, <2>7
         DEF Next, Step, OpenSession, CloseSession, ExpireSession, BeginTransaction, StageMutation,
             StartCommit, StartRollback, Lookup, LookupGet, LookupCommit, Get, FinalizeSession,
             Transition, Interrupted, PurgeRecord, graphVars
  <1>3. ASSUME NEW k \in Keys, idem'[k] # None
        PROVE  idem'[k].rev \in 1 .. Len(log')
    <2>1. CASE idem'[k] = idem[k]
      <3>1. idem[k].rev \in 1 .. Len(log)
        BY <1>3, <2>1 DEF RevisionsReached, Records
      <3> QED
        BY <2>1, <3>1, LogGrows, Facts
    <2>2. ASSUME NEW r \in Requests, CommitToStore(r)
          PROVE  idem'[k].rev \in 1 .. Len(log')
      <3>1. CASE Stores(r)
        <4>1. idem'[k] = idem[k] \/ idem'[k].rev = Len(log) + 1
          BY <3>1 DEF Stores, StoreType
        <4> QED
          BY <2>1, <2>2, <3>1, <4>1, StoredRecord, Facts
      <3> QED
        BY <2>1, <2>2, <3>1, CommitToStoreEffect DEF Replays, Refused, storeVars
    <2>3. ASSUME NEW j \in Keys, PurgeRecord(j)
          PROVE  idem'[k] = idem[k]
      BY <1>3, <2>3 DEF PurgeRecord, StoreType
    <2> QED
      BY ZenonT(60), <2>1, <2>2, <2>3
         DEF Next, Step, OpenSession, CloseSession, ExpireSession, BeginTransaction, StageMutation,
             StartCommit, StartRollback, Lookup, LookupGet, LookupCommit, Get, LockCommit, ReadRevision,
             FinalizeSession, Discard, Transition, Acknowledge, Interrupted, Crash, storeVars
  <1> QED
    BY SMTT(60), <1>1, <1>2, <1>3, RequestInvStep DEF RevisionsReached, Records

\* No transaction is committed twice.
LEMMA CommitOnceStep ==
    ASSUME LifecycleInv, Next
    PROVE  CommitOnce'
  <1> USE DEF LifecycleInv
  <1>1. CASE log' = log
    BY <1>1 DEF CommitOnce
  <1>2. ASSUME NEW r \in Requests, CommitToStore(r), Stores(r)
        PROVE  CommitOnce'
    <2> DEFINE n == Len(log) + 1
    <2>1. \A i \in 1 .. Len(log') : (i \in 1 .. Len(log) /\ log'[i] = log[i] /\ log[i].txn # log'[n].txn) \/ i = n
      BY <1>2, StoredRecord, Facts DEF Logged
    <2> QED
      BY <2>1 DEF CommitOnce
  <1> QED
    BY <1>1, <1>2, LogGrows

\* A base is the store's revision when the transaction begins.
LEMMA BaseNotAheadStep ==
    ASSUME LifecycleInv, Next
    PROVE  BaseNotAhead'
  <1> USE DEF LifecycleInv, TypeOK, ServiceType, BaseNotAhead
  <1>a. Len(log) \in Nat /\ Len(log') \in Nat /\ Len(log) <= Len(log') /\ revision <= Len(log)
    BY Facts, LogGrows DEF RevisionsReached
  <1>1. ASSUME NEW t \in Txns, NEW s \in Sessions, BeginTransaction(t, s)
        PROVE  BaseNotAhead'
    BY <1>a, <1>1 DEF BeginTransaction, storeVars
  <1>2. CASE Crash
    BY <1>2 DEF Crash
  <1>3. CASE base' = base /\ \A t \in Txns : txn'[t] = "active" => txn[t] = "active"
    BY <1>a, <1>3
  <1>4. ASSUME NEW s \in Sessions, CloseSession(s) \/ ExpireSession(s)
        PROVE  BaseNotAhead'
    BY <1>3, <1>4 DEF CloseSession, ExpireSession
  <1>5. ASSUME NEW r \in Requests, LookupCommit(r) \/ FinalizeSession(r) \/ Transition(r)
        PROVE  BaseNotAhead'
    <2>1. request[r].txn \in Txns
      BY <1>5, RequestTxn DEF LookupCommit, FinalizeSession, Transition, At
    <2> QED
      BY <1>3, <1>5, <2>1 DEF LookupCommit, FinalizeSession, Transition
  <1>6. CASE UNCHANGED <<base, txn>>
    BY SMTT(60), <1>3, <1>6
  <1> QED
    BY ZenonT(60), <1>1, <1>2, <1>4, <1>5, <1>6
       DEF Next, Step, OpenSession, StageMutation, StartCommit, StartRollback, Lookup, LookupGet, Get,
           LockCommit, CommitToStore, ReadRevision, Discard, Acknowledge, Interrupted, PurgeRecord,
           serviceVars

\* The records are those of the log, and there are no more than allowed.
LEMMA KeyInvStep ==
    ASSUME LifecycleInv, Next
    PROVE  KeyInv' /\ RecordsBounded'
  <1> USE DEF LifecycleInv, TypeOK, StoreType
  <1>a. \A k \in Records : idem[k].rev \in 1 .. Len(log)
    BY DEF RevisionsReached
  <1>b. IsFiniteSet(Records) /\ Cardinality(Records) \in Nat /\ Cardinality(Records) <= MaxRecords
    BY FS_CardinalityType DEF KeyInv, RecordsBounded
  <1>1. CASE UNCHANGED <<log, idem, purged>>
    BY <1>1 DEF KeyInv, RecordsBounded, Records
  <1>2. ASSUME NEW k \in Keys, PurgeRecord(k)
        PROVE  KeyInv' /\ RecordsBounded'
    <2>1. log' = log /\ purged' = purged \cup {k} /\ idem'[k] = None
          /\ \A j \in Keys \ {k} : idem'[j] = idem[j]
      BY <1>2 DEF PurgeRecord
    <2>2. Records' = Records \ {k}
      BY <2>1 DEF Records
    <2>3. IsFiniteSet(Records') /\ Cardinality(Records') <= MaxRecords
      <3>1. IsFiniteSet(Records \ {k}) /\ Cardinality(Records \ {k}) \in {Cardinality(Records), Cardinality(Records) - 1}
        BY <1>b, FS_RemoveElement
      <3> QED
        BY <1>b, <2>2, <3>1, LifecycleAssumption
    <2>4. \A i \in 1 .. Len(log) : log[i].key # None => log[i].key \in Keys
      BY LogRecords
    <2> QED
      BY <1>a, <2>1, <2>2, <2>3, <2>4 DEF KeyInv, RecordsBounded, Records
  <1>3. ASSUME NEW r \in Requests, CommitToStore(r), Stores(r)
        PROVE  KeyInv' /\ RecordsBounded'
    <2> DEFINE n == Len(log) + 1
               k == request[r].key
    <2>1. /\ Len(log') = n /\ log'[n].txn = request[r].txn /\ log'[n].key = k
          /\ log'[n].payload = request[r].payload /\ \A i \in 1 .. Len(log) : log'[i] = log[i]
      BY <1>3, StoredRecord
    <2>2. purged' = purged
      BY <1>3, CommitToStoreEffect DEF history
    <2>3. \A i \in 1 .. Len(log') : i \in 1 .. Len(log) \/ i = n
      BY <2>1, Facts
    <2>4. n \in 1 .. Len(log') /\ n \notin 1 .. Len(log)
      BY <2>1, Facts
    <2>5. \A i \in 1 .. Len(log) : log[i].key # None => log[i].key \in Keys
      BY LogRecords
    <2>6. CASE k = None
      <3>1. idem' = idem /\ Records' = Records
        BY <1>3, <2>6 DEF Stores, Records
      <3> QED
        BY <1>a, <1>b, <2>1, <2>2, <2>3, <2>6, <3>1 DEF KeyInv, RecordsBounded
    <2>7. CASE k # None
      <3>1. k \in Keys /\ idem[k] = None /\ Cardinality(Records) < MaxRecords
        BY <1>3, <2>7, CommitToStoreEffect, RequestTxn DEF Stores, Known, Room, At
      <3>2. /\ idem'[k].txn = request[r].txn /\ idem'[k].rev = n /\ idem'[k].digest = request[r].payload
            /\ \A j \in Keys \ {k} : idem'[j] = idem[j]
        BY <1>3, <2>7, <3>1 DEF Stores
      <3>3. idem'[k] # None
        <4>1. [txn |-> request[r].txn, rev |-> n, digest |-> request[r].payload] \in IdemRecords
          BY <1>3, CommitToStoreEffect, Facts DEF IdemRecords
        <4> QED
          BY <1>3, <2>7, <3>1, <4>1, LifecycleAssumption DEF Stores
      <3>4. Records' = Records \cup {k} /\ k \notin Records
        BY <3>1, <3>2, <3>3 DEF Records
      <3>5. IsFiniteSet(Records') /\ Cardinality(Records') <= MaxRecords
        <4>1. IsFiniteSet(Records \cup {k}) /\ Cardinality(Records \cup {k}) = Cardinality(Records) + 1
          BY <1>b, <3>4, FS_AddElement
        <4> QED
          BY <1>b, <3>1, <3>4, <4>1, LifecycleAssumption
      <3>6. \A j \in Records' : /\ log'[idem'[j].rev].txn = idem'[j].txn
                                /\ log'[idem'[j].rev].payload = idem'[j].digest
                                /\ log'[idem'[j].rev].key = j
        <4>1. ASSUME NEW j \in Records
              PROVE  /\ idem'[j] = idem[j] /\ log'[idem[j].rev] = log[idem[j].rev]
          BY <1>a, <2>1, <3>2, <3>4 DEF Records
        <4> QED
          BY <2>1, <3>2, <3>4, <4>1 DEF KeyInv
      <3>7. \A i \in 1 .. Len(log') : log'[i].key # None /\ log'[i].key \notin purged =>
                idem'[log'[i].key] # None /\ idem'[log'[i].key].rev = i
        <4>1. ASSUME NEW i \in 1 .. Len(log), log[i].key # None, log[i].key \notin purged
              PROVE  log[i].key \in Keys \ {k} /\ idem[log[i].key] # None /\ idem[log[i].key].rev = i
          BY <2>5, <3>1, <4>1 DEF KeyInv
        <4> QED
          BY <2>1, <2>3, <3>2, <3>3, <4>1
      <3> QED
        BY <2>2, <3>5, <3>6, <3>7 DEF KeyInv, RecordsBounded
    <2> QED
      BY <2>6, <2>7
  <1>4. ASSUME NEW r \in Requests, CommitToStore(r), ~Stores(r)
        PROVE  UNCHANGED <<log, idem, purged>>
    BY <1>4, CommitToStoreEffect DEF Replays, Refused, storeVars, history
  <1> QED
    BY ZenonT(60), <1>1, <1>2, <1>3, <1>4
       DEF Next, Step, OpenSession, CloseSession, ExpireSession, BeginTransaction, StageMutation,
           StartCommit, StartRollback, Lookup, LookupGet, LookupCommit, Get, LockCommit, ReadRevision,
           FinalizeSession, Discard, Transition, Acknowledge, Interrupted, Crash, storeVars, history

-----------------------------------------------------------------------------
(* The theorems.                                                           *)

\* The inductive invariant holds initially.
LEMMA LifecycleInit ==
    ASSUME Init
    PROVE  LifecycleInv
  <1> USE LifecycleAssumption DEF Init
  <1>1. ServiceType /\ GraphType /\ StoreType /\ HistoryType
    BY DEF ServiceType, GraphType, StoreType, HistoryType, SessionStates, TxnStates
  <1>2. RequestType
    BY NoRequestType DEF RequestType
  <1>3. \A r \in Requests : request[r].pc = "idle" /\ request[r].payload = None /\ request[r].rev = 0
    BY DEF NoRequest
  <1>4. Len(log) = 0 /\ 1 .. Len(log) = {}
    OBVIOUS
  <1>5. Records = {}
    BY DEF Records
  <1>6. IsFiniteSet(Records) /\ Cardinality(Records) <= MaxRecords
    BY <1>5, FS_EmptySet
  <1>7. RevisionsReached
    BY <1>3, <1>4, <1>5 DEF RevisionsReached
  <1>8. RequestInv /\ LockInv /\ OverlayInv
    BY <1>3 DEF RequestInv, LockInv, OverlayInv, At
  <1>9. LogInv /\ CommitOnce /\ ReplyInv
    BY <1>4 DEF LogInv, CommitOnce, ReplyInv
  <1>10. AnswerInv
    BY <1>3 DEF AnswerInv, BarrierAnswers, RequestAnswers, At
  <1>11. RollbackInv
    BY <1>3 DEF RollbackInv, At
  <1>12. KeyInv /\ RecordsBounded /\ BaseNotAhead
    BY <1>4, <1>5, <1>6 DEF KeyInv, RecordsBounded, BaseNotAhead
  <1> QED
    BY <1>1, <1>2, <1>3, <1>7, <1>8, <1>9, <1>10, <1>11, <1>12 DEF LifecycleInv, TypeOK, At

\* A step that changes nothing keeps it.
LEMMA LifecycleStutter ==
    ASSUME LifecycleInv, UNCHANGED vars
    PROVE  LifecycleInv'
  <1> USE DEF vars, serviceVars, graphVars, storeVars, history
  <1>1. TypeOK' /\ HistoryType' /\ BaseNotAhead' /\ RecordsBounded' /\ CommitOnce'
    BY DEF LifecycleInv, TypeOK, ServiceType, GraphType, StoreType, RequestType, RevisionsReached, Records,
           At, HistoryType, BaseNotAhead, RecordsBounded, CommitOnce
  <1>2. RequestInv' /\ LockInv' /\ OverlayInv'
    BY DEF LifecycleInv, RequestInv, LockInv, OverlayInv, At
  <1>3. LogInv' /\ AnswerInv' /\ ReplyInv'
    BY DEF LifecycleInv, LogInv, AnswerInv, BarrierAnswers, RequestAnswers, ReplyInv, Closed, Over, Truth,
           Logged, At
  <1>4. RollbackInv' /\ KeyInv'
    BY DEF LifecycleInv, RollbackInv, KeyInv, Records, Over, Logged, At
  <1> QED
    BY <1>1, <1>2, <1>3, <1>4 DEF LifecycleInv

\* Every step keeps it.
LEMMA LifecycleStep ==
    ASSUME LifecycleInv, Next
    PROVE  LifecycleInv'
  <1>1. TypeOK' /\ HistoryType'
    BY ServiceTypeStep, GraphTypeStep, StoreTypeStep, RequestTypeStep, RequestInvStep, RevisionsStep
       DEF TypeOK
  <1>2. RequestInv' /\ LockInv' /\ OverlayInv' /\ LogInv' /\ AnswerInv' /\ ReplyInv' /\ RollbackInv'
    BY RequestInvStep, LockInvStep, OverlayInvStep, LogInvStep, AnswerInvStep, ReplyInvStep, RollbackInvStep
  <1>3. KeyInv' /\ RecordsBounded' /\ CommitOnce' /\ BaseNotAhead'
    BY KeyInvStep, CommitOnceStep, BaseNotAheadStep
  <1> QED
    BY <1>1, <1>2, <1>3 DEF LifecycleInv

\* The inductive invariant holds in every behaviour.
THEOREM LifecycleInvariant == Spec => []LifecycleInv
  <1>1. Init => LifecycleInv
    BY LifecycleInit
  <1>2. LifecycleInv /\ [Next]_vars => LifecycleInv'
    BY LifecycleStep, LifecycleStutter
  <1> QED
    BY <1>1, <1>2, PTL DEF Spec

\* The state keeps its type; a request carries a payload exactly while it is
\* in the store, and no barrier, request, record or view names a revision the
\* store has not reached.
THEOREM LifecycleTypeCorrect == Spec => []TypeOK
  <1>1. LifecycleInv => TypeOK
    BY DEF LifecycleInv
  <1> QED
    BY <1>1, LifecycleInvariant, PTL

\* No transaction is applied to the store twice, however commits are retried,
\* raced, interrupted or repeated after a crash.
THEOREM CommitsOnce == Spec => []CommitOnce
  <1>1. LifecycleInv => CommitOnce
    BY DEF LifecycleInv
  <1> QED
    BY <1>1, LifecycleInvariant, PTL

\* A retained idempotency key is applied once, by any number of transactions.
THEOREM KeysOnce == Spec => []KeyOnce
  <1>1. LifecycleInv => KeyOnce
    BY DEF LifecycleInv, KeyInv, KeyOnce
  <1> QED
    BY <1>1, LifecycleInvariant, PTL

\* A client that is told "committed" finds what its transaction staged, from
\* then on.
THEOREM RepliesTruthful == Spec => []ReplyTruthful
  <1>1. LifecycleInv => ReplyTruthful
    BY DEF LifecycleInv, ReplyInv, Truth, ReplyTruthful
  <1> QED
    BY <1>1, LifecycleInvariant, PTL

\* Nothing of a transaction that a rollback request took out of "active" is
\* ever durable.
THEOREM RollbacksWin == Spec => []RollbackWins
  <1>1. LifecycleInv => RollbackWins
    BY DEF LifecycleInv, RollbackInv, Logged, RollbackWins
  <1> QED
    BY <1>1, LifecycleInvariant, PTL

\* No active transaction's base is ahead of the store.
THEOREM BasesNotAhead == Spec => []BaseNotAhead
  <1>1. LifecycleInv => BaseNotAhead
    BY DEF LifecycleInv
  <1> QED
    BY <1>1, LifecycleInvariant, PTL

\* The store never holds more idempotency records than it may.
THEOREM CapacityKept == Spec => []RecordsBounded
  <1>1. LifecycleInv => RecordsBounded
    BY DEF LifecycleInv
  <1> QED
    BY <1>1, LifecycleInvariant, PTL
=============================================================================
