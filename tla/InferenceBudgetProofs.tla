----------------------- MODULE InferenceBudgetProofs -----------------------
(***************************************************************************)
(* Proofs about the scopes of InferenceBudget, for any members, calls and  *)
(* limits.                                                                 *)
(*                                                                         *)
(* Scopes: a stamp names one value of a scope for ever, because a stamp is *)
(* handed out once and written by one command.  So a command that finds    *)
(* the stamp it expects replaces the value it was made for; if it does not *)
(* check that no other scope is active, that value was active already.     *)
(*                                                                         *)
(* Limits: with one member that writes, a scope counts every call that the *)
(* provider runs, in the ledger that the member has, in all that follow it *)
(* and in every command that can still replace the scope: such a command   *)
(* was made from what the scope is now.                                    *)
(***************************************************************************)
EXTENDS InferenceBudget, FiniteSetTheorems, WellFoundedInduction, TLAPS

Entries == 1..Len(ibLog)

\* No value in the log has stamp t.
Unused(t) == \A k \in Entries : \A s \in ScopeIds : Ledger(k)[s].stamp # t

\* A value that a command may write: marked with the command's own stamp, or a
\* value that the scope has had.
Writable(s, value, t) == value.stamp = t \/ \E k \in Entries : value = Ledger(k)[s]

\* EnsureSemanticBudgetScope completes or reactivates a scope that it has found.
EnsureInv ==
    \A m \in BudgetMembers :
        ibEnsure[m].phase \in {"finish", "reactivate"} => ibEnsure[m].previous # {}

\* A stamp names one value of a scope.
StampInv ==
    /\ \A k \in Entries : \A s \in ScopeIds : Ledger(k)[s].stamp <= ibClock
    /\ \A j, k \in Entries : \A s \in ScopeIds :
          Ledger(j)[s].stamp = Ledger(k)[s].stamp => Ledger(j)[s] = Ledger(k)[s]

\* A command that makes a scope active without looking at the others replaces a
\* value that was active.
Replaces(c) ==
    c.value.state = "active" /\ ~c.enforce =>
        /\ ~c.alloc
        /\ \E k \in Entries : Ledger(k)[c.scope].stamp = c.previous /\ Ledger(k)[c.scope].state = "active"

SentInv ==
    /\ \A c \in ibSent : /\ c.id <= ibClock /\ Unused(c.id)
                         /\ Writable(c.scope, c.value, c.id)
                         /\ Replaces(c)
    /\ \A c, d \in ibSent : c.id = d.id => c = d

\* An operation that has not proposed yet has an identity of its own.
Alone(m) ==
    /\ Unused(ibOp[m].id)
    /\ \A c \in ibSent : c.id # ibOp[m].id
    /\ \A n \in BudgetMembers \ {m} : ibOp[n] # NoOperation => ibOp[n].id # ibOp[m].id

OperationInv ==
    \A m \in BudgetMembers : ibOp[m] # NoOperation =>
        /\ ibOp[m].id <= ibClock
        /\ ibOp[m].phase = "read" => Alone(m) /\ Writable(ibOp[m].scope, ibOp[m].value, ibOp[m].id)

AtMostOneActive == \A s, t \in ActiveScopes(Latest) : s = t

BudgetInv ==
    /\ IbTypeOK /\ EnsureInv /\ StampInv /\ SentInv /\ OperationInv /\ AtMostOneActive

-----------------------------------------------------------------------------
(* Scopes and the ledger.                                                  *)

\* A ledger of the log, and the ledger of a member, hold scopes.
LEMMA LedgerTyped ==
    ASSUME GroupType
    PROVE  /\ \A k \in Entries : Ledger(k) \in LedgerType
           /\ \A m \in BudgetMembers : ibAt[m] \in Entries /\ Local(m) = Ledger(ibAt[m])
           /\ Len(ibLog) \in Entries /\ Latest = Ledger(Len(ibLog))
<1> DEFINE Entry == [id : Nat, ok : BOOLEAN, ledger : LedgerType]
<1>1. ibLog \in Seq(Entry) /\ Len(ibLog) > 0 /\ ibAt \in [BudgetMembers -> 1..Len(ibLog)]
  BY DEF GroupType
<1>2. \A e \in Entry : e.ledger \in LedgerType
  OBVIOUS
<1>3. \A k \in 1..Len(ibLog) : ibLog[k] \in Entry
  <2> HIDE DEF Entry
  <2> QED BY <1>1
<1> HIDE DEF Entry
<1>4. \A k \in Entries : Ledger(k) \in LedgerType
  BY <1>2, <1>3 DEF Entries, Ledger
<1>5. \A m \in BudgetMembers : ibAt[m] \in Entries /\ Local(m) = Ledger(ibAt[m])
  BY <1>1 DEF Entries, Local
<1>6. Len(ibLog) \in Nat
  BY <1>1
<1> QED BY <1>1, <1>4, <1>5, <1>6 DEF Entries, Latest

\* What the three decisions about an attempt make of a scope.
LEMMA NewScopeTyped ==
    ASSUME NEW t \in 0..MaxBudgetWrites
    PROVE  NewScope(t) \in ScopeType /\ NewScope(t).stamp = t /\ NewScope(t).state = "active"
BY BudgetAssumption DEF NewScope, ScopeType, NotReserved

\* A reservation leaves a scope with the new stamp (ReserveProviderAttempt).
LEMMA ReservedTyped ==
    ASSUME NEW sc \in ScopeType, NEW i \in BudgetCalls, NEW t \in 0..MaxBudgetWrites
    PROVE  Reserved(sc, i, t) \in ScopeType /\ Reserved(sc, i, t).stamp = t
<1> DEFINE charge == [state |-> "reserved", charged |-> BudgetReservation]
           attempts == [sc.attempts EXCEPT ![i] = charge]
<1>1. BudgetReservation \in 0..(BudgetReservation + 1)
  BY BudgetAssumption
<1>2. charge \in [state : {"none", "reserved", "known", "unknown"}, charged : 0..(BudgetReservation + 1)]
  BY <1>1
<1>3. attempts \in [BudgetCalls -> [state : {"none", "reserved", "known", "unknown"},
                                    charged : 0..(BudgetReservation + 1)]]
  BY <1>2 DEF ScopeType
<1>4. Reserved(sc, i, t) = [sc EXCEPT !.stamp = t, !.attempts = attempts]
  BY DEF Reserved
<1> HIDE DEF attempts
<1> QED BY <1>3, <1>4 DEF ScopeType

\* A completion leaves a scope with the new stamp (CompleteProviderAttempt).
LEMMA CompletedTyped ==
    ASSUME NEW sc \in ScopeType, NEW i \in BudgetCalls, NEW t \in 0..MaxBudgetWrites,
           NEW answer \in AnswerType
    PROVE  /\ Completed(sc, i, answer, t) \in ScopeType
           /\ Completed(sc, i, answer, t).stamp = t \/ Completed(sc, i, answer, t) = sc
<1>1. CASE sc.attempts[i].state # "reserved"
  BY <1>1 DEF Completed
<1>2. CASE sc.attempts[i].state = "reserved"
  BY <1>2, BudgetAssumption DEF Completed, ScopeType, AnswerType
<1> QED BY <1>1, <1>2

\* A change of state keeps the shape of a scope.
LEMMA RestatedTyped ==
    ASSUME NEW sc \in ScopeType, NEW t \in 0..MaxBudgetWrites, NEW st \in {"active", "completed"}
    PROVE  LET new == [sc EXCEPT !.state = st, !.stamp = t] IN new \in ScopeType /\ new.stamp = t
BY DEF ScopeType

-----------------------------------------------------------------------------
(* Stamps, commands and active scopes.                                     *)

\* Steps that neither decide nor propose nor commit leave all of it alone;
\* operations may end.
LEMMA QuietKeeps ==
    ASSUME BudgetInv, UNCHANGED <<ibLog, ibSent, ibClock>>,
           \A m \in BudgetMembers : ibOp'[m] \in {ibOp[m], NoOperation}
    PROVE  StampInv' /\ SentInv' /\ OperationInv' /\ AtMostOneActive'
<1>1. Entries' = Entries /\ Latest' = Latest /\ \A k : Ledger(k)' = Ledger(k)
  BY DEF Entries, Latest, Ledger
<1>2. /\ \A t : Unused(t)' <=> Unused(t)
      /\ \A s, v, t : Writable(s, v, t)' <=> Writable(s, v, t)
      /\ \A c : Replaces(c)' <=> Replaces(c)
  BY <1>1 DEF Unused, Writable, Replaces
<1>3. StampInv'
  BY <1>1 DEF BudgetInv, StampInv
<1>4. SentInv'
  BY <1>2 DEF BudgetInv, SentInv
<1>5. \A m \in BudgetMembers : Alone(m) /\ ibOp'[m] = ibOp[m] => Alone(m)'
  BY <1>2 DEF Alone
<1>6. OperationInv'
  BY <1>2, <1>5 DEF BudgetInv, OperationInv
<1>7. AtMostOneActive'
  BY <1>1 DEF BudgetInv, AtMostOneActive, ActiveScopes
<1> QED BY <1>3, <1>4, <1>6, <1>7

\* A decision takes the next stamp and a value made with it.
LEMMA DecideKeeps ==
    ASSUME BudgetInv, NEW m \in BudgetMembers, NEW kind, NEW s, NEW i, NEW value,
           ibOp[m] = NoOperation, Decide(m, kind, s, i, value),
           Writable(s, value, ibClock + 1)
    PROVE  StampInv' /\ SentInv' /\ OperationInv' /\ AtMostOneActive'
<1>0. ibClock \in Nat /\ ibOp \in [BudgetMembers -> OperationType \cup {NoOperation}]
      /\ ibSent \subseteq CommandType /\ GroupType
  BY BudgetAssumption DEF BudgetInv, IbTypeOK, CountType, MemberType, GroupType
<1> DEFINE op == [kind |-> kind, scope |-> s, inv |-> i, value |-> value,
                  id |-> ibClock + 1, phase |-> "read"]
<1>1. /\ ibClock' = ibClock + 1 /\ UNCHANGED <<ibLog, ibSent>>
      /\ ibOp' = [ibOp EXCEPT ![m] = op]
  BY DEF Decide
<1>2. Entries' = Entries /\ Latest' = Latest /\ \A k : Ledger(k)' = Ledger(k)
  BY <1>1 DEF Entries, Latest, Ledger
<1>3. /\ \A t : Unused(t)' <=> Unused(t)
      /\ \A x, v, t : Writable(x, v, t)' <=> Writable(x, v, t)
      /\ \A c : Replaces(c)' <=> Replaces(c)
  BY <1>2 DEF Unused, Writable, Replaces
<1>4. \A k \in Entries : \A x \in ScopeIds : Ledger(k)[x].stamp \in Nat
  BY <1>0, LedgerTyped DEF LedgerType, ScopeType
<1>5. StampInv'
  BY <1>0, <1>1, <1>2, <1>4 DEF BudgetInv, StampInv
<1>6. \A c \in ibSent : c.id \in Nat
  BY <1>0 DEF CommandType
<1>7. SentInv'
  BY <1>0, <1>1, <1>3, <1>6 DEF BudgetInv, SentInv
<1>8. Unused(ibClock + 1) /\ \A c \in ibSent : c.id # ibClock + 1
  BY <1>0, <1>4, <1>6 DEF BudgetInv, StampInv, SentInv, Unused
<1>9. \A n \in BudgetMembers \ {m} : ibOp'[n] = ibOp[n]
  BY <1>0, <1>1
<1>10. \A n \in BudgetMembers : ibOp[n] # NoOperation => ibOp[n].id \in Nat /\ ibOp[n].id <= ibClock
  BY <1>0 DEF BudgetInv, OperationInv, OperationType
<1>11. ibOp'[m] = op /\ op.id = ibClock + 1 /\ op.scope = s /\ op.value = value /\ op.phase = "read"
  BY <1>0, <1>1
<1> HIDE DEF op
<1>12. Alone(m)'
  <2>1. \A n \in BudgetMembers \ {m} : ibOp'[n] # NoOperation => ibOp'[n].id # ibOp'[m].id
    BY <1>0, <1>9, <1>10, <1>11
  <2> QED BY <2>1, <1>1, <1>3, <1>8, <1>11 DEF Alone
<1>13. \A n \in BudgetMembers \ {m} : ibOp[n] # NoOperation /\ Alone(n) => Alone(n)'
  <2> SUFFICES ASSUME NEW n \in BudgetMembers \ {m}, ibOp[n] # NoOperation, Alone(n)
               PROVE  Alone(n)'
    OBVIOUS
  <2>1. \A p \in BudgetMembers \ {n} : ibOp'[p] # NoOperation => ibOp'[p].id # ibOp'[n].id
    BY <1>0, <1>9, <1>10, <1>11 DEF Alone
  <2> QED BY <2>1, <1>1, <1>3, <1>9 DEF Alone
<1>14. OperationInv'
  <2> SUFFICES ASSUME NEW n \in BudgetMembers, ibOp'[n] # NoOperation
               PROVE  /\ ibOp'[n].id <= ibClock'
                      /\ ibOp'[n].phase = "read" =>
                            Alone(n)' /\ Writable(ibOp[n].scope, ibOp[n].value, ibOp[n].id)'
    BY DEF OperationInv
  <2>1. CASE n = m
    BY <2>1, <1>0, <1>1, <1>3, <1>11, <1>12
  <2>2. CASE n # m
    <3>1. ibOp[n] # NoOperation /\ ibOp[n].id <= ibClock' /\ ibOp'[n] = ibOp[n]
      BY <2>2, <1>0, <1>1, <1>9, <1>10
    <3> QED BY <3>1, <2>2, <1>3, <1>13 DEF BudgetInv, OperationInv
  <2> QED BY <2>1, <2>2
<1>15. AtMostOneActive'
  BY <1>2 DEF BudgetInv, AtMostOneActive, ActiveScopes
<1> QED BY <1>5, <1>7, <1>14, <1>15

\* A proposal names the stamp of a value in the log, and if that value was not
\* active it makes the group look at the other scopes.
LEMMA ProposalKeeps ==
    ASSUME BudgetInv, NEW m \in BudgetMembers, UpsertBudgetScope(m)
    PROVE  StampInv' /\ SentInv' /\ OperationInv' /\ AtMostOneActive'
<1> DEFINE op == ibOp[m]
           c == Command(m, op)
<1>0. /\ ibClock \in Nat /\ ibOp \in [BudgetMembers -> OperationType \cup {NoOperation}]
      /\ ibSent \subseteq CommandType /\ GroupType
  BY BudgetAssumption DEF BudgetInv, IbTypeOK, CountType, MemberType, GroupType
<1>1. /\ op # NoOperation /\ op.phase = "read" /\ ibSent' = ibSent \cup {c}
      /\ ibOp' = [ibOp EXCEPT ![m].phase = "sent"] /\ UNCHANGED <<ibLog, ibClock>>
  BY DEF UpsertBudgetScope
<1>2. op \in OperationType
  BY <1>0, <1>1
<1>3. Entries' = Entries /\ Latest' = Latest /\ \A k : Ledger(k)' = Ledger(k)
  BY <1>1 DEF Entries, Latest, Ledger
<1>4. /\ \A t : Unused(t)' <=> Unused(t)
      /\ \A x, v, t : Writable(x, v, t)' <=> Writable(x, v, t)
      /\ \A d : Replaces(d)' <=> Replaces(d)
  BY <1>3 DEF Unused, Writable, Replaces
<1>5. /\ c.id = op.id /\ c.scope = op.scope /\ c.value = op.value
      /\ c.previous = Local(m)[op.scope].stamp
      /\ c.alloc <=> Local(m)[op.scope].state = "absent"
      /\ c.enforce <=> Local(m)[op.scope].state # "active" /\ op.value.state = "active"
  BY DEF Command
<1>6. ibAt[m] \in Entries /\ Local(m) = Ledger(ibAt[m])
  BY <1>0, LedgerTyped
<1>7. Alone(m) /\ Writable(op.scope, op.value, op.id) /\ op.id <= ibClock
  BY <1>1 DEF BudgetInv, OperationInv
<1> HIDE DEF c
<1>8. Replaces(c)
  <2>1. CASE c.value.state = "active" /\ ~c.enforce
    <3>1. Local(m)[op.scope].state = "active" /\ ~c.alloc
      BY <2>1, <1>5
    <3> QED BY <3>1, <1>5, <1>6 DEF Replaces
  <2> QED BY <2>1 DEF Replaces
<1>9. SentInv'
  BY <1>1, <1>4, <1>5, <1>7, <1>8 DEF BudgetInv, SentInv, Alone
<1>10. StampInv'
  BY <1>1, <1>3 DEF BudgetInv, StampInv
<1>11. ibOp'[m].id = op.id /\ ibOp'[m].phase = "sent" /\ ibOp'[m] # NoOperation
  BY <1>0, <1>1, <1>2 DEF OperationType, NoOperation
<1>12. \A n \in BudgetMembers \ {m} : ibOp'[n] = ibOp[n]
  BY <1>0, <1>1
<1>13. \A n \in BudgetMembers \ {m} : ibOp[n] # NoOperation /\ Alone(n) => Alone(n)'
  <2> SUFFICES ASSUME NEW n \in BudgetMembers \ {m}, ibOp[n] # NoOperation, Alone(n)
               PROVE  Alone(n)'
    OBVIOUS
  <2>1. \A p \in BudgetMembers \ {n} : ibOp'[p] # NoOperation => ibOp'[p].id # ibOp'[n].id
    BY <1>1, <1>11, <1>12 DEF Alone
  <2>2. \A d \in ibSent' : d.id # ibOp'[n].id
    BY <1>1, <1>5, <1>12 DEF Alone
  <2> QED BY <2>1, <2>2, <1>4, <1>12 DEF Alone
<1>14. OperationInv'
  <2> SUFFICES ASSUME NEW n \in BudgetMembers, ibOp'[n] # NoOperation
               PROVE  /\ ibOp'[n].id <= ibClock'
                      /\ ibOp'[n].phase = "read" =>
                            Alone(n)' /\ Writable(ibOp[n].scope, ibOp[n].value, ibOp[n].id)'
    BY DEF OperationInv
  <2>1. CASE n = m
    BY <2>1, <1>1, <1>7, <1>11
  <2>2. CASE n # m
    <3>1. ibOp[n] # NoOperation /\ ibOp'[n] = ibOp[n] /\ ibOp[n].id <= ibClock'
      BY <2>2, <1>1, <1>12 DEF BudgetInv, OperationInv
    <3> QED BY <3>1, <2>2, <1>4, <1>13 DEF BudgetInv, OperationInv
  <2> QED BY <2>1, <2>2
<1>15. AtMostOneActive'
  BY <1>3 DEF BudgetInv, AtMostOneActive, ActiveScopes
<1> QED BY <1>9, <1>10, <1>14, <1>15

\* What Commit appends: the latest ledger, or that ledger with the command's value.
LEMMA CommitEffect ==
    ASSUME IbTypeOK, NEW c \in ibSent, Commit(c)
    PROVE  LET new == ibLog'[Len(ibLog) + 1].ledger IN
           /\ Len(ibLog') = Len(ibLog) + 1
           /\ \A k \in Entries : ibLog'[k] = ibLog[k]
           /\ new = IF BudgetVerdict(Latest, c) = "applied" THEN [Latest EXCEPT ![c.scope] = c.value]
                    ELSE Latest
           /\ new \in LedgerType
           /\ GroupType'
<1> DEFINE verdict == BudgetVerdict(Latest, c)
           next == IF verdict = "applied" THEN [Latest EXCEPT ![c.scope] = c.value] ELSE Latest
           e == [id |-> c.id, ok |-> verdict # "refused", ledger |-> next]
           Entry == [id : Nat, ok : BOOLEAN, ledger : LedgerType]
<1>0. /\ GroupType /\ ibLog \in Seq(Entry) /\ Len(ibLog) \in Nat /\ ibAt \in [BudgetMembers -> Entries]
      /\ ibSent \subseteq CommandType /\ c \in CommandType
  BY DEF IbTypeOK, GroupType, Entries
<1>1. ibLog' = Append(ibLog, e) /\ ibSent' = ibSent \ {c} /\ UNCHANGED ibAt
  BY DEF Commit
<1>2. Latest \in LedgerType
  BY <1>0, LedgerTyped
<1>3. c.scope \in ScopeIds /\ c.value \in ScopeType /\ c.id \in Nat
  BY <1>0 DEF CommandType
<1>4. next \in LedgerType
  BY <1>2, <1>3 DEF LedgerType
<1>5. e.ledger = next
  OBVIOUS
<1>6. e \in Entry
  <2> HIDE DEF next
  <2>1. (verdict # "refused") \in BOOLEAN
    OBVIOUS
  <2> HIDE DEF verdict
  <2> QED BY <1>3, <1>4, <2>1
<1> HIDE DEF e, Entry
<1>7. /\ Len(ibLog') = Len(ibLog) + 1 /\ ibLog'[Len(ibLog) + 1] = e
      /\ \A k \in Entries : ibLog'[k] = ibLog[k]
      /\ ibLog' \in Seq(Entry)
  BY <1>0, <1>1, <1>6 DEF Entries
<1>8. GroupType'
  <2>1. ibAt' \in [BudgetMembers -> 1..Len(ibLog')]
    BY <1>0, <1>1, <1>7 DEF Entries
  <2>2. ibSent' \subseteq CommandType /\ Len(ibLog') > 0
    BY <1>0, <1>1, <1>7
  <2> QED BY <1>7, <2>1, <2>2 DEF GroupType, Entry
<1> HIDE DEF next
<1>9. ibLog'[Len(ibLog) + 1].ledger = next
  BY <1>5, <1>7
<1> QED BY <1>4, <1>7, <1>8, <1>9 DEF next

\* A commit keeps the stamps apart and at most one scope active.
LEMMA CommitKeeps ==
    ASSUME BudgetInv, NEW c \in ibSent, Commit(c)
    PROVE  StampInv' /\ SentInv' /\ OperationInv' /\ AtMostOneActive'
<1> PICK K : K = Len(ibLog) + 1
  OBVIOUS
<1> DEFINE new == ibLog'[K].ledger
           verdict == BudgetVerdict(Latest, c)
<1>0. /\ GroupType /\ Len(ibLog) \in Nat /\ ibClock \in Nat /\ c \in CommandType
      /\ \A k \in Entries : Ledger(k) \in LedgerType
      /\ Len(ibLog) \in Entries /\ Latest = Ledger(Len(ibLog)) /\ Latest \in LedgerType
  BY BudgetAssumption, LedgerTyped DEF BudgetInv, IbTypeOK, CountType, GroupType
<1>1. /\ Len(ibLog') = K /\ \A k \in Entries : ibLog'[k] = ibLog[k]
      /\ new = IF verdict = "applied" THEN [Latest EXCEPT ![c.scope] = c.value] ELSE Latest
      /\ new \in LedgerType
  BY CommitEffect DEF BudgetInv
<1>2. ibSent' = ibSent \ {c} /\ UNCHANGED <<ibOp, ibClock>>
  BY DEF Commit
<1>3. /\ Entries' = Entries \cup {K}
      /\ \A k \in Entries : Ledger(k)' = Ledger(k)
      /\ Ledger(K)' = new /\ Latest' = new
  BY <1>0, <1>1 DEF Entries, Ledger, Latest
<1>4. /\ c.scope \in ScopeIds /\ c.value \in ScopeType
      /\ c.id <= ibClock /\ Unused(c.id) /\ Writable(c.scope, c.value, c.id) /\ Replaces(c)
  BY <1>0 DEF BudgetInv, SentInv, CommandType
<1>5. \A s \in ScopeIds : new[s] = Latest[s] \/ (s = c.scope /\ new[s] = c.value)
  BY <1>0, <1>1, <1>4 DEF LedgerType
<1>6. \A s \in ScopeIds : new[s].stamp = c.id \/ \E k \in Entries : new[s] = Ledger(k)[s]
  BY <1>0, <1>4, <1>5 DEF Writable
<1> HIDE DEF new, verdict
<1>7. StampInv'
  <2>1. \A s \in ScopeIds : new[s].stamp <= ibClock
    BY <1>4, <1>6 DEF BudgetInv, StampInv
  <2>2. \A k \in Entries : \A s \in ScopeIds :
           new[s].stamp = Ledger(k)[s].stamp => new[s] = Ledger(k)[s]
    <3> SUFFICES ASSUME NEW k \in Entries, NEW s \in ScopeIds, new[s].stamp = Ledger(k)[s].stamp
                 PROVE  new[s] = Ledger(k)[s]
      OBVIOUS
    <3>1. new[s].stamp # c.id
      BY <1>4 DEF Unused
    <3>2. PICK p \in Entries : new[s] = Ledger(p)[s]
      BY <3>1, <1>6
    <3> QED BY <3>2 DEF BudgetInv, StampInv
  <2>3. \A k \in Entries' : \A s \in ScopeIds : Ledger(k)'[s].stamp <= ibClock'
    BY <1>2, <1>3, <2>1 DEF BudgetInv, StampInv
  <2>4. \A j, k \in Entries' : \A s \in ScopeIds :
           Ledger(j)'[s].stamp = Ledger(k)'[s].stamp => Ledger(j)'[s] = Ledger(k)'[s]
    BY <1>3, <2>2 DEF BudgetInv, StampInv
  <2> QED BY <2>3, <2>4 DEF StampInv
<1>8. \A t : Unused(t) /\ t # c.id => Unused(t)'
  BY <1>3, <1>6 DEF Unused
<1>9. \A s, v, t : Writable(s, v, t) => Writable(s, v, t)'
  BY <1>3 DEF Writable
<1>10. \A d : Replaces(d) => Replaces(d)'
  BY <1>3 DEF Replaces
<1>11. SentInv'
  BY <1>2, <1>8, <1>9, <1>10 DEF BudgetInv, SentInv
<1>12. \A m \in BudgetMembers : Alone(m) => Alone(m)'
  BY <1>2, <1>8 DEF Alone
<1>13. OperationInv'
  BY <1>2, <1>9, <1>12 DEF BudgetInv, OperationInv
<1>14. AtMostOneActive'
  <2>1. CASE verdict # "applied"
    BY <2>1, <1>1, <1>3 DEF BudgetInv, AtMostOneActive, ActiveScopes
  <2>2. CASE verdict = "applied" /\ ActiveScopes(Latest) \subseteq {c.scope}
    BY <2>2, <1>3, <1>5 DEF AtMostOneActive, ActiveScopes
  <2>3. CASE verdict = "applied" /\ ~(ActiveScopes(Latest) \subseteq {c.scope})
    <3>1. ~c.enforce
      BY <2>3 DEF verdict, BudgetVerdict
    <3>2. CASE c.value.state # "active"
      BY <3>2, <1>3, <1>5 DEF BudgetInv, AtMostOneActive, ActiveScopes
    <3>3. CASE c.value.state = "active"
      <4>1. ~c.alloc /\ \E k \in Entries : /\ Ledger(k)[c.scope].stamp = c.previous
                                          /\ Ledger(k)[c.scope].state = "active"
        BY <3>1, <3>3, <1>4 DEF Replaces
      <4>2. Latest[c.scope].stamp = c.previous
        BY <4>1, <2>3 DEF verdict, BudgetVerdict
      <4>3. Latest[c.scope].state = "active"
        BY <4>1, <4>2, <1>0, <1>4 DEF BudgetInv, StampInv
      <4>4. \A s \in ScopeIds : new[s].state = "active" => Latest[s].state = "active"
        BY <4>3, <1>5
      <4> QED BY <4>4, <1>3 DEF BudgetInv, AtMostOneActive, ActiveScopes
    <3> QED BY <3>2, <3>3
  <2> QED BY <2>1, <2>2, <2>3
<1> QED BY <1>7, <1>11, <1>13, <1>14

-----------------------------------------------------------------------------
(* Type correctness, and what EnsureSemanticBudgetScope remembers.         *)

PhasesOfCall == {"idle", "resolved", "reserving", "held", "calling", "answered", "completing", "over"}
PhasesOfEnsure == {"unused", "finish", "create", "reactivate", "over"}

\* A call, or the member's EnsureSemanticBudgetScope, moves to another phase.
LEMMA PhaseTyped ==
    ASSUME IbTypeOK
    PROVE  /\ \A i : \A p \in PhasesOfCall :
                 [ibCall EXCEPT ![i].phase = p] \in
                    [BudgetCalls -> [phase : PhasesOfCall, at : SUBSET BudgetMembers,
                                     scope : ScopeIds, answer : AnswerType]]
           /\ \A m \in BudgetMembers : \A p \in PhasesOfEnsure :
                 /\ [ibEnsure EXCEPT ![m].phase = p] \in
                       [BudgetMembers -> [phase : PhasesOfEnsure, previous : SUBSET ScopeIds]]
                 /\ [ibEnsure EXCEPT ![m].phase = p][m].previous = ibEnsure[m].previous
                 /\ [ibEnsure EXCEPT ![m].phase = p][m].phase = p
                 /\ \A n \in BudgetMembers \ {m} : [ibEnsure EXCEPT ![m].phase = p][n] = ibEnsure[n]
<1>1. /\ ibCall \in [BudgetCalls -> [phase : PhasesOfCall, at : SUBSET BudgetMembers,
                                     scope : ScopeIds, answer : AnswerType]]
      /\ ibEnsure \in [BudgetMembers -> [phase : PhasesOfEnsure, previous : SUBSET ScopeIds]]
  BY DEF IbTypeOK, CallType, MemberType, PhasesOfCall, PhasesOfEnsure
<1>2. ASSUME NEW i, NEW p \in PhasesOfCall
      PROVE  [ibCall EXCEPT ![i].phase = p] \in
                [BudgetCalls -> [phase : PhasesOfCall, at : SUBSET BudgetMembers,
                                 scope : ScopeIds, answer : AnswerType]]
  BY <1>1, <1>2
<1>3. ASSUME NEW m \in BudgetMembers, NEW p \in PhasesOfEnsure
      PROVE  /\ [ibEnsure EXCEPT ![m].phase = p] \in
                   [BudgetMembers -> [phase : PhasesOfEnsure, previous : SUBSET ScopeIds]]
             /\ [ibEnsure EXCEPT ![m].phase = p][m].previous = ibEnsure[m].previous
             /\ [ibEnsure EXCEPT ![m].phase = p][m].phase = p
             /\ \A n \in BudgetMembers \ {m} : [ibEnsure EXCEPT ![m].phase = p][n] = ibEnsure[n]
  BY <1>1, <1>3
<1> QED BY <1>2, <1>3

\* What a caller does with the result of an operation (Continue).
LEMMA ContinueEffect ==
    ASSUME NEW m \in BudgetMembers, NEW op \in OperationType,
           \/ \E k \in 1..ibAt[m] : Continue(m, op, ibLog[k].ok)
           \/ Continue(m, op, FALSE)
    PROVE  /\ ibOp' = [ibOp EXCEPT ![m] = NoOperation]
           /\ \/ ibCall' = ibCall
              \/ \E p \in PhasesOfCall : ibCall' = [ibCall EXCEPT ![op.inv].phase = p]
           /\ \/ ibEnsure' = ibEnsure
              \/ \E p \in PhasesOfEnsure :
                    /\ p = "finish" => FALSE
                    /\ p = "reactivate" => ibEnsure[m].previous # {}
                    /\ ibEnsure' = [ibEnsure EXCEPT ![m].phase = p]
BY DEF Continue, OperationType, PhasesOfCall, PhasesOfEnsure

\* What an operation does after its command keeps the types.
LEMMA ContinueTyped ==
    ASSUME IbTypeOK, EnsureInv, NEW m \in BudgetMembers, NEW op \in OperationType,
           \/ \E k \in 1..ibAt[m] : Continue(m, op, ibLog[k].ok)
           \/ Continue(m, op, FALSE)
    PROVE  /\ ibOp' \in [BudgetMembers -> OperationType \cup {NoOperation}]
           /\ \A n \in BudgetMembers : ibOp'[n] \in {ibOp[n], NoOperation}
           /\ ibCall' \in [BudgetCalls -> [phase : PhasesOfCall, at : SUBSET BudgetMembers,
                                           scope : ScopeIds, answer : AnswerType]]
           /\ ibEnsure' \in [BudgetMembers -> [phase : PhasesOfEnsure, previous : SUBSET ScopeIds]]
           /\ EnsureInv'
<1>1. ibOp' = [ibOp EXCEPT ![m] = NoOperation]
  BY ContinueEffect
<1>2. /\ ibOp' \in [BudgetMembers -> OperationType \cup {NoOperation}]
      /\ \A n \in BudgetMembers : ibOp'[n] \in {ibOp[n], NoOperation}
  BY <1>1 DEF IbTypeOK, MemberType
<1>3. ibCall' \in [BudgetCalls -> [phase : PhasesOfCall, at : SUBSET BudgetMembers,
                                   scope : ScopeIds, answer : AnswerType]]
  <2>1. CASE ibCall' = ibCall
    BY <2>1 DEF IbTypeOK, CallType, PhasesOfCall
  <2>2. CASE \E p \in PhasesOfCall : ibCall' = [ibCall EXCEPT ![op.inv].phase = p]
    BY <2>2, PhaseTyped
  <2> QED BY <2>1, <2>2, ContinueEffect
<1>4. /\ ibEnsure' \in [BudgetMembers -> [phase : PhasesOfEnsure, previous : SUBSET ScopeIds]]
      /\ EnsureInv'
  <2>1. CASE ibEnsure' = ibEnsure
    BY <2>1 DEF IbTypeOK, MemberType, PhasesOfEnsure, EnsureInv
  <2>2. CASE \E p \in PhasesOfEnsure : /\ p = "finish" => FALSE
                                       /\ p = "reactivate" => ibEnsure[m].previous # {}
                                       /\ ibEnsure' = [ibEnsure EXCEPT ![m].phase = p]
    BY <2>2, PhaseTyped DEF EnsureInv
  <2> QED BY <2>1, <2>2, ContinueEffect
<1> QED BY <1>2, <1>3, <1>4

\* A decision with a scope of the right shape.
LEMMA DecideTyped ==
    ASSUME IbTypeOK, NEW m \in BudgetMembers, NEW kind \in {"reserve", "complete", "finish", "create", "reactivate"},
           NEW s \in ScopeIds, NEW i \in BudgetCalls \cup {FirstScope}, NEW value \in ScopeType,
           ibClock < MaxBudgetWrites, Decide(m, kind, s, i, value)
    PROVE  /\ GroupType' /\ CountType'
           /\ ibWriters' \subseteq BudgetMembers
           /\ ibOp' \in [BudgetMembers -> OperationType \cup {NoOperation}]
           /\ ibFenced' \in [BudgetMembers -> BOOLEAN]
           /\ UNCHANGED ibProvider
<1> DEFINE op == [kind |-> kind, scope |-> s, inv |-> i, value |-> value,
                  id |-> ibClock + 1, phase |-> "read"]
<1>1. ibClock \in Nat /\ MaxBudgetWrites \in Nat
  BY BudgetAssumption DEF IbTypeOK, CountType
<1>2. op \in OperationType
  BY <1>1 DEF OperationType
<1>3. ibOp' = [ibOp EXCEPT ![m] = op]
  BY DEF Decide
<1> HIDE DEF op
<1>4. ibOp' \in [BudgetMembers -> OperationType \cup {NoOperation}]
  BY <1>2, <1>3 DEF IbTypeOK, MemberType
<1>5. GroupType'
  BY DEF IbTypeOK, GroupType, Decide
<1>6. CountType' /\ ibWriters' \subseteq BudgetMembers /\ ibFenced' \in [BudgetMembers -> BOOLEAN]
      /\ UNCHANGED ibProvider
  BY <1>1 DEF IbTypeOK, CountType, MemberType, Decide
<1> QED BY <1>4, <1>5, <1>6

\* The first scope is active in the first entry, and no stamp is taken.
LEMMA BudgetStarts ==
    ASSUME IbInit
    PROVE  BudgetInv
<1> DEFINE first == [[s \in ScopeIds |-> NoScope] EXCEPT ![FirstScope] = NewScope(0)]
           e == [id |-> 0, ok |-> TRUE, ledger |-> first]
<1>0. 0 \in 0..MaxBudgetWrites /\ 0 \in 0..MaxBudgetFaults /\ 0 \in 0..(BudgetReservation + 1)
  BY BudgetAssumption
<1>1. NewScope(0) \in ScopeType /\ NoScope \in ScopeType /\ NewScope(0).stamp = 0
      /\ NoScope.stamp = 0 /\ NoScope.state = "absent"
  BY <1>0, NewScopeTyped DEF NoScope, ScopeType
<1>2. FirstScope \in ScopeIds
  BY DEF ScopeIds
<1>3. /\ first \in LedgerType /\ \A s \in ScopeIds : first[s].stamp = 0
      /\ \A s \in ScopeIds : first[s].state = "active" => s = FirstScope
  BY <1>1, <1>2 DEF LedgerType
<1> HIDE DEF first
<1>4. ibLog = <<e>> /\ e \in [id : Nat, ok : BOOLEAN, ledger : LedgerType] /\ e.ledger = first
  BY <1>3 DEF IbInit, first
<1> HIDE DEF e
<1>5. Len(ibLog) = 1 /\ ibLog[1] = e /\ ibLog \in Seq([id : Nat, ok : BOOLEAN, ledger : LedgerType])
  BY <1>4
<1>6. /\ ibSent = {} /\ ibClock = 0 /\ ibAt = [m \in BudgetMembers |-> 1]
      /\ \A m \in BudgetMembers : ibOp[m] = NoOperation
      /\ \A m \in BudgetMembers : ibEnsure[m].phase = "unused"
  BY DEF IbInit
<1>7. GroupType
  BY <1>5, <1>6 DEF GroupType
<1>8. MemberType /\ CallType /\ CountType
  BY <1>0, <1>2 DEF IbInit, MemberType, CallType, CountType, AnswerType, NotCalled
<1>9. Entries = {1} /\ Ledger(1) = first /\ Latest = first
  BY <1>4, <1>5 DEF Entries, Ledger, Latest
<1>10. StampInv /\ AtMostOneActive
  BY <1>3, <1>6, <1>9 DEF StampInv, AtMostOneActive, ActiveScopes
<1>11. SentInv /\ OperationInv /\ EnsureInv
  BY <1>6 DEF SentInv, OperationInv, EnsureInv
<1> QED BY <1>7, <1>8, <1>10, <1>11 DEF BudgetInv, IbTypeOK

\* Every step keeps the types and what EnsureSemanticBudgetScope remembers.
LEMMA BudgetStep ==
    ASSUME BudgetInv, [IbNext]_ibVars
    PROVE  BudgetInv'
<1> USE DEF PhasesOfCall, PhasesOfEnsure
<1>0. IbTypeOK /\ GroupType /\ MemberType /\ CallType /\ CountType /\ EnsureInv
  BY DEF BudgetInv, IbTypeOK
<1>a. ibClock \in Nat /\ MaxBudgetWrites \in Nat /\ ibFaults \in Nat /\ MaxBudgetFaults \in Nat
  BY <1>0, BudgetAssumption DEF CountType
<1>b. \A m \in BudgetMembers : Local(m) \in LedgerType /\ ibAt[m] \in Entries /\ Local(m) = Ledger(ibAt[m])
  BY <1>0, LedgerTyped
<1>c. \A m \in BudgetMembers : \A s \in ScopeIds :
        Local(m)[s] \in ScopeType /\ \E k \in Entries : Local(m)[s] = Ledger(k)[s]
  BY <1>b DEF LedgerType
<1>1. CASE UNCHANGED ibVars
  <2>1. UNCHANGED <<ibLog, ibSent, ibClock, ibOp>>
    BY <1>1 DEF ibVars
  <2>2. StampInv' /\ SentInv' /\ OperationInv' /\ AtMostOneActive'
    BY <2>1, QuietKeeps
  <2>3. IbTypeOK' /\ EnsureInv'
    BY <1>0, <1>1 DEF ibVars, IbTypeOK, GroupType, MemberType, CallType, CountType, EnsureInv
  <2> QED BY <2>2, <2>3 DEF BudgetInv
<1>2. ASSUME NEW c \in ibSent, Commit(c)
      PROVE  BudgetInv'
  <2>1. GroupType'
    BY <1>0, <1>2, CommitEffect
  <2>2. MemberType' /\ CallType' /\ CountType' /\ EnsureInv'
    BY <1>0, <1>2 DEF Commit, MemberType, CallType, CountType, EnsureInv
  <2> QED BY <1>2, <2>1, <2>2, CommitKeeps DEF BudgetInv, IbTypeOK
<1>3. ASSUME NEW m \in BudgetMembers, ApplyCommand(m)
      PROVE  BudgetInv'
  <2>1. StampInv' /\ SentInv' /\ OperationInv' /\ AtMostOneActive'
    BY <1>3, QuietKeeps DEF ApplyCommand
  <2>2. GroupType'
    BY <1>0, <1>3 DEF ApplyCommand, GroupType
  <2>3. MemberType' /\ CallType' /\ CountType' /\ EnsureInv'
    BY <1>0, <1>3 DEF ApplyCommand, MemberType, CallType, CountType, EnsureInv
  <2> QED BY <2>1, <2>2, <2>3 DEF BudgetInv, IbTypeOK
<1>4. ASSUME NEW m \in BudgetMembers, UpsertBudgetScope(m)
      PROVE  BudgetInv'
  <2>1. ibOp[m] \in OperationType
    BY <1>0, <1>4 DEF UpsertBudgetScope, MemberType
  <2>2. Command(m, ibOp[m]) \in CommandType
    BY <2>1, <1>c DEF Command, CommandType, OperationType, ScopeType
  <2>3. GroupType'
    BY <2>2, <1>0, <1>4 DEF UpsertBudgetScope, GroupType
  <2>4. ibOp' \in [BudgetMembers -> OperationType \cup {NoOperation}]
    <3>1. ibOp' = [ibOp EXCEPT ![m].phase = "sent"]
      BY <1>4 DEF UpsertBudgetScope
    <3>2. [ibOp[m] EXCEPT !.phase = "sent"] \in OperationType
      BY <2>1 DEF OperationType
    <3> QED BY <3>1, <3>2, <1>0 DEF MemberType
  <2>5. MemberType' /\ CallType' /\ CountType' /\ EnsureInv'
    BY <2>4, <1>0, <1>4 DEF UpsertBudgetScope, MemberType, CallType, CountType, EnsureInv
  <2> QED BY <1>4, <2>3, <2>5, ProposalKeeps DEF BudgetInv, IbTypeOK
<1>5. ASSUME NEW m \in BudgetMembers, OperationReturns(m) \/ OperationFails(m)
      PROVE  BudgetInv'
  <2>1. ibOp[m] \in OperationType
    BY <1>0, <1>5 DEF OperationReturns, OperationFails, MemberType
  <2>2. \/ \E k \in 1..ibAt[m] : Continue(m, ibOp[m], ibLog[k].ok)
        \/ Continue(m, ibOp[m], FALSE)
    BY <1>5 DEF OperationReturns, OperationFails
  <2>3. /\ ibOp' \in [BudgetMembers -> OperationType \cup {NoOperation}]
        /\ \A n \in BudgetMembers : ibOp'[n] \in {ibOp[n], NoOperation}
        /\ ibCall' \in [BudgetCalls -> [phase : PhasesOfCall, at : SUBSET BudgetMembers,
                                        scope : ScopeIds, answer : AnswerType]]
        /\ ibEnsure' \in [BudgetMembers -> [phase : PhasesOfEnsure, previous : SUBSET ScopeIds]]
        /\ EnsureInv'
    <3> HIDE DEF PhasesOfCall, PhasesOfEnsure
    <3> QED BY <2>1, <2>2, <1>0, ContinueTyped
  <2>4. UNCHANGED <<ibLog, ibSent, ibClock, ibWriters, ibAt, ibProvider>>
    BY <1>5 DEF OperationReturns, OperationFails
  <2>5. StampInv' /\ SentInv' /\ OperationInv' /\ AtMostOneActive'
    BY <2>3, <2>4, QuietKeeps
  <2>6. GroupType' /\ CallType'
    BY <2>3, <2>4, <1>0 DEF GroupType, CallType
  <2>7. ibFenced' \in [BudgetMembers -> BOOLEAN] /\ CountType'
    <3>1. CASE UNCHANGED <<ibFenced, ibClock, ibFaults>>
      BY <3>1, <1>0 DEF MemberType, CountType
    <3>2. CASE /\ ibFenced' = [ibFenced EXCEPT ![m] = TRUE] /\ ibFaults < MaxBudgetFaults
               /\ ibFaults' = ibFaults + 1 /\ UNCHANGED ibClock
      <4>1. CountType'
        BY <3>2, <1>0, <1>a DEF CountType
      <4>2. ibFenced' \in [BudgetMembers -> BOOLEAN]
        BY <3>2, <1>0 DEF MemberType
      <4> QED BY <4>1, <4>2
    <3> QED BY <1>5, <3>1, <3>2 DEF OperationReturns, OperationFails
  <2>8. MemberType'
    BY <2>3, <2>4, <2>7, <1>0 DEF MemberType
  <2> QED BY <2>3, <2>5, <2>6, <2>7, <2>8 DEF BudgetInv, IbTypeOK
<1>6. ASSUME NEW m \in BudgetMembers, EnsureStarts(m)
      PROVE  BudgetInv'
  <2> DEFINE current == ActiveScopes(Local(m))
             next == [phase |-> IF current = {} THEN "create" ELSE "finish", previous |-> current]
  <2>1. current \subseteq ScopeIds
    BY DEF ActiveScopes
  <2>2. EnsureTo(m, next)
    BY <1>6 DEF EnsureStarts
  <2> HIDE DEF current
  <2>3. ibEnsure' \in [BudgetMembers -> [phase : PhasesOfEnsure, previous : SUBSET ScopeIds]] /\ EnsureInv'
    BY <2>1, <2>2, <1>0 DEF EnsureTo, EnsureInv, MemberType
  <2>4. GroupType' /\ MemberType' /\ CallType' /\ CountType'
    BY <2>2, <2>3, <1>0 DEF EnsureTo, GroupType, MemberType, CallType, CountType
  <2>5. StampInv' /\ SentInv' /\ OperationInv' /\ AtMostOneActive'
    BY <2>2, QuietKeeps DEF EnsureTo
  <2> QED BY <2>3, <2>4, <2>5 DEF BudgetInv, IbTypeOK
<1>7. ASSUME NEW m \in BudgetMembers, EnsureStep(m)
      PROVE  BudgetInv'
  <2> DEFINE s == CHOOSE x \in ibEnsure[m].previous : TRUE
             sc == Local(m)[s]
  <2>1. ibOp[m] = NoOperation
    BY <1>7 DEF EnsureStep
  <2>2. ibEnsure[m].phase \in {"finish", "reactivate"} => s \in ScopeIds
    BY <1>0 DEF EnsureInv, MemberType
  <2>3. ASSUME NEW kind \in {"finish", "create", "reactivate"}, NEW x \in ScopeIds, NEW value \in ScopeType,
               value.stamp = ibClock + 1, MayDecide(m), Decide(m, kind, x, FirstScope, value),
               UNCHANGED <<ibCall, ibEnsure>>
        PROVE  BudgetInv'
    <3>1. StampInv' /\ SentInv' /\ OperationInv' /\ AtMostOneActive'
      BY <2>1, <2>3, DecideKeeps DEF Writable
    <3>2. ibClock < MaxBudgetWrites
      BY <2>3 DEF MayDecide
    <3>3. /\ GroupType' /\ CountType' /\ ibWriters' \subseteq BudgetMembers
          /\ ibOp' \in [BudgetMembers -> OperationType \cup {NoOperation}]
          /\ ibFenced' \in [BudgetMembers -> BOOLEAN] /\ UNCHANGED ibProvider
      BY <1>0, <2>3, <3>2, DecideTyped
    <3>4. MemberType' /\ CallType' /\ EnsureInv'
      BY <1>0, <2>3, <3>3 DEF MemberType, CallType, EnsureInv
    <3> QED BY <3>1, <3>3, <3>4 DEF BudgetInv, IbTypeOK
  <2>4. ASSUME NEW p \in {"create", "reactivate", "over"}, EnsureTo(m, [ibEnsure[m] EXCEPT !.phase = p]),
               p = "reactivate" => ibEnsure[m].previous # {}
        PROVE  BudgetInv'
    <3>1. ibEnsure' \in [BudgetMembers -> [phase : PhasesOfEnsure, previous : SUBSET ScopeIds]] /\ EnsureInv'
      BY <2>4, <1>0 DEF EnsureTo, EnsureInv, MemberType
    <3>2. GroupType' /\ MemberType' /\ CallType' /\ CountType'
      BY <2>4, <3>1, <1>0 DEF EnsureTo, GroupType, MemberType, CallType, CountType
    <3>3. StampInv' /\ SentInv' /\ OperationInv' /\ AtMostOneActive'
      BY <2>4, QuietKeeps DEF EnsureTo
    <3> QED BY <3>1, <3>2, <3>3 DEF BudgetInv, IbTypeOK
  <2>5. MayDecide(m) => ibClock + 1 \in 0..MaxBudgetWrites
    BY <1>a DEF MayDecide
  <2>6. CASE ibEnsure[m].phase = "finish" /\ sc.state = "active" /\ MayDecide(m)
             /\ Decide(m, "finish", s, FirstScope, [sc EXCEPT !.state = "completed", !.stamp = ibClock + 1])
             /\ UNCHANGED <<ibCall, ibEnsure>>
    <3>1. s \in ScopeIds /\ sc \in ScopeType
      BY <2>2, <2>6, <1>c
    <3> HIDE DEF s, sc
    <3> QED BY <2>3, <2>5, <2>6, <3>1, RestatedTyped
  <2>7. CASE MayDecide(m) /\ Decide(m, "create", m, FirstScope, NewScope(ibClock + 1))
             /\ UNCHANGED <<ibCall, ibEnsure>>
    BY <2>3, <2>5, <2>7, NewScopeTyped DEF ScopeIds
  <2>8. CASE ibEnsure[m].phase = "reactivate" /\ MayDecide(m)
             /\ Decide(m, "reactivate", s, FirstScope, [sc EXCEPT !.state = "active", !.stamp = ibClock + 1])
             /\ UNCHANGED <<ibCall, ibEnsure>>
    <3>1. s \in ScopeIds /\ sc \in ScopeType
      BY <2>2, <2>8, <1>c
    <3> HIDE DEF s, sc
    <3> QED BY <2>3, <2>5, <2>8, <3>1, RestatedTyped
  <2> QED BY <1>7, <2>4, <2>6, <2>7, <2>8 DEF EnsureStep
<1>8. ASSUME NEW m \in BudgetMembers, MemberRestarts(m)
      PROVE  BudgetInv'
  <2>1. StampInv' /\ SentInv' /\ OperationInv' /\ AtMostOneActive'
    BY <1>8, <1>0, QuietKeeps DEF MemberRestarts, MemberType
  <2>2. GroupType' /\ CountType'
    BY <1>0, <1>a, <1>8 DEF MemberRestarts, GroupType, CountType
  <2>3. CallType'
    BY <1>0, <1>8 DEF MemberRestarts, CallType
  <2>4. ibOp' \in [BudgetMembers -> OperationType \cup {NoOperation}]
        /\ ibFenced' \in [BudgetMembers -> BOOLEAN] /\ ibWriters' \subseteq BudgetMembers
    BY <1>0, <1>8 DEF MemberRestarts, MemberType
  <2>5. PICK p \in {"unused", "over"} : ibEnsure' = [ibEnsure EXCEPT ![m].phase = p]
    BY <1>0, <1>8 DEF MemberRestarts, MemberType
  <2>6. ibEnsure' \in [BudgetMembers -> [phase : PhasesOfEnsure, previous : SUBSET ScopeIds]] /\ EnsureInv'
    BY <1>0, <2>5 DEF MemberType, EnsureInv
  <2>7. MemberType'
    BY <2>4, <2>6 DEF MemberType
  <2> QED BY <2>1, <2>2, <2>3, <2>6, <2>7 DEF BudgetInv, IbTypeOK
<1>9. ASSUME NEW m \in BudgetMembers, NEW i \in BudgetCalls, InvokeStarts(m, i)
      PROVE  BudgetInv'
  <2>1. StampInv' /\ SentInv' /\ OperationInv' /\ AtMostOneActive'
    BY <1>9, QuietKeeps DEF InvokeStarts
  <2>2. GroupType' /\ MemberType' /\ CountType' /\ EnsureInv'
    BY <1>0, <1>9 DEF InvokeStarts, GroupType, MemberType, CountType, EnsureInv
  <2> DEFINE x == CHOOSE s \in ActiveScopes(Local(m)) : TRUE
  <2>3. x \in ScopeIds
    <3>1. ActiveScopes(Local(m)) # {}
      BY <1>9, FS_EmptySet DEF InvokeStarts
    <3> QED BY <3>1 DEF ActiveScopes
  <2>4. ibCall' = [ibCall EXCEPT ![i] = [@ EXCEPT !.phase = "resolved", !.at = {m}, !.scope = x]]
        /\ UNCHANGED ibProvider
    BY <1>9 DEF InvokeStarts
  <2> HIDE DEF x
  <2>5. CallType'
    BY ZenonT(60), <1>0, <2>3, <2>4 DEF CallType
  <2> QED BY <2>1, <2>2, <2>5 DEF BudgetInv, IbTypeOK
<1>10. ASSUME NEW i \in BudgetCalls, NEW p \in PhasesOfCall, CallTo(i, p), ibProvider' \in [BudgetCalls ->
                  [state : {"none", "running", "ended"}, used : 0..(BudgetReservation + 1)]]
       PROVE  BudgetInv'
  <2>1. StampInv' /\ SentInv' /\ OperationInv' /\ AtMostOneActive'
    BY <1>10, QuietKeeps DEF CallTo
  <2>2. GroupType' /\ MemberType' /\ CountType' /\ EnsureInv'
    BY <1>0, <1>10 DEF CallTo, GroupType, MemberType, CountType, EnsureInv
  <2>3. CallType'
    BY ZenonT(60), <1>0, <1>10 DEF CallTo, CallType
  <2> QED BY <2>1, <2>2, <2>3 DEF BudgetInv, IbTypeOK
<1>11. ASSUME NEW m \in BudgetMembers, NEW i \in BudgetCalls, NEW kind \in {"reserve", "complete"},
              NEW p \in PhasesOfCall, NEW value \in ScopeType, MayDecide(m),
              Writable(ibCall[i].scope, value, ibClock + 1),
              Decide(m, kind, ibCall[i].scope, i, value),
              ibCall' = [ibCall EXCEPT ![i].phase = p], UNCHANGED ibEnsure
       PROVE  BudgetInv'
  <2>1. ibCall[i].scope \in ScopeIds
    BY <1>0 DEF CallType
  <2>2. ibOp[m] = NoOperation /\ ibClock < MaxBudgetWrites
    BY <1>11 DEF MayDecide
  <2>3. StampInv' /\ SentInv' /\ OperationInv' /\ AtMostOneActive'
    BY <1>11, <2>2, DecideKeeps
  <2>4. /\ GroupType' /\ CountType' /\ ibWriters' \subseteq BudgetMembers
        /\ ibOp' \in [BudgetMembers -> OperationType \cup {NoOperation}]
        /\ ibFenced' \in [BudgetMembers -> BOOLEAN] /\ UNCHANGED ibProvider
    BY <1>0, <1>11, <2>1, <2>2, DecideTyped
  <2>5. MemberType' /\ EnsureInv'
    BY <1>0, <1>11, <2>4 DEF MemberType, EnsureInv
  <2>6. CallType'
    BY ZenonT(60), <1>0, <1>11, <2>4 DEF CallType
  <2> QED BY <2>3, <2>4, <2>5, <2>6 DEF BudgetInv, IbTypeOK
<1>12. ASSUME NEW m \in BudgetMembers, NEW i \in BudgetCalls, ReserveProviderAttempt(m, i)
       PROVE  BudgetInv'
  <2> DEFINE sc == Local(m)[ibCall[i].scope]
             value == Reserved(sc, i, ibClock + 1)
  <2>1. CASE CallTo(i, "over") /\ UNCHANGED ibProvider
    BY <2>1, <1>0, <1>10 DEF CallType
  <2>2. CASE /\ MayDecide(m) /\ Decide(m, "reserve", ibCall[i].scope, i, value)
             /\ ibCall' = [ibCall EXCEPT ![i].phase = "reserving"] /\ UNCHANGED ibEnsure
    <3>1. sc \in ScopeType /\ ibClock + 1 \in 0..MaxBudgetWrites
      BY <1>0, <1>a, <1>c, <2>2 DEF CallType, MayDecide
    <3>2. value \in ScopeType /\ Writable(ibCall[i].scope, value, ibClock + 1)
      BY <3>1, ReservedTyped DEF Writable
    <3> HIDE DEF value
    <3> QED BY <1>11, <2>2, <3>2
  <2> QED BY <1>12, <2>1, <2>2 DEF ReserveProviderAttempt
<1>13. ASSUME NEW m \in BudgetMembers, NEW i \in BudgetCalls, CompleteProviderAttempt(m, i)
       PROVE  BudgetInv'
  <2> DEFINE sc == Local(m)[ibCall[i].scope]
             answer == IF ibCall[i].phase = "held" THEN NotCalled ELSE ibCall[i].answer
             value == Completed(sc, i, answer, ibClock + 1)
  <2>1. CASE CallTo(i, "over") /\ UNCHANGED ibProvider
    BY <2>1, <1>0, <1>10 DEF CallType
  <2>2. CASE /\ MayDecide(m) /\ Decide(m, "complete", ibCall[i].scope, i, value)
             /\ ibCall' = [ibCall EXCEPT ![i].phase = "completing"] /\ UNCHANGED ibEnsure
    <3>1. sc \in ScopeType /\ ibClock + 1 \in 0..MaxBudgetWrites
          /\ \E k \in Entries : sc = Ledger(k)[ibCall[i].scope]
      BY <1>0, <1>a, <1>c, <2>2 DEF CallType, MayDecide
    <3>2. answer \in AnswerType
      BY <1>0, BudgetAssumption DEF CallType, AnswerType, NotCalled
    <3> HIDE DEF answer, sc
    <3>3. value \in ScopeType /\ (value.stamp = ibClock + 1 \/ value = sc)
      BY <3>1, <3>2, CompletedTyped
    <3>4. Writable(ibCall[i].scope, value, ibClock + 1)
      BY <3>1, <3>3 DEF Writable
    <3> HIDE DEF value
    <3> QED BY <1>11, <2>2, <3>3, <3>4
  <2> QED BY <1>13, <2>1, <2>2 DEF CompleteProviderAttempt
<1>14. ASSUME NEW i \in BudgetCalls, CallProvider(i)
       PROVE  BudgetInv'
  BY <1>0, <1>10, <1>14 DEF CallProvider, CallType
<1>15. ASSUME NEW i \in BudgetCalls, NEW used \in {0, BudgetReservation, BudgetReservation + 1},
              ProviderEnds(i, used)
       PROVE  BudgetInv'
  <2>1. StampInv' /\ SentInv' /\ OperationInv' /\ AtMostOneActive'
    BY <1>15, QuietKeeps DEF ProviderEnds
  <2>2. GroupType' /\ MemberType' /\ CountType' /\ EnsureInv'
    BY <1>0, <1>15 DEF ProviderEnds, GroupType, MemberType, CountType, EnsureInv
  <2>3. used \in 0..(BudgetReservation + 1)
    BY BudgetAssumption
  <2>4. CallType'
    BY <1>0, <1>15, <2>3 DEF ProviderEnds, CallType
  <2> QED BY <2>1, <2>2, <2>4 DEF BudgetInv, IbTypeOK
<1>16. ASSUME NEW i \in BudgetCalls, NEW outcome \in {"reported", "unreported", "lost"},
              ConnectorReturns(i, outcome)
       PROVE  BudgetInv'
  <2>1. StampInv' /\ SentInv' /\ OperationInv' /\ AtMostOneActive'
    BY <1>16, QuietKeeps DEF ConnectorReturns
  <2>2. GroupType' /\ MemberType' /\ CountType' /\ EnsureInv'
    BY <1>0, <1>16 DEF ConnectorReturns, GroupType, MemberType, CountType, EnsureInv
  <2> DEFINE answer == [outcome |-> outcome, used |-> ibProvider[i].used]
  <2>3. answer \in AnswerType
    BY <1>0 DEF CallType, AnswerType
  <2>4. ibCall' = [ibCall EXCEPT ![i] = [@ EXCEPT !.phase = "answered", !.answer = answer]]
        /\ UNCHANGED ibProvider
    BY <1>16 DEF ConnectorReturns
  <2> HIDE DEF answer
  <2>5. CallType'
    BY ZenonT(60), <1>0, <2>3, <2>4 DEF CallType
  <2> QED BY <2>1, <2>2, <2>5 DEF BudgetInv, IbTypeOK
<1> QED BY <1>1, <1>2, <1>3, <1>4, <1>5, <1>6, <1>7, <1>8, <1>9, <1>12, <1>13, <1>14, <1>15, <1>16
        DEF IbNext

\* The invariant holds in every state of every behaviour.
THEOREM BudgetInvariant == IbSpec => []BudgetInv
BY BudgetStarts, BudgetStep, PTL DEF IbSpec

\* IbTypeOK: the ledger, the operations of the members and the calls keep their
\* shape (UpsertBudgetScope, ReserveProviderAttempt, CompleteProviderAttempt).
THEOREM BudgetTypeCorrect == IbSpec => []IbTypeOK
<1>1. BudgetInv => IbTypeOK
  BY DEF BudgetInv
<1> QED BY <1>1, BudgetInvariant, PTL

\* OneActiveScope: for any number of members that replace the scope of one
\* binding, roll back, time out and restart, no entry of the group makes two
\* scopes active (EnforceActiveSemanticBinding and the compared digest).
THEOREM OneScopeActive == IbSpec => []OneActiveScope
<1>1. BudgetInv => OneActiveScope
  <2> SUFFICES ASSUME BudgetInv PROVE OneActiveScope
    OBVIOUS
  <2>1. CASE ActiveScopes(Latest) = {}
    BY <2>1, FS_EmptySet DEF OneActiveScope
  <2>2. CASE ActiveScopes(Latest) # {}
    <3>1. PICK s : ActiveScopes(Latest) = {s}
      BY <2>2 DEF BudgetInv, AtMostOneActive
    <3> QED BY <3>1, FS_Singleton DEF OneActiveScope
  <2> QED BY <2>1, <2>2
<1> QED BY <1>1, BudgetInvariant, PTL

-----------------------------------------------------------------------------
(* Sums over a finite set, by its least counterexample in size.            *)

\* The sum of the values of a function.
Total(h) == FoldFunction(+, 0, h)

\* What the fold computes from a set: nothing, or a chosen value and the rest.
SumsUp(g, h, S) ==
    \A s \in SUBSET S : g[s] = IF s = {} THEN 0
                               ELSE h[CHOOSE x \in s : TRUE] + g[s \ {CHOOSE x \in s : TRUE}]
IsTotal(g, h, S) == g \in [SUBSET S -> Nat] /\ SumsUp(g, h, S)

\* A set of numbers has a least one.
LEMMA LeastNumber ==
    ASSUME NEW S \in SUBSET Nat, S # {}
    PROVE  \E n \in S : \A m \in S : n <= m
<1> DEFINE R == OpToRel(<, Nat)
<1>1. IsWellFoundedOn(R, Nat)
  BY NatLessThanWellFounded
<1>2. PICK n \in S : \A m \in S : ~(<<m, n>> \in R)
  BY <1>1, WFMin
<1>3. \A m \in S : ~(m < n)
  BY <1>2 DEF OpToRel
<1> QED BY <1>3

\* The rest is smaller.
LEMMA ChosenRest ==
    ASSUME NEW S, IsFiniteSet(S), NEW s \in SUBSET S, s # {}
    PROVE  LET e == CHOOSE x \in s : TRUE IN
           /\ e \in s /\ s \ {e} \in SUBSET S
           /\ Cardinality(s) \in Nat /\ Cardinality(s \ {e}) \in Nat
           /\ Cardinality(s \ {e}) = Cardinality(s) - 1
<1> DEFINE e == CHOOSE x \in s : TRUE
<1>1. e \in s
  OBVIOUS
<1>2. IsFiniteSet(s)
  BY FS_Subset
<1>3. Cardinality(s) \in Nat /\ IsFiniteSet(s \ {e}) /\ Cardinality(s \ {e}) = Cardinality(s) - 1
  BY <1>1, <1>2, FS_CardinalityType, FS_RemoveElement
<1>4. Cardinality(s \ {e}) \in Nat
  BY <1>3, FS_CardinalityType
<1> QED BY <1>1, <1>3, <1>4

\* Such a function exists: the least size of set for which none does has one.
LEMMA TotalExists ==
    ASSUME NEW S, IsFiniteSet(S), NEW h \in [S -> Nat]
    PROVE  \E g : IsTotal(g, h, S)
<1> DEFINE e(s) == CHOOSE x \in s : TRUE
           Recurs(g, s) == IF s = {} THEN 0 ELSE h[e(s)] + g[s \ {e(s)}]
           Upto(g, n) == g \in [SUBSET S -> Nat] /\ \A s \in SUBSET S : Cardinality(s) <= n => g[s] = Recurs(g, s)
           Bad == {n \in Nat : ~ \E g : Upto(g, n)}
<1>1. \A s \in SUBSET S : s # {} => /\ e(s) \in s /\ s \ {e(s)} \in SUBSET S
                                    /\ Cardinality(s) \in Nat /\ Cardinality(s \ {e(s)}) \in Nat
                                    /\ Cardinality(s \ {e(s)}) = Cardinality(s) - 1
  BY ChosenRest
<1>2. \A s \in SUBSET S : Cardinality(s) \in Nat /\ (Cardinality(s) = 0 => s = {}) /\ Cardinality(s) <= Cardinality(S)
  BY FS_Subset, FS_EmptySet, FS_CardinalityType
<1>3. \A g \in [SUBSET S -> Nat] : \A s \in SUBSET S : Recurs(g, s) \in Nat
  BY <1>1
<1> HIDE DEF e
<1>4. Upto([s \in SUBSET S |-> 0], 0)
  BY <1>2
<1>5. ASSUME NEW n \in Nat, NEW g, Upto(g, n)
      PROVE  Upto([s \in SUBSET S |-> Recurs(g, s)], n + 1)
  <2> DEFINE f == [s \in SUBSET S |-> Recurs(g, s)]
  <2>1. f \in [SUBSET S -> Nat]
    BY <1>3, <1>5
  <2>2. \A s \in SUBSET S : Cardinality(s) <= n => f[s] = g[s]
    BY <1>5
  <2>3. ASSUME NEW s \in SUBSET S, Cardinality(s) <= n + 1
        PROVE  f[s] = Recurs(f, s)
    <3>1. CASE s = {}
      BY <3>1
    <3>2. CASE s # {}
      <4>1. s \ {e(s)} \in SUBSET S /\ Cardinality(s \ {e(s)}) <= n
        BY <3>2, <1>1, <2>3
      <4>2. f[s \ {e(s)}] = g[s \ {e(s)}]
        BY <4>1, <2>2
      <4> QED BY <3>2, <4>2
    <3> QED BY <3>1, <3>2
  <2> QED BY <2>1, <2>3
<1>6. Bad = {}
  <2> SUFFICES ASSUME Bad # {} PROVE FALSE
    OBVIOUS
  <2>1. PICK n \in Bad : \A m \in Bad : n <= m
    BY LeastNumber
  <2> HIDE DEF Upto
  <2>2. n # 0
    BY <1>4
  <2>3. PICK m \in Nat : n = m + 1
    BY <2>2
  <2>4. m \notin Bad
    BY <2>1, <2>3
  <2> QED BY <2>3, <2>4, <1>5
<1>7. Cardinality(S) \in Nat
  BY FS_CardinalityType
<1>8. PICK g : Upto(g, Cardinality(S))
  BY <1>6, <1>7
<1>9. IsTotal(g, h, S)
  BY <1>2, <1>8 DEF IsTotal, SumsUp, e
<1> QED BY <1>9

\* Two folds agree where their values do.
LEMMA TotalUnique ==
    ASSUME NEW S, IsFiniteSet(S), NEW T \in SUBSET S, NEW g, NEW h, NEW f, NEW k,
           SumsUp(g, h, S), SumsUp(f, k, T), \A x \in T : h[x] = k[x]
    PROVE  \A s \in SUBSET T : g[s] = f[s]
<1> DEFINE Bad == {n \in Nat : \E s \in SUBSET T : Cardinality(s) = n /\ g[s] # f[s]}
<1>1. IsFiniteSet(T)
  BY FS_Subset
<1>2. \A s \in SUBSET T : Cardinality(s) \in Nat
  BY <1>1, FS_Subset, FS_CardinalityType
<1>3. SUFFICES ASSUME Bad # {} PROVE FALSE
  BY <1>2
<1>4. PICK n \in Bad : \A m \in Bad : n <= m
  <2>1. Bad \in SUBSET Nat
    OBVIOUS
  <2> HIDE DEF Bad
  <2> QED BY <2>1, <1>3, LeastNumber
<1>5. PICK s \in SUBSET T : Cardinality(s) = n /\ g[s] # f[s]
  BY <1>4
<1>6. s # {}
  BY <1>5 DEF SumsUp
<1> DEFINE e == CHOOSE x \in s : TRUE
<1>7. /\ e \in s /\ s \ {e} \in SUBSET T
      /\ Cardinality(s) \in Nat /\ Cardinality(s \ {e}) \in Nat
      /\ Cardinality(s \ {e}) = Cardinality(s) - 1
  BY <1>1, <1>6, ChosenRest
<1>8. g[s] = h[e] + g[s \ {e}] /\ f[s] = k[e] + f[s \ {e}]
  BY <1>6 DEF SumsUp
<1>9. h[e] = k[e]
  BY <1>7
<1> HIDE DEF e
<1>10. g[s \ {e}] # f[s \ {e}]
  BY <1>5, <1>8, <1>9
<1>11. Cardinality(s \ {e}) \in Bad
  BY <1>7, <1>10
<1>12. n \in Nat /\ n <= Cardinality(s \ {e})
  BY <1>4, <1>11
<1> HIDE DEF Bad
<1> QED BY <1>5, <1>7, <1>12

\* FoldFunction is such a fold.
LEMMA TotalIs ==
    ASSUME NEW S, IsFiniteSet(S), NEW h \in [S -> Nat]
    PROVE  \E g : IsTotal(g, h, S) /\ Total(h) = g[S]
<1> DEFINE Iter(g) == g = [s \in SUBSET S |-> IF s = {} THEN 0 ELSE h[CHOOSE x \in s : TRUE] + g[s \ {CHOOSE x \in s : TRUE}]]
           c == CHOOSE g : Iter(g)
<1>1. PICK f : IsTotal(f, h, S)
  BY TotalExists
<1>2. Iter(f)
  BY <1>1 DEF IsTotal, SumsUp
<1>3. Iter(c)
  BY <1>2
<1>4. Total(h) = c[S]
  BY DEF Total, FoldFunction, FoldFunctionOnSet, MapThenFoldSet
<1> HIDE DEF c
<1>5. SumsUp(c, h, S)
  BY <1>3 DEF SumsUp
<1>6. SumsUp(f, h, S)
  BY <1>1 DEF IsTotal
<1>7. c[S] = f[S]
  BY <1>5, <1>6, TotalUnique
<1> QED BY <1>1, <1>4, <1>7

\* A sum is a number, and that of the rest and one more value.
LEMMA TotalChosen ==
    ASSUME NEW S, IsFiniteSet(S), NEW h \in [S -> Nat]
    PROVE  /\ Total(h) \in Nat
           /\ S = {} => Total(h) = 0
           /\ S # {} => LET e == CHOOSE x \in S : TRUE IN
                        Total(h) = h[e] + Total([x \in S \ {e} |-> h[x]])
<1>1. PICK g : IsTotal(g, h, S) /\ Total(h) = g[S]
  BY TotalIs
<1>2. Total(h) \in Nat /\ (S = {} => Total(h) = 0)
  BY <1>1 DEF IsTotal, SumsUp
<1>3. ASSUME S # {}
      PROVE  LET e == CHOOSE x \in S : TRUE IN Total(h) = h[e] + Total([x \in S \ {e} |-> h[x]])
  <2> DEFINE e == CHOOSE x \in S : TRUE
             T == S \ {e}
             k == [x \in T |-> h[x]]
  <2>1. T \in SUBSET S /\ IsFiniteSet(T) /\ k \in [T -> Nat]
    BY FS_Subset
  <2>2. PICK f : IsTotal(f, k, T) /\ Total(k) = f[T]
    BY <2>1, TotalIs
  <2>3. Total(h) = h[e] + g[T]
    BY <1>1, <1>3 DEF IsTotal, SumsUp
  <2>4. \A x \in T : h[x] = k[x]
    OBVIOUS
  <2>5. SumsUp(g, h, S) /\ SumsUp(f, k, T)
    BY <1>1, <2>2 DEF IsTotal
  <2> HIDE DEF T, k, e
  <2>6. g[T] = f[T]
    BY <2>1, <2>4, <2>5, TotalUnique
  <2> QED BY <2>2, <2>3, <2>6 DEF T, k, e
<1> QED BY <1>2, <1>3

\* Any element may be taken first.
LEMMA TotalSplit ==
    ASSUME NEW S, IsFiniteSet(S), NEW h \in [S -> Nat], NEW i \in S
    PROVE  /\ Total(h) \in Nat /\ Total([x \in S \ {i} |-> h[x]]) \in Nat
           /\ Total(h) = h[i] + Total([x \in S \ {i} |-> h[x]])
<1> DEFINE Rest(T, j) == [x \in T \ {j} |-> h[x]]
           On(T) == [x \in T |-> h[x]]
           Splits(T) == \A j \in T : Total(On(T)) = h[j] + Total(On(T \ {j}))
           Bad == {n \in Nat : \E T \in SUBSET S : Cardinality(T) = n /\ ~Splits(T)}
<1>1. \A T \in SUBSET S : /\ IsFiniteSet(T) /\ Cardinality(T) \in Nat /\ On(T) \in [T -> Nat]
                          /\ Total(On(T)) \in Nat
  <2> SUFFICES ASSUME NEW T \in SUBSET S
               PROVE  IsFiniteSet(T) /\ Cardinality(T) \in Nat /\ On(T) \in [T -> Nat] /\ Total(On(T)) \in Nat
    OBVIOUS
  <2>1. IsFiniteSet(T) /\ Cardinality(T) \in Nat /\ On(T) \in [T -> Nat]
    BY FS_Subset, FS_CardinalityType
  <2> HIDE DEF On
  <2> QED BY <2>1, TotalChosen
<1>2. \A T \in SUBSET S : T # {} =>
         LET e == CHOOSE x \in T : TRUE IN
         /\ e \in T /\ Total(On(T)) = h[e] + Total(On(T \ {e}))
         /\ Cardinality(T \ {e}) \in Nat /\ Cardinality(T \ {e}) = Cardinality(T) - 1
  <2> SUFFICES ASSUME NEW T \in SUBSET S, T # {}
               PROVE  LET e == CHOOSE x \in T : TRUE IN
                      /\ e \in T /\ Total(On(T)) = h[e] + Total(On(T \ {e}))
                      /\ Cardinality(T \ {e}) \in Nat /\ Cardinality(T \ {e}) = Cardinality(T) - 1
    OBVIOUS
  <2> DEFINE e == CHOOSE x \in T : TRUE
             k == On(T)
  <2>1. /\ e \in T
        /\ Cardinality(T \ {e}) \in Nat /\ Cardinality(T \ {e}) = Cardinality(T) - 1
    BY ChosenRest
  <2>2. [x \in T \ {e} |-> k[x]] = On(T \ {e}) /\ k[e] = h[e]
    BY <2>1
  <2>3. k \in [T -> Nat] /\ IsFiniteSet(T)
    BY <1>1
  <2> HIDE DEF k
  <2>4. Total(k) = k[e] + Total([x \in T \ {e} |-> k[x]])
    BY <2>3, TotalChosen
  <2> HIDE DEF e, On
  <2>5. Total(k) = h[e] + Total(On(T \ {e}))
    BY <2>2, <2>4
  <2> QED BY <2>1, <2>5 DEF e, k
<1> HIDE DEF On
<1>3. ASSUME Bad # {} PROVE FALSE
  <2>1. PICK n \in Bad : \A m \in Bad : n <= m
    <3>1. Bad \in SUBSET Nat
      OBVIOUS
    <3> HIDE DEF Bad
    <3> QED BY <3>1, <1>3, LeastNumber
  <2>0. PICK T \in SUBSET S : Cardinality(T) = n /\ ~Splits(T)
    BY <2>1
  <2>2. PICK j \in T : Cardinality(T) = n /\ Total(On(T)) # h[j] + Total(On(T \ {j}))
    BY <2>0
  <2> DEFINE e == CHOOSE x \in T : TRUE
  <2>3. /\ e \in T /\ Total(On(T)) = h[e] + Total(On(T \ {e}))
        /\ Cardinality(T \ {e}) \in Nat /\ Cardinality(T \ {e}) = Cardinality(T) - 1
    BY <2>2, <1>2
  <2> HIDE DEF e
  <2>4. j # e /\ n \in Nat
    BY <2>1, <2>2, <2>3
  <2>5. Cardinality(T \ {j}) = n - 1
    BY <2>2, <1>1, FS_RemoveElement
  <2>6. Cardinality(T \ {e}) \notin Bad /\ Cardinality(T \ {j}) \notin Bad
    <3>1. Cardinality(T \ {e}) < n /\ Cardinality(T \ {j}) < n
      BY <2>2, <2>3, <2>4, <2>5
    <3>2. \A m \in Bad : m \in Nat
      OBVIOUS
    <3> HIDE DEF Bad
    <3>3. ASSUME NEW m \in Nat, m < n PROVE m \notin Bad
      BY <2>1, <2>4, <3>2, <3>3
    <3>4. Cardinality(T \ {e}) \in Nat /\ Cardinality(T \ {j}) \in Nat
      BY <2>2, <2>3, <2>5, <1>1
    <3> QED BY <3>1, <3>3, <3>4
  <2>7. Splits(T \ {e}) /\ Splits(T \ {j})
    <3>1. T \ {e} \in SUBSET S /\ T \ {j} \in SUBSET S
      BY <2>2
    <3>2. Cardinality(T \ {j}) \in Nat
      BY <3>1, <1>1
    <3> HIDE DEF Splits
    <3> QED BY <2>3, <2>6, <3>1, <3>2
  <2>8. Total(On(T \ {e})) = h[j] + Total(On((T \ {e}) \ {j}))
    BY <2>2, <2>4, <2>7
  <2>9. Total(On(T \ {j})) = h[e] + Total(On((T \ {j}) \ {e}))
    BY <2>3, <2>4, <2>7
  <2>10. (T \ {e}) \ {j} = (T \ {j}) \ {e}
    OBVIOUS
  <2>11. PICK rest : rest = Total(On((T \ {j}) \ {e}))
    OBVIOUS
  <2>12. rest \in Nat /\ h[e] \in Nat /\ h[j] \in Nat
    BY <2>2, <2>3, <2>11, <1>1
  <2>13. Total(On(T \ {e})) = h[j] + rest /\ Total(On(T \ {j})) = h[e] + rest
    BY <2>8, <2>9, <2>10, <2>11
  <2>14. Total(On(T)) = h[e] + (h[j] + rest) /\ Total(On(T)) # h[j] + (h[e] + rest)
    BY <2>2, <2>3, <2>13
  <2> QED BY <2>12, <2>14
<1>4. Splits(S)
  <2>1. S \in SUBSET S /\ Cardinality(S) \in Nat
    BY <1>1
  <2> HIDE DEF Splits
  <2> QED BY <1>3, <2>1
<1>5. On(S) = h /\ On(S \ {i}) = [x \in S \ {i} |-> h[x]]
  BY DEF On
<1> QED BY <1>1, <1>4, <1>5

\* Smaller values of a subset have a smaller sum.
LEMMA TotalBounded ==
    ASSUME NEW S, IsFiniteSet(S), NEW T \in SUBSET S, NEW h \in [S -> Nat], NEW k \in [T -> Nat],
           \A x \in T : k[x] <= h[x]
    PROVE  Total(k) <= Total(h)
<1> DEFINE On(f, U) == [x \in U |-> f[x]]
           Below(U) == Total(On(k, U \cap T)) <= Total(On(h, U))
           Bad == {n \in Nat : \E U \in SUBSET S : Cardinality(U) = n /\ ~Below(U)}
<1>1. ASSUME NEW U \in SUBSET S
      PROVE  /\ IsFiniteSet(U) /\ IsFiniteSet(U \cap T) /\ Cardinality(U) \in Nat
             /\ On(h, U) \in [U -> Nat] /\ On(k, U \cap T) \in [U \cap T -> Nat]
  BY FS_Subset, FS_CardinalityType
<1>2. ASSUME NEW U \in SUBSET S, NEW i \in U, Below(U \ {i})
      PROVE  Below(U)
  <2> DEFINE H == On(h, U)
             K == On(k, U \cap T)
  <2>1. /\ IsFiniteSet(U) /\ IsFiniteSet(U \cap T) /\ H \in [U -> Nat] /\ K \in [U \cap T -> Nat]
    BY <1>1
  <2>2. [x \in U \ {i} |-> H[x]] = On(h, U \ {i}) /\ H[i] = h[i] /\ h[i] \in Nat
    OBVIOUS
  <2>3. i \in T => [x \in (U \cap T) \ {i} |-> K[x]] = On(k, (U \ {i}) \cap T) /\ K[i] = k[i] /\ k[i] \in Nat
    <3>1. (U \cap T) \ {i} = (U \ {i}) \cap T
      OBVIOUS
    <3> QED BY <3>1
  <2>4. i \notin T => K = On(k, (U \ {i}) \cap T)
    <3>1. i \notin T => U \cap T = (U \ {i}) \cap T
      OBVIOUS
    <3> QED BY <3>1
  <2> HIDE DEF H, K, On
  <2>5. /\ Total(H) \in Nat /\ Total(On(h, U \ {i})) \in Nat
        /\ Total(H) = h[i] + Total(On(h, U \ {i}))
    <3>1. /\ Total(H) \in Nat /\ Total([x \in U \ {i} |-> H[x]]) \in Nat
          /\ Total(H) = H[i] + Total([x \in U \ {i} |-> H[x]])
      BY <2>1, TotalSplit
    <3> QED BY <3>1, <2>2
  <2>6. Total(K) \in Nat
    BY <2>1, TotalChosen
  <2>7. i \in T => /\ Total(On(k, (U \ {i}) \cap T)) \in Nat
                   /\ Total(K) = k[i] + Total(On(k, (U \ {i}) \cap T))
    <3> SUFFICES ASSUME i \in T
                 PROVE  /\ Total(On(k, (U \ {i}) \cap T)) \in Nat
                        /\ Total(K) = k[i] + Total(On(k, (U \ {i}) \cap T))
      OBVIOUS
    <3>1. /\ Total(K) \in Nat /\ Total([x \in (U \cap T) \ {i} |-> K[x]]) \in Nat
          /\ Total(K) = K[i] + Total([x \in (U \cap T) \ {i} |-> K[x]])
      BY <2>1, TotalSplit
    <3> QED BY <3>1, <2>3
  <2>8. PICK a, b : a = Total(On(k, (U \ {i}) \cap T)) /\ b = Total(On(h, U \ {i}))
    OBVIOUS
  <2>9. a <= b /\ b \in Nat
    BY <1>2, <2>5, <2>8
  <2>10. CASE i \in T
    <3>1. Total(K) = k[i] + a /\ a \in Nat /\ k[i] \in Nat /\ h[i] \in Nat /\ k[i] <= h[i] /\ Total(H) = h[i] + b
      BY <2>10, <2>7, <2>8, <2>2, <2>3, <2>5
    <3>2. Total(K) <= Total(H)
      BY <3>1, <2>9
    <3> QED BY <3>2 DEF H, K
  <2>11. CASE i \notin T
    <3>1. Total(K) = a /\ Total(H) = h[i] + b /\ h[i] \in Nat
      BY <2>11, <2>2, <2>4, <2>5, <2>8
    <3>2. Total(K) <= Total(H)
      BY <3>1, <2>6, <2>9
    <3> QED BY <3>2 DEF H, K
  <2> QED BY <2>10, <2>11
<1>3. Below({})
  <2>1. {} \in SUBSET S /\ {} \cap T = {}
    OBVIOUS
  <2>2. Total(On(h, {})) = 0 /\ Total(On(k, {} \cap T)) = 0
    <3> HIDE DEF On
    <3> QED BY <1>1, <2>1, TotalChosen
  <2> QED BY <2>2
<1> HIDE DEF Below
<1>4. ASSUME Bad # {} PROVE FALSE
  <2>1. PICK n \in Bad : \A m \in Bad : n <= m
    <3>1. Bad \in SUBSET Nat
      OBVIOUS
    <3> HIDE DEF Bad
    <3> QED BY <3>1, <1>4, LeastNumber
  <2>2. PICK U \in SUBSET S : Cardinality(U) = n /\ ~Below(U)
    BY <2>1
  <2>3. PICK i : i \in U
    BY <2>2, <1>3
  <2>4. ~Below(U \ {i})
    BY <2>2, <2>3, <1>2
  <2>5. n \in Nat /\ Cardinality(U \ {i}) = n - 1 /\ Cardinality(U \ {i}) \in Nat
    BY <2>2, <2>3, <1>1, FS_RemoveElement
  <2>6. Cardinality(U \ {i}) \in Bad
    BY <2>4, <2>5
  <2> HIDE DEF Bad
  <2> QED BY <2>1, <2>5, <2>6
<1>5. Below(S)
  BY <1>1, <1>4
<1>6. On(h, S) = h /\ On(k, S \cap T) = k
  <2>1. S \cap T = T
    OBVIOUS
  <2> QED BY <2>1
<1> QED BY <1>5, <1>6 DEF Below

-----------------------------------------------------------------------------
(* The limits of a scope when one member writes.                           *)

\* What counts of a charge: a reservation at most, since a completed attempt may
\* have used more than it had reserved.
Counted(a) == IF a.charged <= BudgetReservation THEN a.charged ELSE BudgetReservation
CountedTokens(sc) == Total([i \in BudgetCalls |-> Counted(sc.attempts[i])])

\* A scope that keeps its limits, and charges in full what may still run.
Fits(sc) ==
    /\ Cardinality(ActiveProviderCalls(sc)) <= MaxConcurrentCalls
    /\ CountedTokens(sc) <= MaxBudgetTokens
    /\ \A i \in ActiveProviderCalls(sc) : sc.attempts[i].charged = BudgetReservation

Absent(sc) == sc.state = "absent"
InHand == {"held", "calling", "answered"}

\* Only m acts for the binding.
AloneAtWork(m) ==
    /\ \A n \in BudgetMembers \ {m} : ibOp[n] = NoOperation /\ ibEnsure[n].phase = "unused"
    /\ \A i \in BudgetCalls : ibCall[i].at = IF ibCall[i].phase = "idle" THEN {} ELSE {m}

\* A call and the provider go together.
CallFlow ==
    \A i \in BudgetCalls :
        /\ ibProvider[i].state # "none" => ibCall[i].phase \in {"calling", "answered", "completing", "over"}
        /\ ibCall[i].phase \in {"calling", "answered"} => ibProvider[i].state # "none"
        /\ ibCall[i].phase = "answered" /\ ibCall[i].answer.outcome # "lost" =>
              ibProvider[i].state = "ended" /\ ibCall[i].answer.used = ibProvider[i].used

\* So do the operation and whose it is.
OperationFlow(m) ==
    ibOp[m] # NoOperation =>
        /\ ibOp[m].kind \in {"reserve", "complete"} =>
              /\ ibOp[m].inv \in BudgetCalls /\ ibOp[m].scope = ibCall[ibOp[m].inv].scope
              /\ ibCall[ibOp[m].inv].phase = IF ibOp[m].kind = "reserve" THEN "reserving" ELSE "completing"
        /\ ibOp[m].kind = "reserve" => ibOp[m].value.attempts[ibOp[m].inv].state = "reserved"
        /\ ibOp[m].kind = "create" => ibOp[m].scope = m /\ ibEnsure[m].phase = "create"
        /\ ibOp[m].kind = "finish" => ibEnsure[m].phase = "finish"

FlowInv(m) == AloneAtWork(m) /\ CallFlow /\ OperationFlow(m)

\* The log: a scope that exists stays, and no entry has the identity of a command
\* that is still on its way.
LogInv ==
    /\ \A j, k \in Entries : \A s \in ScopeIds : j <= k /\ Absent(Ledger(k)[s]) => Absent(Ledger(j)[s])
    /\ \A k \in Entries : ibLog[k].id <= ibClock /\ \A c \in ibSent : ibLog[k].id # c.id

\* Commands: what is allocated is absent, what is replaced is there and older.
CommandInv ==
    /\ \A c \in ibSent :
          /\ c.previous < c.id /\ c.value.stamp = c.id /\ ~Absent(c.value)
          /\ c.alloc => Absent(Latest[c.scope])
          /\ ~c.alloc => \E k \in Entries : Ledger(k)[c.scope].stamp = c.previous /\ ~Absent(Ledger(k)[c.scope])
    /\ \A c, d \in ibSent : c.alloc /\ d.alloc => c = d

\* Member m has not proposed to create its scope, so no command has.
Early(m) ==
    \/ ibEnsure[m].phase \in {"unused", "finish"}
    \/ /\ ibEnsure[m].phase = "create"
       /\ ibOp[m] # NoOperation => ibOp[m].kind # "create" \/ ibOp[m].phase = "read"
Uncreated(m) == (\A c \in ibSent : ~c.alloc) /\ (\A k \in Entries : Absent(Ledger(k)[m]))

\* The operation has the last identity.  Once it is in the log, it is the last
\* change of its scope, until it returns.
LastInv(m) ==
    /\ ibOp[m] # NoOperation =>
          /\ ibOp[m].id = ibClock /\ ibOp[m].value.stamp = ibClock /\ ~Absent(ibOp[m].value)
          /\ ibOp[m].kind # "create" => ~Absent(Local(m)[ibOp[m].scope])
          /\ ibOp[m].phase = "read" => \A k \in Entries : ibLog[k].id # ibClock
          /\ ibOp[m].phase = "sent" =>
                /\ \A c \in ibSent : c.id = ibClock => c.scope = ibOp[m].scope /\ c.value = ibOp[m].value
                /\ \A j, k \in Entries : k <= j /\ ibLog[k].id = ibClock /\ ibLog[k].ok =>
                      Ledger(j)[ibOp[m].scope] = ibOp[m].value
    /\ \A i \in BudgetCalls : ibCall[i].phase # "idle" => ~Absent(Local(m)[ibCall[i].scope])
    /\ Early(m) => Uncreated(m)

\* Every value keeps the limits: in the log, on its way to it, and decided on.
LimitInv(m) ==
    /\ \A k \in Entries : \A s \in ScopeIds : Fits(Ledger(k)[s])
    /\ \A c \in ibSent : Fits(c.value)
    /\ ibOp[m] # NoOperation => Fits(ibOp[m].value)

\* Value v of a scope accounts for a call and for what the provider does of it.
Covers(i, phase, provider, v) ==
    /\ phase \in InHand => v.attempts[i].state = "reserved"
    /\ provider.state = "running" => v.attempts[i].state \in {"reserved", "unknown"}
    /\ provider.state # "none" => Spending(provider) <= v.attempts[i].charged

\* So do the ledger that m has and all that follow, the commands that can still
\* replace its scope, and the value that m is about to propose.
CoverInv(m) ==
    \A i \in BudgetCalls :
        /\ \A k \in Entries : ibAt[m] <= k =>
              Covers(i, ibCall[i].phase, ibProvider[i], Ledger(k)[ibCall[i].scope])
        /\ \A c \in ibSent : c.scope = ibCall[i].scope /\ c.previous = Latest[ibCall[i].scope].stamp =>
              Covers(i, ibCall[i].phase, ibProvider[i], c.value)
        /\ ibOp[m] # NoOperation /\ ibOp[m].phase = "read" /\ ibOp[m].scope = ibCall[i].scope =>
              Covers(i, ibCall[i].phase, ibProvider[i], ibOp[m].value)

LoneInv(m) == FlowInv(m) /\ LogInv /\ CommandInv /\ LastInv(m) /\ LimitInv(m) /\ CoverInv(m)

Charges(sc) == [i \in BudgetCalls |-> sc.attempts[i].charged]
CountedCharges(sc) == [i \in BudgetCalls |-> Counted(sc.attempts[i])]

\* Nothing sums up to nothing.
LEMMA TotalNothing ==
    ASSUME NEW S, IsFiniteSet(S), NEW h \in [S -> Nat], \A x \in S : h[x] = 0
    PROVE  Total(h) = 0
<1> DEFINE zero == [s \in SUBSET S |-> 0]
<1>1. PICK g : IsTotal(g, h, S) /\ Total(h) = g[S]
  BY TotalIs
<1>2. SumsUp(zero, h, S)
  <2> SUFFICES ASSUME NEW s \in SUBSET S
               PROVE  zero[s] = IF s = {} THEN 0 ELSE h[CHOOSE x \in s : TRUE] + zero[s \ {CHOOSE x \in s : TRUE}]
    BY DEF SumsUp
  <2>1. CASE s = {}
    BY <2>1
  <2>2. CASE s # {}
    <3> DEFINE e == CHOOSE x \in s : TRUE
    <3>1. e \in S /\ s \ {e} \in SUBSET S
      BY <2>2
    <3>2. h[e] = 0 /\ zero[s \ {e}] = 0 /\ zero[s] = 0
      BY <3>1
    <3> QED BY <2>2, <3>2
  <2> QED BY <2>1, <2>2
<1>3. SumsUp(g, h, S)
  BY <1>1 DEF IsTotal
<1> HIDE DEF zero
<1>4. g[S] = zero[S]
  BY <1>2, <1>3, TotalUnique
<1> QED BY <1>1, <1>4 DEF zero

\* The charges of a scope, and what counts of them.
LEMMA ChargesTyped ==
    ASSUME NEW sc \in ScopeType
    PROVE  /\ IsFiniteSet(BudgetCalls) /\ BudgetReservation \in Nat
           /\ Charges(sc) \in [BudgetCalls -> Nat] /\ CountedCharges(sc) \in [BudgetCalls -> Nat]
           /\ CountedTokens(sc) = Total(CountedCharges(sc)) /\ ChargedTokens(sc) = Total(Charges(sc))
           /\ CountedTokens(sc) \in Nat /\ ChargedTokens(sc) \in Nat
           /\ \A i \in BudgetCalls : sc.attempts[i].charged \in Nat
<1>1. IsFiniteSet(BudgetCalls) /\ BudgetReservation \in Nat
  BY BudgetAssumption
<1>2. \A i \in BudgetCalls : sc.attempts[i].charged \in Nat
  <2>1. \A i \in BudgetCalls : sc.attempts[i].charged \in 0..(BudgetReservation + 1)
    BY DEF ScopeType
  <2> QED BY <1>1, <2>1
<1>3. Charges(sc) \in [BudgetCalls -> Nat] /\ CountedCharges(sc) \in [BudgetCalls -> Nat]
  BY <1>1, <1>2 DEF Charges, CountedCharges, Counted
<1>4. CountedTokens(sc) = Total(CountedCharges(sc)) /\ ChargedTokens(sc) = Total(Charges(sc))
  BY DEF CountedTokens, ChargedTokens, Total, CountedCharges, Charges
<1>5. Total(CountedCharges(sc)) \in Nat /\ Total(Charges(sc)) \in Nat
  BY <1>1, <1>3, TotalChosen
<1> QED BY <1>1, <1>2, <1>3, <1>4, <1>5

\* A new scope keeps its limits: it charges nothing.
LEMMA FitsNew == \A t \in 0..MaxBudgetWrites : Fits(NewScope(t)) /\ Fits(NoScope)
<1>1. ASSUME NEW sc \in ScopeType, \A i \in BudgetCalls : sc.attempts[i].state = "none" /\ sc.attempts[i].charged = 0
      PROVE  Fits(sc)
  <2>1. ActiveProviderCalls(sc) = {}
    BY <1>1 DEF ActiveProviderCalls
  <2>2. \A i \in BudgetCalls : CountedCharges(sc)[i] = 0
    BY <1>1, BudgetAssumption DEF CountedCharges, Counted
  <2>3. CountedTokens(sc) = 0
    BY <2>2, ChargesTyped, TotalNothing
  <2>4. 0 <= MaxConcurrentCalls /\ 0 <= MaxBudgetTokens
    BY BudgetAssumption
  <2> QED BY <2>1, <2>3, <2>4, FS_EmptySet DEF Fits
<1>2. 0 \in 0..MaxBudgetWrites
  BY BudgetAssumption
<1>3. NewScope(0) \in ScopeType
  BY <1>2, NewScopeTyped
<1>4. NoScope \in ScopeType
  BY <1>3 DEF NoScope, ScopeType
<1>5. Fits(NoScope)
  BY <1>1, <1>4 DEF NoScope, NewScope, NotReserved
<1>6. ASSUME NEW t \in 0..MaxBudgetWrites PROVE Fits(NewScope(t))
  <2>1. NewScope(t) \in ScopeType
    BY NewScopeTyped
  <2> QED BY <1>1, <2>1 DEF NewScope, NotReserved
<1> QED BY <1>5, <1>6

\* reserveBudgetAttempt adds one call and one reservation, when there is room.
LEMMA FitsReserved ==
    ASSUME NEW sc \in ScopeType, NEW i \in BudgetCalls, NEW t \in 0..MaxBudgetWrites, Fits(sc), MayReserve(sc)
    PROVE  Fits(Reserved(sc, i, t))
<1> DEFINE v == Reserved(sc, i, t)
<1>1. v \in ScopeType
  BY ReservedTyped
<1>2. /\ v.attempts[i].state = "reserved" /\ v.attempts[i].charged = BudgetReservation
      /\ \A x \in BudgetCalls \ {i} : v.attempts[x] = sc.attempts[x]
  BY DEF Reserved, ScopeType
<1> HIDE DEF v
<1>3. Cardinality(ActiveProviderCalls(v)) <= MaxConcurrentCalls
  <2> DEFINE old == ActiveProviderCalls(sc)
  <2>1. ActiveProviderCalls(v) = old \cup {i}
    BY <1>2 DEF ActiveProviderCalls
  <2>2. IsFiniteSet(old)
    BY BudgetAssumption, FS_Subset DEF ActiveProviderCalls
  <2>3. Cardinality(old) < MaxConcurrentCalls
    BY DEF MayReserve
  <2> HIDE DEF old
  <2>4. Cardinality(old) \in Nat /\ (Cardinality(old \cup {i}) = Cardinality(old) \/ Cardinality(old \cup {i}) = Cardinality(old) + 1)
    BY <2>2, FS_CardinalityType, FS_AddElement
  <2>5. MaxConcurrentCalls \in Nat
    BY BudgetAssumption
  <2> QED BY <2>1, <2>3, <2>4, <2>5
<1>4. CountedTokens(v) <= MaxBudgetTokens
  <2> DEFINE rest == [x \in BudgetCalls \ {i} |-> CountedCharges(v)[x]]
  <2>1. CountedCharges(v)[i] = BudgetReservation
    BY <1>2 DEF CountedCharges, Counted
  <2>2. rest \in [BudgetCalls \ {i} -> Nat]
    BY <1>1, ChargesTyped
  <2>3. \A x \in BudgetCalls \ {i} : rest[x] <= Charges(sc)[x]
    <3> SUFFICES ASSUME NEW x \in BudgetCalls \ {i} PROVE rest[x] <= Charges(sc)[x]
      OBVIOUS
    <3>1. rest[x] = Counted(sc.attempts[x]) /\ Charges(sc)[x] = sc.attempts[x].charged
      BY <1>2 DEF CountedCharges, Charges
    <3>2. sc.attempts[x].charged \in Nat /\ BudgetReservation \in Nat
      BY ChargesTyped
    <3> HIDE DEF rest
    <3> QED BY <3>1, <3>2 DEF Counted
  <2>4. Total(CountedCharges(v)) = BudgetReservation + Total(rest) /\ Total(rest) \in Nat
    <3>1. Total(CountedCharges(v)) = CountedCharges(v)[i] + Total(rest) /\ Total(rest) \in Nat
      <4>1. PICK h : h = CountedCharges(v)
        OBVIOUS
      <4>2. h \in [BudgetCalls -> Nat] /\ IsFiniteSet(BudgetCalls)
        BY <1>1, <4>1, ChargesTyped
      <4>3. /\ Total(h) = h[i] + Total([x \in BudgetCalls \ {i} |-> h[x]])
            /\ Total([x \in BudgetCalls \ {i} |-> h[x]]) \in Nat
        BY <4>2, TotalSplit
      <4> QED BY <4>1, <4>3
    <3> QED BY <2>1, <3>1
  <2> HIDE DEF rest
  <2>5. Total(rest) <= Total(Charges(sc))
    BY <2>2, <2>3, ChargesTyped, TotalBounded
  <2>6. ChargedTokens(sc) + BudgetReservation <= MaxBudgetTokens
    BY DEF MayReserve
  <2>7. ChargedTokens(sc) = Total(Charges(sc)) /\ ChargedTokens(sc) \in Nat /\ BudgetReservation \in Nat
        /\ CountedTokens(v) = Total(CountedCharges(v))
    BY <1>1, ChargesTyped
  <2>8. MaxBudgetTokens \in Nat
    BY BudgetAssumption
  <2> QED BY <2>4, <2>5, <2>6, <2>7, <2>8
<1>5. \A x \in ActiveProviderCalls(v) : v.attempts[x].charged = BudgetReservation
  BY <1>2 DEF Fits, ActiveProviderCalls
<1> QED BY <1>3, <1>4, <1>5 DEF Fits, v

\* completeBudgetAttempt charges what the provider reports, which counts no more
\* than the reservation.
LEMMA FitsCompleted ==
    ASSUME NEW sc \in ScopeType, NEW i \in BudgetCalls, NEW t \in 0..MaxBudgetWrites, NEW answer \in AnswerType, Fits(sc)
    PROVE  Fits(Completed(sc, i, answer, t))
<1> DEFINE v == Completed(sc, i, answer, t)
<1>1. v \in ScopeType
  BY CompletedTyped
<1>2. CASE sc.attempts[i].state # "reserved"
  BY <1>2 DEF Completed
<1>3. CASE sc.attempts[i].state = "reserved"
  <2>1. /\ \A x \in BudgetCalls \ {i} : v.attempts[x] = sc.attempts[x]
        /\ v.attempts[i].state = IF answer.outcome = "lost" THEN "unknown" ELSE "known"
        /\ v.attempts[i].charged = IF answer.outcome = "reported" THEN answer.used ELSE sc.attempts[i].charged
    BY <1>3 DEF Completed, ScopeType
  <2> HIDE DEF v
  <2>2. ActiveProviderCalls(v) \subseteq ActiveProviderCalls(sc)
    BY <1>3, <2>1 DEF ActiveProviderCalls
  <2>3. sc.attempts[i].charged = BudgetReservation
    BY <1>3 DEF Fits, ActiveProviderCalls
  <2>4. \A x \in BudgetCalls : CountedCharges(v)[x] <= CountedCharges(sc)[x]
    <3> SUFFICES ASSUME NEW x \in BudgetCalls PROVE CountedCharges(v)[x] <= CountedCharges(sc)[x]
      OBVIOUS
    <3>1. CountedCharges(v)[x] = Counted(v.attempts[x]) /\ CountedCharges(sc)[x] = Counted(sc.attempts[x])
      BY DEF CountedCharges
    <3>2. sc.attempts[x].charged \in Nat /\ v.attempts[x].charged \in Nat /\ BudgetReservation \in Nat
      BY <1>1, ChargesTyped
    <3>3. CASE x = i
      <4>1. Counted(sc.attempts[x]) = BudgetReservation
        BY <3>2, <3>3, <2>3 DEF Counted
      <4>2. Counted(v.attempts[x]) <= BudgetReservation
        BY <3>2 DEF Counted
      <4> QED BY <3>1, <4>1, <4>2
    <3>4. CASE x # i
      <4>1. v.attempts[x] = sc.attempts[x]
        BY <3>4, <2>1
      <4> QED BY <4>1, <3>1, <3>2 DEF Counted
    <3> QED BY <3>3, <3>4
  <2>5. CountedTokens(v) <= CountedTokens(sc)
    <3>1. CountedCharges(v) \in [BudgetCalls -> Nat] /\ CountedCharges(sc) \in [BudgetCalls -> Nat] /\ IsFiniteSet(BudgetCalls)
      BY <1>1, ChargesTyped
    <3>2. Total(CountedCharges(v)) <= Total(CountedCharges(sc))
      BY <2>4, <3>1, TotalBounded
    <3> QED BY <1>1, <3>2, ChargesTyped
  <2>6. Cardinality(ActiveProviderCalls(v)) <= Cardinality(ActiveProviderCalls(sc))
        /\ Cardinality(ActiveProviderCalls(v)) \in Nat /\ Cardinality(ActiveProviderCalls(sc)) \in Nat
    <3>1. IsFiniteSet(ActiveProviderCalls(sc))
      BY BudgetAssumption, FS_Subset DEF ActiveProviderCalls
    <3> QED BY <2>2, <3>1, FS_Subset, FS_CardinalityType
  <2>7. CountedTokens(v) \in Nat /\ CountedTokens(sc) \in Nat /\ MaxBudgetTokens \in Nat /\ MaxConcurrentCalls \in Nat
    BY <1>1, ChargesTyped, BudgetAssumption
  <2>8. Cardinality(ActiveProviderCalls(v)) <= MaxConcurrentCalls /\ CountedTokens(v) <= MaxBudgetTokens
    BY <2>5, <2>6, <2>7 DEF Fits
  <2>9. \A x \in ActiveProviderCalls(v) : v.attempts[x].charged = BudgetReservation
    <3> SUFFICES ASSUME NEW x \in ActiveProviderCalls(v) PROVE v.attempts[x].charged = BudgetReservation
      OBVIOUS
    <3>1. x \in ActiveProviderCalls(sc) /\ x \in BudgetCalls
      BY <2>2 DEF ActiveProviderCalls
    <3>2. x = i => answer.outcome = "lost"
      BY <2>1 DEF ActiveProviderCalls
    <3> QED BY <3>1, <3>2, <2>1, <2>3 DEF Fits
  <2> QED BY <2>8, <2>9 DEF Fits, v
<1> QED BY <1>2, <1>3

\* A scope that counts its calls and their tokens bounds what the provider does.
LEMMA CoveredLimits ==
    ASSUME NEW sc \in ScopeType, Fits(sc), CallType, NEW s,
           \A i \in CallsOf(s) : Covers(i, ibCall[i].phase, ibProvider[i], sc)
    PROVE  /\ Cardinality({i \in CallsOf(s) : ibProvider[i].state = "running"}) <= MaxConcurrentCalls
           /\ Spent(s) <= MaxBudgetTokens
<1> DEFINE running == {i \in CallsOf(s) : ibProvider[i].state = "running"}
           spent == [i \in CallsOf(s) |-> Spending(ibProvider[i])]
<1>1. CallsOf(s) \in SUBSET BudgetCalls /\ IsFiniteSet(BudgetCalls) /\ MaxBudgetTokens \in Nat /\ MaxConcurrentCalls \in Nat
      /\ BudgetReservation \in Nat
  BY BudgetAssumption DEF CallsOf
<1>2. Cardinality(running) <= MaxConcurrentCalls
  <2>1. running \subseteq ActiveProviderCalls(sc)
    <3> SUFFICES ASSUME NEW i \in running PROVE i \in ActiveProviderCalls(sc)
      OBVIOUS
    <3>1. i \in BudgetCalls /\ sc.attempts[i].state \in {"reserved", "unknown"}
      BY DEF Covers, CallsOf
    <3> QED BY <3>1 DEF ActiveProviderCalls
  <2>2. IsFiniteSet(ActiveProviderCalls(sc))
    BY <1>1, FS_Subset DEF ActiveProviderCalls
  <2> HIDE DEF running
  <2>3. Cardinality(running) <= Cardinality(ActiveProviderCalls(sc))
        /\ Cardinality(running) \in Nat /\ Cardinality(ActiveProviderCalls(sc)) \in Nat
    BY <2>1, <2>2, FS_Subset, FS_CardinalityType
  <2> QED BY <1>1, <2>3 DEF Fits
<1>3. ASSUME NEW i \in CallsOf(s)
      PROVE  /\ Spending(ibProvider[i]) \in Nat
             /\ Spending(ibProvider[i]) <= CountedCharges(sc)[i]
  <2>1. i \in BudgetCalls /\ ibProvider[i].state # "none"
    BY DEF CallsOf
  <2>2. ibProvider[i].used \in Nat
    <3>1. ibProvider[i].used \in 0..(BudgetReservation + 1)
      BY <2>1 DEF CallType
    <3> QED BY <3>1, <1>1
  <2>3. Spending(ibProvider[i]) \in Nat /\ Spending(ibProvider[i]) <= BudgetReservation
    BY <1>1, <2>2 DEF Spending
  <2>4. Spending(ibProvider[i]) <= sc.attempts[i].charged
    BY <2>1 DEF Covers
  <2>5. CountedCharges(sc)[i] = Counted(sc.attempts[i])
    BY <2>1 DEF CountedCharges
  <2> QED BY <2>3, <2>4, <2>5 DEF Counted
<1>4. spent \in [CallsOf(s) -> Nat] /\ \A i \in CallsOf(s) : spent[i] <= CountedCharges(sc)[i]
  BY <1>3
<1>5. Spent(s) = Total(spent)
  BY DEF Spent, Total
<1> HIDE DEF spent
<1>6. Total(spent) <= Total(CountedCharges(sc))
  BY <1>1, <1>4, ChargesTyped, TotalBounded
<1>7. Total(spent) \in Nat
  BY <1>1, <1>4, FS_Subset, TotalChosen
<1>8. Total(CountedCharges(sc)) = CountedTokens(sc) /\ CountedTokens(sc) \in Nat /\ CountedTokens(sc) <= MaxBudgetTokens
  BY ChargesTyped DEF Fits
<1> QED BY <1>1, <1>2, <1>5, <1>6, <1>7, <1>8

\* The types of what the invariant is about.
LEMMA LoneTypes ==
    ASSUME BudgetInv, NEW m \in BudgetMembers
    PROVE  /\ \A k \in Entries : \A s \in ScopeIds : Ledger(k)[s] \in ScopeType
           /\ \A c \in ibSent : c \in CommandType /\ c.value \in ScopeType /\ c.scope \in ScopeIds
           /\ ibOp[m] # NoOperation => ibOp[m] \in OperationType /\ ibOp[m].value \in ScopeType /\ ibOp[m].scope \in ScopeIds
           /\ \A i \in BudgetCalls : ibCall[i].scope \in ScopeIds
           /\ ibAt[m] \in Entries /\ Local(m) = Ledger(ibAt[m]) /\ Latest = Ledger(Len(ibLog)) /\ Len(ibLog) \in Entries
           /\ Entries \subseteq Nat /\ \A k \in Entries : k <= Len(ibLog)
           /\ ibClock \in Nat /\ \A k \in Entries : ibLog[k].id \in Nat
<1>1. IbTypeOK /\ GroupType
  BY DEF BudgetInv, IbTypeOK
<1>2. \A k \in Entries : \A s \in ScopeIds : Ledger(k)[s] \in ScopeType
  BY <1>1, LedgerTyped DEF LedgerType
<1>3. \A c \in ibSent : c \in CommandType /\ c.value \in ScopeType /\ c.scope \in ScopeIds
  BY <1>1 DEF GroupType, CommandType
<1>4. ibOp[m] # NoOperation => ibOp[m] \in OperationType /\ ibOp[m].value \in ScopeType /\ ibOp[m].scope \in ScopeIds
  <2>1. ibOp[m] # NoOperation => ibOp[m] \in OperationType
    BY <1>1 DEF IbTypeOK, MemberType
  <2>2. \A op \in OperationType : op.value \in ScopeType /\ op.scope \in ScopeIds
    BY DEF OperationType
  <2> QED BY <2>1, <2>2
<1>5. \A i \in BudgetCalls : ibCall[i].scope \in ScopeIds
  BY <1>1 DEF IbTypeOK, CallType
<1>6. ibAt[m] \in Entries /\ Local(m) = Ledger(ibAt[m]) /\ Latest = Ledger(Len(ibLog)) /\ Len(ibLog) \in Entries
  BY <1>1, LedgerTyped
<1>7. Len(ibLog) \in Nat
  BY <1>1 DEF GroupType
<1>8. Entries \subseteq Nat /\ \A k \in Entries : k <= Len(ibLog)
  BY <1>7 DEF Entries
<1>9. ibClock \in Nat
  BY <1>1, BudgetAssumption DEF IbTypeOK, CountType
<1>10. \A k \in Entries : ibLog[k].id \in Nat
  <2> DEFINE Entry == [id : Nat, ok : BOOLEAN, ledger : LedgerType]
  <2>1. ibLog \in Seq(Entry)
    BY <1>1 DEF GroupType
  <2>2. \A e \in Entry : e.id \in Nat
    OBVIOUS
  <2> HIDE DEF Entry
  <2>3. \A k \in Entries : ibLog[k] \in Entry
    BY <2>1 DEF Entries
  <2> QED BY <2>2, <2>3
<1> QED BY <1>2, <1>3, <1>4, <1>5, <1>6, <1>8, <1>9, <1>10

\* Steps that leave the log and the commands alone.
LEMMA LogStays ==
    ASSUME UNCHANGED ibLog
    PROVE  Entries' = Entries /\ Latest' = Latest /\ \A k : Ledger(k)' = Ledger(k)
BY DEF Entries, Latest, Ledger

\* What stays when only calls and operations change, and no operation begins.
LEMMA QuietLone ==
    ASSUME NEW m \in BudgetMembers, LoneInv(m), UNCHANGED <<ibLog, ibSent, ibClock, ibAt>>,
           ibOp'[m] \in {ibOp[m], NoOperation},
           \A i \in BudgetCalls : ibCall'[i].phase # "idle" => ~Absent(Local(m)[ibCall'[i].scope]),
           Early(m)' => Early(m)
    PROVE  LogInv' /\ CommandInv' /\ LastInv(m)' /\ LimitInv(m)'
<1>1. Entries' = Entries /\ Latest' = Latest /\ Local(m)' = Local(m) /\ \A k : Ledger(k)' = Ledger(k)
  BY LogStays DEF Local, Ledger
<1>2. LogInv'
  BY <1>1 DEF LoneInv, LogInv
<1>3. CommandInv'
  BY <1>1 DEF LoneInv, CommandInv
<1>4. LimitInv(m)'
  BY <1>1 DEF LoneInv, LimitInv
<1>5. Uncreated(m)' <=> Uncreated(m)
  BY <1>1 DEF Uncreated
<1>6. LastInv(m)'
  <2>1. Early(m)' => Uncreated(m)'
    BY <1>5 DEF LoneInv, LastInv
  <2>2. CASE ibOp'[m] = NoOperation
    BY <1>1, <2>1, <2>2 DEF LastInv
  <2>3. CASE ibOp'[m] = ibOp[m]
    BY <1>1, <2>1, <2>3 DEF LoneInv, LastInv
  <2> QED BY <2>2, <2>3
<1> QED BY <1>2, <1>3, <1>4, <1>6

\* The same for what covers the calls: each call keeps its scope and what covered
\* it, or there is nothing to cover.
LEMMA QuietCovers ==
    ASSUME BudgetInv, NEW m \in BudgetMembers, LimitInv(m), CoverInv(m), UNCHANGED <<ibLog, ibSent, ibAt>>,
           ibOp'[m] \in {ibOp[m], NoOperation},
           \A i \in BudgetCalls :
              \/ ibCall'[i].phase \notin InHand /\ ibProvider'[i].state = "none"
              \/ /\ ibCall'[i].scope = ibCall[i].scope
                 /\ \A v \in ScopeType : Fits(v) /\ Covers(i, ibCall[i].phase, ibProvider[i], v) =>
                                         Covers(i, ibCall'[i].phase, ibProvider'[i], v)
    PROVE  CoverInv(m)'
<1>1. Entries' = Entries /\ Latest' = Latest /\ \A k : Ledger(k)' = Ledger(k)
  BY LogStays
<1> SUFFICES ASSUME NEW i \in BudgetCalls
             PROVE  /\ \A k \in Entries : ibAt[m] <= k =>
                          Covers(i, ibCall'[i].phase, ibProvider'[i], Ledger(k)[ibCall'[i].scope])
                    /\ \A c \in ibSent : c.scope = ibCall'[i].scope /\ c.previous = Latest[ibCall'[i].scope].stamp =>
                          Covers(i, ibCall'[i].phase, ibProvider'[i], c.value)
                    /\ ibOp'[m] # NoOperation /\ ibOp'[m].phase = "read" /\ ibOp'[m].scope = ibCall'[i].scope =>
                          Covers(i, ibCall'[i].phase, ibProvider'[i], ibOp'[m].value)
  BY <1>1 DEF CoverInv
<1>2. CASE ibCall'[i].phase \notin InHand /\ ibProvider'[i].state = "none"
  BY <1>2 DEF Covers
<1>3. CASE /\ ibCall'[i].scope = ibCall[i].scope
           /\ \A v \in ScopeType : Fits(v) /\ Covers(i, ibCall[i].phase, ibProvider[i], v) =>
                                   Covers(i, ibCall'[i].phase, ibProvider'[i], v)
  <2>1. \A k \in Entries : Ledger(k)[ibCall[i].scope] \in ScopeType /\ Fits(Ledger(k)[ibCall[i].scope])
    BY LoneTypes DEF LimitInv
  <2>2. \A c \in ibSent : c.value \in ScopeType /\ Fits(c.value)
    BY LoneTypes DEF LimitInv
  <2>3. ibOp[m] # NoOperation => ibOp[m].value \in ScopeType /\ Fits(ibOp[m].value)
    BY LoneTypes DEF LimitInv
  <2> QED BY <1>3, <2>1, <2>2, <2>3 DEF CoverInv
<1> QED BY <1>2, <1>3

\* A decision: the value keeps the limits, is new and of a scope that exists unless
\* it creates it, and accounts for the calls.
LEMMA DecideLone ==
    ASSUME BudgetInv, NEW m \in BudgetMembers, LoneInv(m),
           NEW kind, NEW s, NEW i, NEW value, Decide(m, kind, s, i, value), ibOp[m] = NoOperation,
           value.stamp = ibClock + 1, ~Absent(value), Fits(value),
           kind # "create" => ~Absent(Local(m)[s]),
           \A j \in BudgetCalls : /\ ibCall'[j].scope = ibCall[j].scope
                                  /\ ibCall'[j].phase # "idle" => ibCall[j].phase # "idle"
                                  /\ ibCall'[j].phase \in InHand => ibCall[j].phase \in InHand
                                  /\ s = ibCall[j].scope => Covers(j, ibCall'[j].phase, ibProvider[j], value),
           UNCHANGED ibEnsure
    PROVE  LogInv' /\ CommandInv' /\ LastInv(m)' /\ LimitInv(m)' /\ CoverInv(m)'
<1>1. /\ Entries' = Entries /\ Latest' = Latest /\ Local(m)' = Local(m) /\ (\A k : Ledger(k)' = Ledger(k))
      /\ UNCHANGED <<ibLog, ibSent, ibAt, ibProvider>> /\ ibClock' = ibClock + 1
  BY LogStays DEF Local, Ledger, Decide
<1>2. PICK op : op = ibOp'[m]
  OBVIOUS
<1>3. /\ op # NoOperation /\ op.kind = kind /\ op.scope = s /\ op.value = value /\ op.id = ibClock + 1 /\ op.phase = "read"
  <2>1. ibOp \in [BudgetMembers -> OperationType \cup {NoOperation}]
    BY DEF BudgetInv, IbTypeOK, MemberType
  <2>2. op = [kind |-> kind, scope |-> s, inv |-> i, value |-> value, id |-> ibClock + 1, phase |-> "read"]
    BY <1>2, <2>1 DEF Decide
  <2> QED BY <2>2 DEF NoOperation
<1>4. ibClock \in Nat /\ \A k \in Entries : ibLog[k].id \in Nat /\ ibLog[k].id <= ibClock
  BY LoneTypes DEF LoneInv, LogInv
<1>5. LogInv'
  BY <1>1, <1>4 DEF LoneInv, LogInv
<1>6. CommandInv'
  BY <1>1 DEF LoneInv, CommandInv
<1>7. LimitInv(m)'
  BY <1>1, <1>2, <1>3 DEF LoneInv, LimitInv
<1>8. LastInv(m)'
  <2>1. Early(m)' => Early(m)
    BY DEF Early
  <2>2. Uncreated(m) => Uncreated(m)'
    BY <1>1 DEF Uncreated
  <2>3. Early(m)' => Uncreated(m)'
    BY <2>1, <2>2 DEF LoneInv, LastInv
  <2>4. \A k \in Entries : ibLog[k].id # ibClock + 1
    BY <1>4
  <2>5. \A j \in BudgetCalls : ibCall'[j].phase # "idle" => ~Absent(Local(m)[ibCall'[j].scope])
    BY DEF LoneInv, LastInv
  <2> QED BY <1>1, <1>2, <1>3, <2>3, <2>4, <2>5 DEF LastInv
<1>9. CoverInv(m)'
  <2>1. \A j \in BudgetCalls : \A v : Covers(j, ibCall[j].phase, ibProvider[j], v) =>
                                      Covers(j, ibCall'[j].phase, ibProvider[j], v)
    BY DEF Covers
  <2>2. \A j \in BudgetCalls : op.scope = ibCall'[j].scope => Covers(j, ibCall'[j].phase, ibProvider[j], op.value)
    BY <1>3
  <2> QED BY <1>1, <1>2, <2>1, <2>2 DEF LoneInv, CoverInv
<1> QED BY <1>5, <1>6, <1>7, <1>8, <1>9

\* Applying an entry: what m has of a scope is what it was, or a later value.
LEMMA ApplyLone ==
    ASSUME BudgetInv, NEW m \in BudgetMembers, LoneInv(m), ApplyCommand(m)
    PROVE  LoneInv(m)'
<1>1. /\ Entries' = Entries /\ Latest' = Latest /\ (\A k : Ledger(k)' = Ledger(k))
      /\ UNCHANGED <<ibLog, ibSent, ibOp, ibCall, ibProvider, ibEnsure, ibClock>>
      /\ ibAt[m] < Len(ibLog)
  BY LogStays DEF ApplyCommand
<1>2. ibAt'[m] = ibAt[m] + 1 /\ ibAt[m] \in Nat /\ ibAt[m] \in Entries
  <2>1. ibAt \in [BudgetMembers -> 1..Len(ibLog)]
    BY DEF BudgetInv, IbTypeOK, GroupType
  <2> QED BY <2>1, LoneTypes DEF ApplyCommand
<1>3. ibAt'[m] \in Entries /\ ibAt[m] <= ibAt'[m]
  BY <1>1, <1>2, LoneTypes DEF Entries
<1>4. Local(m)' = Ledger(ibAt'[m]) /\ Local(m) = Ledger(ibAt[m])
  BY <1>1 DEF Local, Ledger
<1>5. \A s \in ScopeIds : ~Absent(Local(m)[s]) => ~Absent(Local(m)'[s])
  BY <1>2, <1>3, <1>4 DEF LoneInv, LogInv
<1>6. FlowInv(m)' /\ LogInv' /\ CommandInv' /\ LimitInv(m)'
  <2>1. FlowInv(m)'
    BY <1>1 DEF LoneInv, FlowInv, AloneAtWork, CallFlow, OperationFlow
  <2>2. LogInv' /\ CommandInv' /\ LimitInv(m)'
    BY <1>1 DEF LoneInv, LogInv, CommandInv, LimitInv
  <2> QED BY <2>1, <2>2
<1>7. LastInv(m)'
  <2>1. Early(m)' => Uncreated(m)'
    BY <1>1 DEF LoneInv, LastInv, Early, Uncreated
  <2>2. /\ ibOp[m] # NoOperation => ibOp[m].scope \in ScopeIds
        /\ \A i \in BudgetCalls : ibCall[i].scope \in ScopeIds
    BY LoneTypes
  <2>3. ibOp[m] # NoOperation /\ ibOp[m].kind # "create" => ~Absent(Local(m)'[ibOp[m].scope])
    BY <1>5, <2>2 DEF LoneInv, LastInv
  <2>4. \A i \in BudgetCalls : ibCall[i].phase # "idle" => ~Absent(Local(m)'[ibCall[i].scope])
    BY <1>5, <2>2 DEF LoneInv, LastInv
  <2> QED BY <1>1, <2>1, <2>3, <2>4 DEF LoneInv, LastInv
<1>8. CoverInv(m)'
  <2>1. \A k \in Entries : ibAt'[m] <= k => ibAt[m] <= k
    BY <1>2, LoneTypes
  <2> QED BY <1>1, <2>1 DEF LoneInv, CoverInv
<1> QED BY <1>6, <1>7, <1>8 DEF LoneInv

\* A proposal: its command replaces what m has of the scope.
LEMMA UpsertLone ==
    ASSUME BudgetInv, NEW m \in BudgetMembers, LoneInv(m), UpsertBudgetScope(m)
    PROVE  LoneInv(m)'
<1> DEFINE op == ibOp[m]
           previous == Local(m)[op.scope]
<1> PICK c : c = Command(m, op)
  OBVIOUS
<1>1. /\ Entries' = Entries /\ Latest' = Latest /\ Local(m)' = Local(m) /\ (\A k : Ledger(k)' = Ledger(k))
      /\ UNCHANGED <<ibLog, ibAt, ibCall, ibProvider, ibEnsure, ibClock>>
      /\ ibSent' = ibSent \cup {c} /\ op # NoOperation /\ op.phase = "read"
  BY LogStays DEF UpsertBudgetScope, Local, Ledger
<1>2. PICK next : next = ibOp'[m]
  OBVIOUS
<1>3. /\ next # NoOperation /\ next.kind = op.kind /\ next.scope = op.scope /\ next.inv = op.inv
      /\ next.value = op.value /\ next.id = op.id /\ next.phase = "sent"
      /\ \A n \in BudgetMembers \ {m} : ibOp'[n] = ibOp[n]
  <2>1. ibOp \in [BudgetMembers -> OperationType \cup {NoOperation}] /\ op \in OperationType
    BY <1>1 DEF BudgetInv, IbTypeOK, MemberType
  <2>2. next = [op EXCEPT !.phase = "sent"] /\ \A n \in BudgetMembers \ {m} : ibOp'[n] = ibOp[n]
    BY <1>2, <2>1 DEF UpsertBudgetScope
  <2> QED BY <2>1, <2>2 DEF OperationType, NoOperation
<1>4. /\ c.id = op.id /\ c.scope = op.scope /\ c.value = op.value /\ c.previous = previous.stamp
      /\ c.alloc <=> Absent(previous)
  BY DEF Command, Absent
<1>5. /\ op.id = ibClock /\ op.value.stamp = ibClock /\ ~Absent(op.value) /\ Fits(op.value)
      /\ op.kind # "create" => ~Absent(previous)
      /\ \A k \in Entries : ibLog[k].id # ibClock
  BY <1>1 DEF LoneInv, LastInv, LimitInv
<1>6. /\ op.scope \in ScopeIds /\ ibAt[m] \in Entries /\ previous = Ledger(ibAt[m])[op.scope]
      /\ ibClock \in Nat /\ \A d \in ibSent : d.id \in Nat
      /\ previous.stamp \in Nat
  <2>1. op.scope \in ScopeIds /\ ibAt[m] \in Entries /\ previous = Ledger(ibAt[m])[op.scope] /\ ibClock \in Nat
    BY <1>1, LoneTypes
  <2>2. \A d \in ibSent : d.id \in Nat
    BY LoneTypes DEF CommandType
  <2>3. previous \in ScopeType
    BY <2>1, LoneTypes
  <2>4. previous.stamp \in 0..MaxBudgetWrites
    BY <2>3 DEF ScopeType
  <2> QED BY <2>1, <2>2, <2>4, BudgetAssumption
<1>7. /\ Unused(ibClock) /\ \A d \in ibSent : d.id # ibClock
  BY <1>1, <1>5 DEF BudgetInv, OperationInv, Alone
<1> HIDE DEF op, previous
<1>8. c.previous < c.id
  <2>1. previous.stamp # ibClock /\ previous.stamp <= ibClock
    BY <1>6, <1>7 DEF Unused, BudgetInv, StampInv
  <2>2. c.previous = previous.stamp /\ c.id = ibClock
    BY <1>4, <1>5
  <2> QED BY <2>1, <2>2, <1>6
<1>9. c.alloc => op.kind = "create" /\ Uncreated(m) /\ op.scope = m
  <2>1. c.alloc => op.kind = "create"
    BY <1>4, <1>5
  <2>2. op.kind = "create" => op.scope = m /\ ibEnsure[m].phase = "create"
    BY <1>1 DEF LoneInv, FlowInv, AloneAtWork, CallFlow, OperationFlow, op
  <2>3. op.kind = "create" => Early(m)
    BY <1>1, <2>2 DEF Early, op
  <2> QED BY <2>1, <2>2, <2>3 DEF LoneInv, LastInv
<1>10. FlowInv(m)'
  <2>1. AloneAtWork(m)'
    BY <1>1, <1>3 DEF LoneInv, FlowInv, AloneAtWork
  <2>2. CallFlow'
    BY <1>1 DEF LoneInv, FlowInv, CallFlow
  <2>3. OperationFlow(m)'
    BY <1>1, <1>2, <1>3 DEF LoneInv, FlowInv, OperationFlow, op
  <2> QED BY <2>1, <2>2, <2>3 DEF FlowInv
<1>11. LogInv'
  BY <1>1, <1>4, <1>5 DEF LoneInv, LogInv
<1>12. CommandInv'
  <2>1. /\ c.previous < c.id /\ c.value.stamp = c.id /\ ~Absent(c.value)
        /\ c.alloc => Absent(Latest[c.scope])
        /\ ~c.alloc => \E k \in Entries : Ledger(k)[c.scope].stamp = c.previous /\ ~Absent(Ledger(k)[c.scope])
    <3>1. c.alloc => Absent(Latest[c.scope])
      BY <1>4, <1>9, LoneTypes DEF Uncreated
    <3>2. ~c.alloc => \E k \in Entries : Ledger(k)[c.scope].stamp = c.previous /\ ~Absent(Ledger(k)[c.scope])
      BY <1>4, <1>6
    <3> QED BY <3>1, <3>2, <1>4, <1>5, <1>8
  <2>2. c.alloc => \A d \in ibSent : ~d.alloc
    BY <1>9 DEF Uncreated
  <2>3. \A d, e \in ibSent : d.alloc /\ e.alloc => d = e
    BY DEF LoneInv, CommandInv
  <2>4. \A d, e \in ibSent' : d.alloc /\ e.alloc => d = e
    BY <1>1, <2>2, <2>3
  <2>5. \A d \in ibSent' :
          /\ d.previous < d.id /\ d.value.stamp = d.id /\ ~Absent(d.value)
          /\ d.alloc => Absent(Latest[d.scope])
          /\ ~d.alloc => \E k \in Entries : Ledger(k)[d.scope].stamp = d.previous /\ ~Absent(Ledger(k)[d.scope])
    <3> SUFFICES ASSUME NEW d \in ibSent'
                 PROVE  /\ d.previous < d.id /\ d.value.stamp = d.id /\ ~Absent(d.value)
                        /\ d.alloc => Absent(Latest[d.scope])
                        /\ ~d.alloc => \E k \in Entries : Ledger(k)[d.scope].stamp = d.previous /\ ~Absent(Ledger(k)[d.scope])
      OBVIOUS
    <3>1. CASE d \in ibSent
      BY <3>1 DEF LoneInv, CommandInv
    <3>2. CASE d = c
      BY <2>1, <3>2
    <3> QED BY <1>1, <3>1, <3>2
  <2> QED BY <1>1, <2>4, <2>5 DEF CommandInv
<1>13. LastInv(m)'
  <2>1. Early(m)' => Uncreated(m)'
    <3>1. Early(m)' => Early(m) /\ op.kind # "create"
      <4>1. op.kind = "create" => ibEnsure[m].phase = "create"
        BY <1>1 DEF LoneInv, FlowInv, AloneAtWork, CallFlow, OperationFlow, op
      <4> QED BY <4>1, <1>1, <1>2, <1>3 DEF Early, op
    <3>2. Early(m) /\ op.kind # "create" => Uncreated(m)'
      BY <1>1, <1>9 DEF LoneInv, LastInv, Uncreated
    <3> QED BY <3>1, <3>2
  <2>2. \A d \in ibSent' : d.id = ibClock => d.scope = op.scope /\ d.value = op.value
    BY <1>1, <1>4, <1>7
  <2>3. \A i \in BudgetCalls : ibCall[i].phase # "idle" => ~Absent(Local(m)[ibCall[i].scope])
    BY DEF LoneInv, LastInv
  <2>4. op.kind # "create" => ~Absent(Local(m)[op.scope])
    BY <1>5 DEF previous
  <2> QED BY <1>1, <1>2, <1>3, <1>5, <2>1, <2>2, <2>3, <2>4 DEF LastInv
<1>14. LimitInv(m)'
  BY <1>1, <1>2, <1>3, <1>4, <1>5 DEF LoneInv, LimitInv
<1>15. CoverInv(m)'
  <2>1. \A i \in BudgetCalls : op.scope = ibCall[i].scope => Covers(i, ibCall[i].phase, ibProvider[i], op.value)
    BY <1>1 DEF LoneInv, CoverInv, op
  <2> QED BY <1>1, <1>2, <1>3, <1>4, <2>1 DEF LoneInv, CoverInv
<1> QED BY <1>10, <1>11, <1>12, <1>13, <1>14, <1>15 DEF LoneInv

\* A command that is applied replaces the value it was made for, or creates a scope
\* that no call has: no other command of m can replace what it leaves.
LEMMA CommitLone ==
    ASSUME BudgetInv, NEW m \in BudgetMembers, LoneInv(m), NEW c \in ibSent, Commit(c)
    PROVE  LoneInv(m)'
<1> PICK K : K = Len(ibLog) + 1
  OBVIOUS
<1> DEFINE new == ibLog'[K].ledger
           verdict == BudgetVerdict(Latest, c)
<1>0. /\ Len(ibLog) \in Nat /\ Len(ibLog) \in Entries /\ K \notin Entries
      /\ Latest = Ledger(Len(ibLog)) /\ Latest \in LedgerType
      /\ c.scope \in ScopeIds /\ c.id \in Nat /\ ibClock \in Nat
  <2>1. Len(ibLog) \in Nat
    BY DEF BudgetInv, IbTypeOK, GroupType
  <2>2. Latest \in LedgerType
    BY LedgerTyped DEF BudgetInv, IbTypeOK
  <2> QED BY <2>1, <2>2, LoneTypes DEF Entries, CommandType
<1>1. /\ Len(ibLog') = K /\ \A k \in Entries : ibLog'[k] = ibLog[k]
      /\ new = IF verdict = "applied" THEN [Latest EXCEPT ![c.scope] = c.value] ELSE Latest
  BY CommitEffect DEF BudgetInv
<1>2. /\ ibSent' = ibSent \ {c} /\ UNCHANGED <<ibAt, ibOp, ibCall, ibProvider, ibEnsure, ibClock>>
      /\ ibLog'[K].id = c.id /\ (ibLog'[K].ok <=> verdict # "refused")
  <2> DEFINE e == [id |-> c.id, ok |-> verdict # "refused",
                   ledger |-> IF verdict = "applied" THEN [Latest EXCEPT ![c.scope] = c.value] ELSE Latest]
  <2>1. ibLog' = Append(ibLog, e) /\ e.id = c.id /\ (e.ok <=> verdict # "refused")
    BY DEF Commit
  <2> HIDE DEF e
  <2>2. ibLog'[K] = e
    BY <2>1, <1>0 DEF BudgetInv, IbTypeOK, GroupType
  <2> QED BY <2>1, <2>2 DEF Commit
<1>3. /\ Entries' = Entries \cup {K}
      /\ \A k \in Entries : Ledger(k)' = Ledger(k)
      /\ Ledger(K)' = new /\ Latest' = new
  BY <1>0, <1>1 DEF Entries, Ledger, Latest
<1>4. /\ c.id <= ibClock /\ Unused(c.id) /\ c.value.stamp = c.id /\ ~Absent(c.value)
      /\ c.alloc => Absent(Latest[c.scope])
      /\ ~c.alloc => \E k \in Entries : Ledger(k)[c.scope].stamp = c.previous /\ ~Absent(Ledger(k)[c.scope])
  BY DEF BudgetInv, SentInv, LoneInv, CommandInv
<1>5. \A s \in ScopeIds : \/ new[s] = Latest[s]
                          \/ s = c.scope /\ new[s] = c.value /\ verdict = "applied"
  BY <1>0, <1>1 DEF LedgerType
<1>6. /\ \A k \in Entries : k < K /\ k \in Nat /\ k <= Len(ibLog)
      /\ K \in Nat /\ Len(ibLog) < K
  BY <1>0 DEF Entries
<1>7. \A s \in ScopeIds : \A k \in Entries : Absent(Latest[s]) => Absent(Ledger(k)[s])
  BY <1>0, <1>6 DEF LoneInv, LogInv
<1>8. verdict = "applied" /\ ~c.alloc => c.previous = Latest[c.scope].stamp
  BY DEF BudgetVerdict
<1>9. ~c.alloc => ~Absent(Latest[c.scope])
  BY <1>0, <1>4, <1>7
<1>10. verdict = "same" => Latest[c.scope].stamp = c.id
  BY <1>4 DEF BudgetVerdict
<1>11. verdict # "same"
  BY <1>0, <1>4, <1>10 DEF Unused
<1>12. /\ Local(m)' = Local(m) /\ ibAt[m] \in Entries /\ Local(m) = Ledger(ibAt[m])
  <2>1. ibAt[m] \in Entries /\ Local(m) = Ledger(ibAt[m])
    BY LoneTypes
  <2> QED BY <1>2, <1>3, <2>1 DEF Local, Ledger
<1> HIDE DEF new, verdict
<1>13. FlowInv(m)'
  BY <1>2 DEF LoneInv, FlowInv, AloneAtWork, CallFlow, OperationFlow
<1>14. LogInv'
  <2>1. \A s \in ScopeIds : Absent(new[s]) => Absent(Latest[s])
    BY <1>4, <1>5
  <2>2. \A s \in ScopeIds : \A k \in Entries : Absent(new[s]) => Absent(Ledger(k)[s])
    BY <1>7, <2>1
  <2>3. \A j, k \in Entries' : \A s \in ScopeIds : j <= k /\ Absent(Ledger(k)'[s]) => Absent(Ledger(j)'[s])
    <3> SUFFICES ASSUME NEW j \in Entries', NEW k \in Entries', NEW s \in ScopeIds, j <= k, Absent(Ledger(k)'[s])
                 PROVE  Absent(Ledger(j)'[s])
      OBVIOUS
    <3>1. CASE k = K
      BY <3>1, <1>3, <2>2
    <3>2. CASE k \in Entries
      <4>1. j \in Entries
        BY <3>2, <1>3, <1>6
      <4> QED BY <3>2, <4>1, <1>3 DEF LoneInv, LogInv
    <3> QED BY <3>1, <3>2, <1>3
  <2>4. \A k \in Entries' : ibLog'[k].id <= ibClock /\ \A d \in ibSent' : ibLog'[k].id # d.id
    <3>1. \A d \in ibSent' : c.id # d.id /\ d \in ibSent
      BY <1>2 DEF BudgetInv, SentInv
    <3>2. \A k \in Entries : ibLog'[k].id <= ibClock /\ \A d \in ibSent' : ibLog'[k].id # d.id
      BY <1>1, <3>1 DEF LoneInv, LogInv
    <3> QED BY <1>2, <1>3, <1>4, <3>1, <3>2
  <2> QED BY <1>2, <2>3, <2>4 DEF LogInv
<1>15. CommandInv'
  <2>1. \A d \in ibSent' : d.alloc => Absent(new[d.scope])
    <3> SUFFICES ASSUME NEW d \in ibSent', d.alloc PROVE Absent(new[d.scope])
      OBVIOUS
    <3>1. d \in ibSent /\ d # c /\ d.scope \in ScopeIds /\ Absent(Latest[d.scope])
      BY <1>2, LoneTypes DEF LoneInv, CommandInv
    <3>2. ~c.alloc
      BY <3>1 DEF LoneInv, CommandInv
    <3>3. d.scope # c.scope
      BY <1>9, <3>1, <3>2
    <3> QED BY <1>5, <3>1, <3>3
  <2>2. \A d \in ibSent' : d \in ibSent
    BY <1>2
  <2>3. \A d \in ibSent' : ~d.alloc =>
           \E k \in Entries' : Ledger(k)'[d.scope].stamp = d.previous /\ ~Absent(Ledger(k)'[d.scope])
    BY <1>3, <2>2 DEF LoneInv, CommandInv
  <2>4. /\ \A d \in ibSent' : d.previous < d.id /\ d.value.stamp = d.id /\ ~Absent(d.value)
        /\ \A d, e \in ibSent' : d.alloc /\ e.alloc => d = e
    BY <2>2 DEF LoneInv, CommandInv
  <2> QED BY <1>3, <2>1, <2>3, <2>4 DEF CommandInv
<1>16. LimitInv(m)'
  <2>1. \A s \in ScopeIds : Fits(new[s])
    BY <1>0, <1>5 DEF LoneInv, LimitInv
  <2> QED BY <1>2, <1>3, <2>1 DEF LoneInv, LimitInv
<1>17. LastInv(m)'
  <2>1. Early(m)' => Uncreated(m)'
    <3> SUFFICES ASSUME Early(m) PROVE Uncreated(m)'
      BY <1>2 DEF Early
    <3>1. Uncreated(m)
      BY DEF LoneInv, LastInv
    <3>2. c.scope # m /\ m \in ScopeIds
      BY <3>1, <1>4 DEF Uncreated, ScopeIds
    <3>3. Absent(new[m])
      BY <3>1, <3>2, <1>0, <1>5 DEF Uncreated
    <3> QED BY <1>2, <1>3, <3>1, <3>3 DEF Uncreated
  <2>2. ASSUME ibOp[m] # NoOperation, ibOp[m].phase = "read"
        PROVE  \A k \in Entries' : ibLog'[k].id # ibClock
    <3>1. c.id # ibClock
      BY <2>2 DEF BudgetInv, OperationInv, Alone, LoneInv, LastInv
    <3> QED BY <1>1, <1>2, <1>3, <2>2, <3>1 DEF LoneInv, LastInv
  <2>3. ASSUME ibOp[m] # NoOperation, ibOp[m].phase = "sent"
        PROVE  /\ \A d \in ibSent' : d.id = ibClock => d.scope = ibOp[m].scope /\ d.value = ibOp[m].value
               /\ \A j, k \in Entries' : k <= j /\ ibLog'[k].id = ibClock /\ ibLog'[k].ok =>
                     Ledger(j)'[ibOp[m].scope] = ibOp[m].value
    <3>1. \A d \in ibSent : d.id = ibClock => d.scope = ibOp[m].scope /\ d.value = ibOp[m].value
      BY <2>3 DEF LoneInv, LastInv
    <3>2. ibOp[m].scope \in ScopeIds /\ ibOp[m].value.stamp = ibClock /\ ~Absent(ibOp[m].value)
      BY <2>3, LoneTypes DEF LoneInv, LastInv
    <3> SUFFICES ASSUME NEW j \in Entries', NEW k \in Entries', k <= j, ibLog'[k].id = ibClock, ibLog'[k].ok
                 PROVE  Ledger(j)'[ibOp[m].scope] = ibOp[m].value
      BY <1>2, <3>1
    <3>3. CASE j \in Entries
      <4>1. k \in Entries
        BY <3>3, <1>3, <1>6
      <4> QED BY <3>3, <4>1, <1>1, <1>3, <2>3 DEF LoneInv, LastInv
    <3>4. CASE j = K /\ k = K
      <4>1. c.id = ibClock /\ verdict = "applied"
        <5>1. verdict # "refused"
          BY <3>4, <1>2
        <5>2. verdict \in {"same", "refused", "applied"}
          BY DEF verdict, BudgetVerdict
        <5> QED BY <5>1, <5>2, <1>2, <1>11, <3>4
      <4>2. new[c.scope] = c.value
        BY <4>1, <1>0, <1>1 DEF LedgerType
      <4> QED BY <3>1, <3>4, <4>1, <4>2, <1>3
    <3>5. CASE j = K /\ k \in Entries
      <4>1. ibLog[k].id = ibClock /\ ibLog[k].ok /\ k <= Len(ibLog)
        BY <3>5, <1>1, <1>6
      <4>2. Latest[ibOp[m].scope] = ibOp[m].value
        BY <4>1, <3>5, <1>0, <2>3 DEF LoneInv, LastInv
      <4>3. c.id # ibClock
        BY <3>5, <4>1 DEF LoneInv, LogInv
      <4>4. c.previous < c.id /\ c.previous \in Nat
        <5>1. c.previous \in 0..MaxBudgetWrites
          BY LoneTypes DEF CommandType
        <5> QED BY <5>1, BudgetAssumption DEF LoneInv, CommandInv
      <4>5. c.previous # ibClock
        BY <4>3, <4>4, <1>0, <1>4
      <4>6. ~(c.scope = ibOp[m].scope /\ verdict = "applied")
        BY <4>2, <4>5, <3>2, <1>4, <1>8
      <4>7. new[ibOp[m].scope] = Latest[ibOp[m].scope]
        BY <4>6, <3>2, <1>5
      <4> QED BY <3>5, <4>2, <4>7, <1>3
    <3> QED BY <3>3, <3>4, <3>5, <1>3
  <2>4. \A i \in BudgetCalls : ibCall[i].phase # "idle" => ~Absent(Local(m)[ibCall[i].scope])
    BY DEF LoneInv, LastInv
  <2>5. ibOp[m] # NoOperation =>
          /\ ibOp[m].id = ibClock /\ ibOp[m].value.stamp = ibClock /\ ~Absent(ibOp[m].value)
          /\ ibOp[m].kind # "create" => ~Absent(Local(m)[ibOp[m].scope])
    BY DEF LoneInv, LastInv
  <2> QED BY <1>2, <1>12, <2>1, <2>2, <2>3, <2>4, <2>5 DEF LastInv
<1>18. CoverInv(m)'
  <2> SUFFICES ASSUME NEW i \in BudgetCalls
               PROVE  /\ \A k \in Entries' : ibAt[m] <= k =>
                            Covers(i, ibCall[i].phase, ibProvider[i], Ledger(k)'[ibCall[i].scope])
                      /\ \A d \in ibSent' : d.scope = ibCall[i].scope /\ d.previous = new[ibCall[i].scope].stamp =>
                            Covers(i, ibCall[i].phase, ibProvider[i], d.value)
                      /\ ibOp[m] # NoOperation /\ ibOp[m].phase = "read" /\ ibOp[m].scope = ibCall[i].scope =>
                            Covers(i, ibCall[i].phase, ibProvider[i], ibOp[m].value)
    BY <1>2, <1>3 DEF CoverInv
  <2> PICK s : s = ibCall[i].scope
    OBVIOUS
  <2>1. s \in ScopeIds
    BY LoneTypes
  <2>2. CASE ibCall[i].phase = "idle"
    <3>1. ibProvider[i].state = "none"
      BY <2>2 DEF LoneInv, FlowInv, AloneAtWork, CallFlow, OperationFlow
    <3> QED BY <2>2, <3>1 DEF Covers, InHand
  <2>3. CASE ibCall[i].phase # "idle"
    <3>1. ~Absent(Latest[s])
      <4>1. ~Absent(Ledger(ibAt[m])[s])
        BY <2>3, <1>12 DEF LoneInv, LastInv
      <4> QED BY <4>1, <2>1, <1>7, <1>12
    <3>2. Covers(i, ibCall[i].phase, ibProvider[i], Latest[s])
      <4>1. ibAt[m] <= Len(ibLog)
        BY <1>6, <1>12
      <4> QED BY <4>1, <1>0 DEF LoneInv, CoverInv
    <3>3. Covers(i, ibCall[i].phase, ibProvider[i], new[s])
      <4>1. CASE new[s] = Latest[s]
        BY <3>2, <4>1
      <4>2. CASE s = c.scope /\ new[s] = c.value /\ verdict = "applied"
        <5>1. c.previous = Latest[s].stamp
          BY <4>2, <3>1, <1>4, <1>8
        <5> QED BY <5>1, <4>2 DEF LoneInv, CoverInv
      <4> QED BY <4>1, <4>2, <2>1, <1>5
    <3>4. \A k \in Entries' : ibAt[m] <= k => Covers(i, ibCall[i].phase, ibProvider[i], Ledger(k)'[s])
      BY <3>3, <1>3 DEF LoneInv, CoverInv
    <3>5. ASSUME NEW d \in ibSent', d.scope = s, d.previous = new[s].stamp
          PROVE  Covers(i, ibCall[i].phase, ibProvider[i], d.value)
      <4>1. d \in ibSent /\ ~d.alloc
        BY <3>1, <3>5, <1>2 DEF LoneInv, CommandInv
      <4>2. d.previous # c.id
        BY <4>1, <3>5, <2>1, <1>4 DEF LoneInv, CommandInv, Unused
      <4>3. new[s] = Latest[s]
        BY <4>2, <3>5, <2>1, <1>4, <1>5
      <4> QED BY <4>1, <4>3, <3>5 DEF LoneInv, CoverInv
    <3>6. ibOp[m] # NoOperation /\ ibOp[m].phase = "read" /\ ibOp[m].scope = s =>
             Covers(i, ibCall[i].phase, ibProvider[i], ibOp[m].value)
      BY DEF LoneInv, CoverInv
    <3> QED BY <3>4, <3>5, <3>6
  <2> QED BY <2>2, <2>3
<1> QED BY <1>13, <1>14, <1>15, <1>16, <1>17, <1>18 DEF LoneInv

\* What the attempts of a scope are covers the calls, whatever its state.
LEMMA CoversAttempts ==
    ASSUME NEW v, NEW sc, v.attempts = sc.attempts, NEW i, NEW phase, NEW provider, Covers(i, phase, provider, sc)
    PROVE  Covers(i, phase, provider, v)
BY DEF Covers

\* The end of an operation.  A reservation that succeeded is in what m has of the
\* scope, and nothing on its way can replace that.
LEMMA EndLone ==
    ASSUME BudgetInv, NEW m \in BudgetMembers, LoneInv(m), OperationReturns(m) \/ OperationFails(m)
    PROVE  LoneInv(m)'
<1> PICK op : op = ibOp[m]
  OBVIOUS
<1>1. /\ UNCHANGED <<ibLog, ibSent, ibAt, ibClock, ibProvider>> /\ op # NoOperation /\ op \in OperationType
      /\ \E ok \in BOOLEAN :
            /\ Continue(m, op, ok)
            /\ ok => op.phase = "sent" /\ \E k \in 1..ibAt[m] : ibLog[k].id = op.id /\ ibLog[k].ok
  <2>1. op # NoOperation /\ op \in OperationType
    BY DEF OperationReturns, OperationFails, BudgetInv, IbTypeOK, MemberType
  <2>2. UNCHANGED <<ibLog, ibSent, ibAt, ibClock, ibProvider>>
    BY DEF OperationReturns, OperationFails
  <2>3. CASE OperationReturns(m)
    <3>1. PICK k \in 1..ibAt[m] : ibLog[k].id = op.id /\ Continue(m, op, ibLog[k].ok)
      BY <2>3 DEF OperationReturns
    <3>2. op.phase = "sent"
      BY <2>3 DEF OperationReturns
    <3>3. ibLog[k].ok \in BOOLEAN
      <4> DEFINE Entry == [id : Nat, ok : BOOLEAN, ledger : LedgerType]
      <4>1. ibLog \in Seq(Entry) /\ ibAt[m] \in 1..Len(ibLog)
        BY DEF BudgetInv, IbTypeOK, GroupType
      <4>2. \A e \in Entry : e.ok \in BOOLEAN
        OBVIOUS
      <4> HIDE DEF Entry
      <4>3. k \in 1..Len(ibLog)
        BY <4>1
      <4>4. ibLog[k] \in Entry
        BY <4>1, <4>3
      <4> QED BY <4>2, <4>4
    <3> QED BY <2>1, <2>2, <3>1, <3>2, <3>3
  <2>4. CASE OperationFails(m)
    <3>1. Continue(m, op, FALSE)
      BY <2>4 DEF OperationFails
    <3> QED BY <2>1, <2>2, <3>1
  <2> QED BY <2>3, <2>4
<1>2. PICK ok \in BOOLEAN :
         /\ Continue(m, op, ok)
         /\ ok => op.phase = "sent" /\ \E k \in 1..ibAt[m] : ibLog[k].id = op.id /\ ibLog[k].ok
  BY <1>1
<1>3. ibOp'[m] = NoOperation /\ \A n \in BudgetMembers \ {m} : ibOp'[n] = ibOp[n]
  <2>1. ibOp \in [BudgetMembers -> OperationType \cup {NoOperation}]
    BY DEF BudgetInv, IbTypeOK, MemberType
  <2> QED BY <1>2, <2>1 DEF Continue
<1>4. ibEnsure'[m].phase \in {"unused", "finish"} => ibEnsure'[m].phase = ibEnsure[m].phase
  <2>1. ibEnsure \in [BudgetMembers -> [phase : PhasesOfEnsure, previous : SUBSET ScopeIds]]
    BY DEF BudgetInv, IbTypeOK, MemberType, PhasesOfEnsure
  <2> QED BY <1>2, <2>1 DEF Continue
<1>5. /\ ibEnsure'[m].phase = "create" => \/ ibEnsure[m].phase = "create" /\ op.kind # "create"
                                          \/ ibEnsure[m].phase = "finish"
      /\ \A n \in BudgetMembers \ {m} : ibEnsure'[n] = ibEnsure[n]
  <2>1. ibEnsure \in [BudgetMembers -> [phase : PhasesOfEnsure, previous : SUBSET ScopeIds]]
    BY DEF BudgetInv, IbTypeOK, MemberType, PhasesOfEnsure
  <2>2. op.kind = "finish" => ibEnsure[m].phase = "finish"
    BY <1>1 DEF LoneInv, FlowInv, AloneAtWork, CallFlow, OperationFlow
  <2> QED BY <1>2, <2>1, <2>2 DEF Continue
<1>6. \A i \in BudgetCalls :
         /\ ibCall'[i].scope = ibCall[i].scope /\ ibCall'[i].at = ibCall[i].at /\ ibCall'[i].answer = ibCall[i].answer
         /\ \/ ibCall'[i].phase = ibCall[i].phase
            \/ ibCall'[i].phase = "over" /\ ibCall[i].phase \in {"reserving", "completing"}
            \/ /\ ibCall'[i].phase = "held" /\ ibCall[i].phase = "reserving"
               /\ ok /\ op.kind = "reserve" /\ i = op.inv
  <2>1. ibCall \in [BudgetCalls -> [phase : PhasesOfCall, at : SUBSET BudgetMembers, scope : ScopeIds, answer : AnswerType]]
    BY DEF BudgetInv, IbTypeOK, CallType, PhasesOfCall
  <2>2. CASE op.kind \in {"reserve", "complete"}
    <3>1. /\ op.inv \in BudgetCalls
          /\ ibCall[op.inv].phase = IF op.kind = "reserve" THEN "reserving" ELSE "completing"
      BY <1>1, <2>2 DEF LoneInv, FlowInv, AloneAtWork, CallFlow, OperationFlow
    <3>2. PICK p : p = IF op.kind = "reserve" /\ ok THEN "held" ELSE "over"
      OBVIOUS
    <3>3. ibCall' = [ibCall EXCEPT ![op.inv].phase = p]
      BY <1>2, <2>2, <3>2 DEF Continue
    <3> QED BY <2>1, <3>1, <3>2, <3>3
  <2>3. CASE op.kind \notin {"reserve", "complete"}
    BY <1>2, <2>3 DEF Continue
  <2> QED BY <2>2, <2>3
<1>7. FlowInv(m)'
  <2>1. AloneAtWork(m)'
    BY <1>3, <1>5, <1>6 DEF LoneInv, FlowInv, AloneAtWork
  <2>2. CallFlow'
    <3> SUFFICES ASSUME NEW i \in BudgetCalls
                 PROVE  /\ ibProvider[i].state # "none" => ibCall'[i].phase \in {"calling", "answered", "completing", "over"}
                        /\ ibCall'[i].phase \in {"calling", "answered"} => ibProvider[i].state # "none"
                        /\ ibCall'[i].phase = "answered" /\ ibCall'[i].answer.outcome # "lost" =>
                              ibProvider[i].state = "ended" /\ ibCall'[i].answer.used = ibProvider[i].used
      BY <1>1 DEF CallFlow
    <3>1. /\ ibProvider[i].state # "none" => ibCall[i].phase \in {"calling", "answered", "completing", "over"}
          /\ ibCall[i].phase \in {"calling", "answered"} => ibProvider[i].state # "none"
          /\ ibCall[i].phase = "answered" /\ ibCall[i].answer.outcome # "lost" =>
                ibProvider[i].state = "ended" /\ ibCall[i].answer.used = ibProvider[i].used
      BY DEF LoneInv, FlowInv, CallFlow
    <3>2. CASE ibCall'[i].phase = ibCall[i].phase
      BY <3>1, <3>2, <1>6
    <3>3. CASE ibCall'[i].phase = "over"
      BY <3>3
    <3>4. CASE ibCall'[i].phase = "held" /\ ibCall[i].phase = "reserving"
      BY <3>1, <3>4
    <3> QED BY <3>2, <3>3, <3>4, <1>6
  <2>3. OperationFlow(m)'
    BY <1>3 DEF OperationFlow
  <2> QED BY <2>1, <2>2, <2>3 DEF FlowInv
<1>8. Early(m)' => Early(m)
  BY <1>3, <1>4, <1>5, <1>1 DEF Early
<1>9. LogInv' /\ CommandInv' /\ LastInv(m)' /\ LimitInv(m)'
  <2>1. \A i \in BudgetCalls : ibCall'[i].phase # "idle" => ~Absent(Local(m)[ibCall'[i].scope])
    BY <1>6 DEF LoneInv, LastInv
  <2> QED BY <1>1, <1>3, <1>8, <2>1, QuietLone
<1>10. CoverInv(m)'
  <2>1. CASE \A i \in BudgetCalls : ibCall'[i].phase = "held" => ibCall[i].phase = "held"
    <3>1. \A i \in BudgetCalls : \A v : Covers(i, ibCall[i].phase, ibProvider[i], v) =>
                                        Covers(i, ibCall'[i].phase, ibProvider'[i], v)
      BY <2>1, <1>1, <1>6 DEF Covers, InHand
    <3> QED BY <3>1, <1>1, <1>3, <1>6, QuietCovers DEF LoneInv
  <2>2. CASE \E i \in BudgetCalls : ibCall'[i].phase = "held" /\ ibCall[i].phase # "held"
    <3>1. PICK x \in BudgetCalls : ibCall'[x].phase = "held" /\ ibCall[x].phase # "held"
      BY <2>2
    <3>2. x = op.inv /\ ok /\ op.kind = "reserve" /\ ibCall[x].phase = "reserving" /\ ibProvider[x].state = "none"
      BY <3>1, <1>6 DEF LoneInv, FlowInv, AloneAtWork, CallFlow, OperationFlow
    <3>3. op.scope = ibCall[x].scope /\ op.value.attempts[x].state = "reserved"
      BY <3>2, <1>1 DEF LoneInv, FlowInv, AloneAtWork, CallFlow, OperationFlow
    <3>4. PICK k \in 1..ibAt[m] : ibLog[k].id = op.id /\ ibLog[k].ok
      BY <3>2, <1>2
    <3>5. op.phase = "sent" /\ op.id = ibClock /\ op.value.stamp = ibClock
      BY <3>2, <1>2, <1>1 DEF LoneInv, LastInv
    <3>6. k \in Entries /\ \A j \in Entries : ibAt[m] <= j => k <= j
      BY <3>4, LoneTypes DEF Entries
    <3>7. \A j \in Entries : ibAt[m] <= j => Ledger(j)[op.scope] = op.value
      BY <3>4, <3>5, <3>6, <1>1 DEF LoneInv, LastInv
    <3>8. Covers(x, "held", ibProvider[x], op.value)
      BY <3>2, <3>3 DEF Covers
    <3>9. Latest[op.scope] = op.value
      BY <3>7, LoneTypes
    <3>10. \A c \in ibSent : c.previous # ibClock
      <4> SUFFICES ASSUME NEW c \in ibSent PROVE c.previous # ibClock
        OBVIOUS
      <4>1. c.previous < c.id /\ c.id <= ibClock
        BY DEF LoneInv, CommandInv, BudgetInv, SentInv
      <4>2. c.previous \in 0..MaxBudgetWrites /\ c.id \in Nat /\ ibClock \in Nat
        BY LoneTypes DEF CommandType
      <4>3. MaxBudgetWrites \in Nat
        BY BudgetAssumption
      <4> QED BY <4>1, <4>2, <4>3
    <3>11. Entries' = Entries /\ Latest' = Latest /\ \A j : Ledger(j)' = Ledger(j)
      BY <1>1, LogStays
    <3>12. \A i \in BudgetCalls \ {x} : \A v : Covers(i, ibCall[i].phase, ibProvider[i], v) =>
                                               Covers(i, ibCall'[i].phase, ibProvider[i], v)
      BY <3>2, <1>6 DEF Covers, InHand
    <3> SUFFICES ASSUME NEW i \in BudgetCalls
                 PROVE  /\ \A j \in Entries : ibAt[m] <= j =>
                              Covers(i, ibCall'[i].phase, ibProvider[i], Ledger(j)[ibCall[i].scope])
                        /\ \A c \in ibSent : c.scope = ibCall[i].scope /\ c.previous = Latest[ibCall[i].scope].stamp =>
                              Covers(i, ibCall'[i].phase, ibProvider[i], c.value)
      BY <3>11, <1>1, <1>3, <1>6 DEF CoverInv
    <3>13. CASE i = x
      BY <3>13, <3>1, <3>3, <3>5, <3>7, <3>8, <3>9, <3>10
    <3>14. CASE i # x
      BY <3>14, <3>12 DEF LoneInv, CoverInv
    <3> QED BY <3>13, <3>14
  <2> QED BY <2>1, <2>2
<1> QED BY <1>7, <1>9, <1>10 DEF LoneInv

\* A call moves on without changing a scope.
LEMMA CallLone ==
    ASSUME BudgetInv, NEW m \in BudgetMembers, LoneInv(m), NEW i \in BudgetCalls,
           UNCHANGED <<ibLog, ibSent, ibClock, ibAt, ibEnsure>>,
           UNCHANGED ibOp,
           \A j \in BudgetCalls \ {i} : ibCall'[j] = ibCall[j] /\ ibProvider'[j] = ibProvider[j],
           \/ ibCall' = ibCall
           \/ ibOp[m] # NoOperation /\ ibOp[m].kind \in {"reserve", "complete"} => ibOp[m].inv # i,
           ibCall'[i].at = {m}, ibCall'[i].phase # "idle",
           ibProvider'[i].state # "none" => ibCall'[i].phase \in {"calling", "answered", "completing", "over"},
           ibCall'[i].phase \in {"calling", "answered"} => ibProvider'[i].state # "none",
           ibCall'[i].phase = "answered" /\ ibCall'[i].answer.outcome # "lost" =>
                ibProvider'[i].state = "ended" /\ ibCall'[i].answer.used = ibProvider'[i].used,
           ~Absent(Local(m)[ibCall'[i].scope]),
           \/ ibCall'[i].phase \notin InHand /\ ibProvider'[i].state = "none"
           \/ /\ ibCall'[i].scope = ibCall[i].scope
              /\ \A v \in ScopeType : Fits(v) /\ Covers(i, ibCall[i].phase, ibProvider[i], v) =>
                                      Covers(i, ibCall'[i].phase, ibProvider'[i], v)
    PROVE  LoneInv(m)'
<1>1. FlowInv(m)'
  <2>1. AloneAtWork(m)'
    BY DEF LoneInv, FlowInv, AloneAtWork
  <2>2. CallFlow'
    BY DEF LoneInv, FlowInv, CallFlow
  <2>3. CASE ibCall' = ibCall
    <3>1. OperationFlow(m)'
      BY <2>3 DEF LoneInv, FlowInv, OperationFlow
    <3> QED BY <2>1, <2>2, <3>1 DEF FlowInv
  <2>4. CASE ibOp[m] # NoOperation /\ ibOp[m].kind \in {"reserve", "complete"} => ibOp[m].inv # i
    <3>1. ibOp[m] # NoOperation /\ ibOp[m].kind \in {"reserve", "complete"} => ibOp[m].inv \in BudgetCalls \ {i}
      BY <2>4 DEF LoneInv, FlowInv, OperationFlow
    <3>2. OperationFlow(m)'
      BY <3>1 DEF LoneInv, FlowInv, OperationFlow
    <3> QED BY <2>1, <2>2, <3>2 DEF FlowInv
  <2> QED BY <2>3, <2>4
<1>2. LogInv' /\ CommandInv' /\ LastInv(m)' /\ LimitInv(m)'
  <2>1. Early(m)' => Early(m)
    BY DEF Early
  <2>2. \A j \in BudgetCalls : ibCall'[j].phase # "idle" => ~Absent(Local(m)[ibCall'[j].scope])
    BY DEF LoneInv, LastInv
  <2> QED BY <2>1, <2>2, QuietLone
<1>3. CoverInv(m)'
  <2>1. \A j \in BudgetCalls :
              \/ ibCall'[j].phase \notin InHand /\ ibProvider'[j].state = "none"
              \/ /\ ibCall'[j].scope = ibCall[j].scope
                 /\ \A v \in ScopeType : Fits(v) /\ Covers(j, ibCall[j].phase, ibProvider[j], v) =>
                                         Covers(j, ibCall'[j].phase, ibProvider'[j], v)
    <3> SUFFICES ASSUME NEW j \in BudgetCalls
                 PROVE  \/ ibCall'[j].phase \notin InHand /\ ibProvider'[j].state = "none"
                        \/ /\ ibCall'[j].scope = ibCall[j].scope
                           /\ \A v \in ScopeType : Fits(v) /\ Covers(j, ibCall[j].phase, ibProvider[j], v) =>
                                                   Covers(j, ibCall'[j].phase, ibProvider'[j], v)
      OBVIOUS
    <3>1. CASE j = i
      BY <3>1
    <3>2. CASE j # i
      BY <3>2
    <3> QED BY <3>1, <3>2
  <2> QED BY <2>1, QuietCovers DEF LoneInv
<1> QED BY <1>1, <1>2, <1>3 DEF LoneInv

\* A call starts, goes to the provider, is answered or gives up.
LEMMA InvokeLone ==
    ASSUME BudgetInv, NEW m \in BudgetMembers, LoneInv(m), NEW i \in BudgetCalls, InvokeStarts(m, i)
    PROVE  LoneInv(m)'
<1> DEFINE x == CHOOSE s \in ActiveScopes(Local(m)) : TRUE
<1>1. /\ UNCHANGED <<ibLog, ibSent, ibClock, ibAt, ibEnsure, ibOp, ibProvider>> /\ ibCall[i].phase = "idle"
      /\ ibCall' = [ibCall EXCEPT ![i] = [@ EXCEPT !.phase = "resolved", !.at = {m}, !.scope = x]]
  BY DEF InvokeStarts
<1>2. ~Absent(Local(m)[x])
  <2>1. ActiveScopes(Local(m)) # {}
    BY FS_EmptySet DEF InvokeStarts
  <2> QED BY <2>1 DEF ActiveScopes, Absent
<1> HIDE DEF x
<1>3. /\ ibCall'[i].phase = "resolved" /\ ibCall'[i].at = {m} /\ ibCall'[i].scope = x
      /\ \A j \in BudgetCalls \ {i} : ibCall'[j] = ibCall[j]
  <2>1. ibCall \in [BudgetCalls -> [phase : PhasesOfCall, at : SUBSET BudgetMembers, scope : ScopeIds, answer : AnswerType]]
    BY DEF BudgetInv, IbTypeOK, CallType, PhasesOfCall
  <2> QED BY <1>1, <2>1
<1>4. ibOp[m] # NoOperation /\ ibOp[m].kind \in {"reserve", "complete"} => ibOp[m].inv # i
  BY <1>1 DEF LoneInv, FlowInv, OperationFlow
<1>5. ibProvider[i].state = "none"
  BY <1>1 DEF LoneInv, FlowInv, CallFlow
<1> QED BY <1>1, <1>2, <1>3, <1>4, <1>5, CallLone DEF InHand

\* What may be said of a call that is not idle.
LEMMA CallThere ==
    ASSUME BudgetInv, NEW m \in BudgetMembers, LoneInv(m), NEW i \in BudgetCalls, ibCall[i].phase # "idle"
    PROVE  /\ ibCall[i].at = {m} /\ ~Absent(Local(m)[ibCall[i].scope])
           /\ ibCall[i].phase \notin {"reserving", "completing"} =>
                 (ibOp[m] # NoOperation /\ ibOp[m].kind \in {"reserve", "complete"} => ibOp[m].inv # i)
           /\ \A p : /\ [ibCall EXCEPT ![i].phase = p][i].phase = p
                     /\ [ibCall EXCEPT ![i].phase = p][i].at = ibCall[i].at
                     /\ [ibCall EXCEPT ![i].phase = p][i].scope = ibCall[i].scope
                     /\ [ibCall EXCEPT ![i].phase = p][i].answer = ibCall[i].answer
                     /\ \A j \in BudgetCalls \ {i} : [ibCall EXCEPT ![i].phase = p][j] = ibCall[j]
<1>1. ibCall \in [BudgetCalls -> [phase : PhasesOfCall, at : SUBSET BudgetMembers, scope : ScopeIds, answer : AnswerType]]
  BY DEF BudgetInv, IbTypeOK, CallType, PhasesOfCall
<1>2. ibCall[i].at = {m} /\ ~Absent(Local(m)[ibCall[i].scope])
  BY DEF LoneInv, FlowInv, AloneAtWork, LastInv
<1>3. ibCall[i].phase \notin {"reserving", "completing"} =>
         (ibOp[m] # NoOperation /\ ibOp[m].kind \in {"reserve", "complete"} => ibOp[m].inv # i)
  BY DEF LoneInv, FlowInv, OperationFlow
<1>4. ASSUME NEW p
      PROVE  /\ [ibCall EXCEPT ![i].phase = p][i].phase = p
             /\ [ibCall EXCEPT ![i].phase = p][i].at = ibCall[i].at
             /\ [ibCall EXCEPT ![i].phase = p][i].scope = ibCall[i].scope
             /\ [ibCall EXCEPT ![i].phase = p][i].answer = ibCall[i].answer
             /\ \A j \in BudgetCalls \ {i} : [ibCall EXCEPT ![i].phase = p][j] = ibCall[j]
  BY <1>1
<1> QED BY <1>2, <1>3, <1>4

\* A call gives up.
LEMMA QuitLone ==
    ASSUME BudgetInv, NEW m \in BudgetMembers, LoneInv(m), NEW i \in BudgetCalls,
           ibCall[i].phase \in {"resolved", "held", "answered"}, CallTo(i, "over"), UNCHANGED ibProvider
    PROVE  LoneInv(m)'
<1>1. /\ UNCHANGED <<ibLog, ibSent, ibClock, ibAt, ibEnsure, ibOp>>
      /\ ibCall' = [ibCall EXCEPT ![i].phase = "over"]
  BY DEF CallTo
<1>2. /\ ibCall'[i].phase = "over" /\ ibCall'[i].at = {m} /\ ibCall'[i].scope = ibCall[i].scope
      /\ ~Absent(Local(m)[ibCall'[i].scope])
      /\ ibOp[m] # NoOperation /\ ibOp[m].kind \in {"reserve", "complete"} => ibOp[m].inv # i
      /\ \A j \in BudgetCalls \ {i} : ibCall'[j] = ibCall[j]
  BY <1>1, CallThere
<1>3. \A v : Covers(i, ibCall[i].phase, ibProvider[i], v) => Covers(i, ibCall'[i].phase, ibProvider'[i], v)
  BY <1>2 DEF Covers, InHand
<1> QED BY <1>1, <1>2, <1>3, CallLone

\* The provider is called for a reservation that is charged in full.
LEMMA CallProviderLone ==
    ASSUME BudgetInv, NEW m \in BudgetMembers, LoneInv(m), NEW i \in BudgetCalls, CallProvider(i)
    PROVE  LoneInv(m)'
<1>1. /\ UNCHANGED <<ibLog, ibSent, ibClock, ibAt, ibEnsure, ibOp>> /\ ibCall[i].phase = "held"
      /\ ibCall' = [ibCall EXCEPT ![i].phase = "calling"]
  BY DEF CallProvider, CallTo
<1>2. /\ ibCall'[i].phase = "calling" /\ ibCall'[i].at = {m} /\ ibCall'[i].scope = ibCall[i].scope
      /\ ~Absent(Local(m)[ibCall'[i].scope])
      /\ ibOp[m] # NoOperation /\ ibOp[m].kind \in {"reserve", "complete"} => ibOp[m].inv # i
      /\ \A j \in BudgetCalls \ {i} : ibCall'[j] = ibCall[j]
  BY <1>1, CallThere
<1>3. ibProvider'[i].state = "running" /\ \A j \in BudgetCalls \ {i} : ibProvider'[j] = ibProvider[j]
  <2>1. ibProvider \in [BudgetCalls -> [state : {"none", "running", "ended"}, used : 0..(BudgetReservation + 1)]]
    BY DEF BudgetInv, IbTypeOK, CallType
  <2> QED BY <2>1 DEF CallProvider
<1>4. ASSUME NEW v \in ScopeType, Fits(v), Covers(i, ibCall[i].phase, ibProvider[i], v)
      PROVE  Covers(i, ibCall'[i].phase, ibProvider'[i], v)
  <2>1. v.attempts[i].state = "reserved" /\ v.attempts[i].charged = BudgetReservation
    BY <1>1, <1>4 DEF Covers, InHand, Fits, ActiveProviderCalls
  <2>2. Spending(ibProvider'[i]) = BudgetReservation /\ BudgetReservation <= BudgetReservation
    BY <1>3, BudgetAssumption DEF Spending
  <2> QED BY <1>2, <1>3, <2>1, <2>2 DEF Covers
<1> QED BY <1>1, <1>2, <1>3, <1>4, CallLone

\* The provider ends, having spent no more than what counted while it ran.
LEMMA ProviderEndsLone ==
    ASSUME BudgetInv, NEW m \in BudgetMembers, LoneInv(m), NEW i \in BudgetCalls,
           NEW used \in {0, BudgetReservation, BudgetReservation + 1}, ProviderEnds(i, used)
    PROVE  LoneInv(m)'
<1>1. /\ UNCHANGED <<ibLog, ibSent, ibClock, ibAt, ibEnsure, ibOp>> /\ ibCall' = ibCall
      /\ ibProvider[i].state = "running"
      /\ ibProvider' = [ibProvider EXCEPT ![i] = [state |-> "ended", used |-> used]]
  BY DEF ProviderEnds
<1>2. /\ ibProvider'[i].state = "ended" /\ ibProvider'[i].used = used
      /\ \A j \in BudgetCalls \ {i} : ibProvider'[j] = ibProvider[j]
  <2>1. ibProvider \in [BudgetCalls -> [state : {"none", "running", "ended"}, used : 0..(BudgetReservation + 1)]]
    BY DEF BudgetInv, IbTypeOK, CallType
  <2> QED BY <1>1, <2>1
<1>3. ibCall[i].phase \in {"calling", "answered", "completing", "over"}
      /\ (ibCall[i].phase = "answered" => ibCall[i].answer.outcome = "lost")
  BY <1>1 DEF LoneInv, FlowInv, CallFlow
<1>4. ibCall[i].at = {m} /\ ~Absent(Local(m)[ibCall[i].scope]) /\ ibCall[i].phase # "idle"
  BY <1>3, CallThere
<1>5. ASSUME NEW v \in ScopeType, Covers(i, ibCall[i].phase, ibProvider[i], v)
      PROVE  Covers(i, ibCall'[i].phase, ibProvider'[i], v)
  <2>1. Spending(ibProvider'[i]) \in Nat /\ Spending(ibProvider'[i]) <= BudgetReservation /\ BudgetReservation \in Nat
    BY <1>2, BudgetAssumption DEF Spending
  <2>2. Spending(ibProvider[i]) = BudgetReservation
    BY <1>1 DEF Spending
  <2>3. v.attempts[i].charged \in Nat
    BY ChargesTyped
  <2>4. BudgetReservation <= v.attempts[i].charged
    BY <1>1, <1>5, <2>2 DEF Covers
  <2>5. Spending(ibProvider'[i]) <= v.attempts[i].charged
    BY <2>1, <2>3, <2>4
  <2>6. ibCall'[i].phase \in InHand => v.attempts[i].state = "reserved"
    BY <1>1, <1>5 DEF Covers
  <2> QED BY <1>2, <2>5, <2>6 DEF Covers
<1> QED BY <1>1, <1>2, <1>3, <1>4, <1>5, CallLone

\* The answer comes, or does not.
LEMMA ConnectorReturnsLone ==
    ASSUME BudgetInv, NEW m \in BudgetMembers, LoneInv(m), NEW i \in BudgetCalls,
           NEW outcome \in {"reported", "unreported", "lost"}, ConnectorReturns(i, outcome)
    PROVE  LoneInv(m)'
<1> DEFINE answer == [outcome |-> outcome, used |-> ibProvider[i].used]
<1>1. /\ UNCHANGED <<ibLog, ibSent, ibClock, ibAt, ibEnsure, ibOp, ibProvider>> /\ ibCall[i].phase = "calling"
      /\ outcome # "lost" => ibProvider[i].state = "ended"
      /\ ibCall' = [ibCall EXCEPT ![i] = [@ EXCEPT !.phase = "answered", !.answer = answer]]
  BY DEF ConnectorReturns
<1>2. answer.outcome = outcome /\ answer.used = ibProvider[i].used
  OBVIOUS
<1> HIDE DEF answer
<1>3. /\ ibCall'[i].phase = "answered" /\ ibCall'[i].answer = answer /\ ibCall'[i].at = ibCall[i].at
      /\ ibCall'[i].scope = ibCall[i].scope /\ \A j \in BudgetCalls \ {i} : ibCall'[j] = ibCall[j]
  <2>1. ibCall \in [BudgetCalls -> [phase : PhasesOfCall, at : SUBSET BudgetMembers, scope : ScopeIds, answer : AnswerType]]
    BY DEF BudgetInv, IbTypeOK, CallType, PhasesOfCall
  <2> QED BY <1>1, <2>1
<1>4. /\ ibCall[i].at = {m} /\ ~Absent(Local(m)[ibCall[i].scope])
      /\ ibOp[m] # NoOperation /\ ibOp[m].kind \in {"reserve", "complete"} => ibOp[m].inv # i
  BY <1>1, CallThere
<1>5. ibProvider[i].state # "none"
  BY <1>1 DEF LoneInv, FlowInv, CallFlow
<1>6. \A v : Covers(i, ibCall[i].phase, ibProvider[i], v) => Covers(i, ibCall'[i].phase, ibProvider'[i], v)
  BY <1>1, <1>3 DEF Covers, InHand
<1> QED BY <1>1, <1>2, <1>3, <1>4, <1>5, <1>6, CallLone

\* The operation that a decision begins.
LEMMA DecideFields ==
    ASSUME BudgetInv, NEW m \in BudgetMembers, NEW kind, NEW s, NEW i, NEW value, Decide(m, kind, s, i, value)
    PROVE  /\ ibOp'[m] # NoOperation /\ ibOp'[m].kind = kind /\ ibOp'[m].scope = s /\ ibOp'[m].inv = i
           /\ ibOp'[m].value = value /\ ibOp'[m].phase = "read"
           /\ \A n \in BudgetMembers \ {m} : ibOp'[n] = ibOp[n]
           /\ UNCHANGED ibProvider
<1>1. ibOp \in [BudgetMembers -> OperationType \cup {NoOperation}]
  BY DEF BudgetInv, IbTypeOK, MemberType
<1>2. /\ ibOp'[m] = [kind |-> kind, scope |-> s, inv |-> i, value |-> value, id |-> ibClock + 1, phase |-> "read"]
      /\ \A n \in BudgetMembers \ {m} : ibOp'[n] = ibOp[n]
      /\ UNCHANGED ibProvider
  BY <1>1 DEF Decide
<1> QED BY <1>2 DEF NoOperation

\* What m has of a scope keeps the limits and accounts for the calls.
LEMMA LocalCovers ==
    ASSUME BudgetInv, NEW m \in BudgetMembers, LoneInv(m), NEW s \in ScopeIds
    PROVE  /\ Local(m)[s] \in ScopeType /\ Fits(Local(m)[s])
           /\ \A j \in BudgetCalls : ibCall[j].scope = s => Covers(j, ibCall[j].phase, ibProvider[j], Local(m)[s])
<1>1. ibAt[m] \in Entries /\ Local(m) = Ledger(ibAt[m]) /\ ibAt[m] <= ibAt[m]
  BY LoneTypes
<1>2. Local(m)[s] \in ScopeType /\ Fits(Local(m)[s])
  BY <1>1, LoneTypes DEF LoneInv, LimitInv
<1>3. \A j \in BudgetCalls : ibCall[j].scope = s => Covers(j, ibCall[j].phase, ibProvider[j], Local(m)[s])
  BY <1>1 DEF LoneInv, CoverInv
<1> QED BY <1>2, <1>3

\* The new attempt has room, and no call had begun for it.
LEMMA ReserveLone ==
    ASSUME BudgetInv, NEW m \in BudgetMembers, LoneInv(m), NEW i \in BudgetCalls, ReserveProviderAttempt(m, i)
    PROVE  LoneInv(m)'
<1> DEFINE s == ibCall[i].scope
           sc == Local(m)[s]
           value == Reserved(sc, i, ibClock + 1)
<1>1. ibCall[i].phase = "resolved"
  BY DEF ReserveProviderAttempt
<1>2. CASE CallTo(i, "over") /\ UNCHANGED ibProvider
  BY <1>1, <1>2, QuitLone
<1>3. CASE /\ MayDecide(m) /\ MayReserve(sc) /\ Decide(m, "reserve", s, i, value)
           /\ ibCall' = [ibCall EXCEPT ![i].phase = "reserving"] /\ UNCHANGED ibEnsure
  <2>1. s \in ScopeIds /\ ibClock \in Nat /\ ibClock + 1 \in 0..MaxBudgetWrites /\ ibOp[m] = NoOperation
    <3>1. s \in ScopeIds /\ ibClock \in Nat
      BY LoneTypes
    <3> QED BY <3>1, <1>3, BudgetAssumption DEF MayDecide
  <2>2. /\ sc \in ScopeType /\ Fits(sc)
        /\ \A j \in BudgetCalls : ibCall[j].scope = s => Covers(j, ibCall[j].phase, ibProvider[j], sc)
    BY <2>1, LocalCovers
  <2> HIDE DEF s, sc
  <2>3. /\ value.stamp = ibClock + 1 /\ value.state = "active"
        /\ value.attempts[i].state = "reserved"
        /\ \A x \in BudgetCalls \ {i} : value.attempts[x] = sc.attempts[x]
    BY <2>2, <1>3 DEF Reserved, ScopeType, MayReserve
  <2>4. Fits(value)
    BY <2>1, <2>2, <1>3, FitsReserved
  <2> HIDE DEF value
  <2>5. /\ ibCall'[i].phase = "reserving" /\ ibCall'[i].scope = ibCall[i].scope /\ ibCall'[i].at = ibCall[i].at
        /\ ibCall[i].at = {m} /\ ~Absent(Local(m)[ibCall[i].scope])
        /\ \A j \in BudgetCalls \ {i} : ibCall'[j] = ibCall[j]
    BY <1>1, <1>3, CallThere
  <2>6. ibProvider[i].state = "none"
    BY <1>1 DEF LoneInv, FlowInv, CallFlow
  <2>7. \A j \in BudgetCalls : /\ ibCall'[j].scope = ibCall[j].scope
                               /\ ibCall'[j].phase # "idle" => ibCall[j].phase # "idle"
                               /\ ibCall'[j].phase \in InHand => ibCall[j].phase \in InHand
                               /\ s = ibCall[j].scope => Covers(j, ibCall'[j].phase, ibProvider[j], value)
    <3> SUFFICES ASSUME NEW j \in BudgetCalls
                 PROVE  /\ ibCall'[j].scope = ibCall[j].scope
                        /\ ibCall'[j].phase # "idle" => ibCall[j].phase # "idle"
                        /\ ibCall'[j].phase \in InHand => ibCall[j].phase \in InHand
                        /\ s = ibCall[j].scope => Covers(j, ibCall'[j].phase, ibProvider[j], value)
      OBVIOUS
    <3>1. CASE j = i
      BY <3>1, <1>1, <2>5, <2>6 DEF Covers, InHand
    <3>2. CASE j # i
      BY <3>2, <2>2, <2>3, <2>5 DEF Covers
    <3> QED BY <3>1, <3>2
  <2>8. ~Absent(Local(m)[s]) /\ ~Absent(value)
    BY <2>3, <2>5 DEF s, Absent
  <2>9. LogInv' /\ CommandInv' /\ LastInv(m)' /\ LimitInv(m)' /\ CoverInv(m)'
    BY <1>3, <2>1, <2>3, <2>4, <2>7, <2>8, DecideLone
  <2>10. AloneAtWork(m)'
    <3>1. \A n \in BudgetMembers \ {m} : ibOp'[n] = NoOperation /\ ibEnsure'[n].phase = "unused"
      BY <1>3, DecideFields DEF LoneInv, FlowInv, AloneAtWork
    <3>2. \A j \in BudgetCalls : ibCall'[j].at = IF ibCall'[j].phase = "idle" THEN {} ELSE {m}
      BY <2>5 DEF LoneInv, FlowInv, AloneAtWork
    <3> QED BY <3>1, <3>2 DEF AloneAtWork
  <2>11. CallFlow'
    BY <1>3, <2>5, <2>6, DecideFields DEF LoneInv, FlowInv, CallFlow
  <2>12. OperationFlow(m)'
    BY <1>3, <2>3, <2>5, DecideFields DEF OperationFlow, s
  <2> QED BY <2>9, <2>10, <2>11, <2>12 DEF LoneInv, FlowInv
<1> QED BY <1>2, <1>3 DEF ReserveProviderAttempt

\* The completed attempt still accounts for what the provider does or has done.
LEMMA CompleteLone ==
    ASSUME BudgetInv, NEW m \in BudgetMembers, LoneInv(m), NEW i \in BudgetCalls, CompleteProviderAttempt(m, i)
    PROVE  LoneInv(m)'
<1> DEFINE s == ibCall[i].scope
           sc == Local(m)[s]
           answer == IF ibCall[i].phase = "held" THEN NotCalled ELSE ibCall[i].answer
           value == Completed(sc, i, answer, ibClock + 1)
<1>1. ibCall[i].phase \in {"held", "answered"}
  BY DEF CompleteProviderAttempt
<1>2. CASE CallTo(i, "over") /\ UNCHANGED ibProvider
  BY <1>1, <1>2, QuitLone
<1>3. CASE /\ MayDecide(m) /\ Decide(m, "complete", s, i, value)
           /\ ibCall' = [ibCall EXCEPT ![i].phase = "completing"] /\ UNCHANGED ibEnsure
  <2>1. s \in ScopeIds /\ ibClock \in Nat /\ ibClock + 1 \in 0..MaxBudgetWrites /\ ibOp[m] = NoOperation
    <3>1. s \in ScopeIds /\ ibClock \in Nat
      BY LoneTypes
    <3> QED BY <3>1, <1>3, BudgetAssumption DEF MayDecide
  <2>2. /\ sc \in ScopeType /\ Fits(sc)
        /\ \A j \in BudgetCalls : ibCall[j].scope = s => Covers(j, ibCall[j].phase, ibProvider[j], sc)
    BY <2>1, LocalCovers
  <2>3. answer \in AnswerType
    <3>1. NotCalled \in AnswerType
      BY BudgetAssumption DEF AnswerType, NotCalled
    <3>2. ibCall[i].answer \in AnswerType
      BY DEF BudgetInv, IbTypeOK, CallType
    <3> QED BY <3>1, <3>2
  <2>4. /\ ibCall[i].phase = "held" => ibProvider[i].state = "none"
        /\ ibCall[i].phase = "answered" /\ answer.outcome # "lost" =>
              ibProvider[i].state = "ended" /\ answer.used = ibProvider[i].used
    BY DEF LoneInv, FlowInv, CallFlow
  <2>5. Covers(i, ibCall[i].phase, ibProvider[i], sc)
    BY <2>2
  <2> HIDE DEF s, sc, answer
  <2>6. sc.attempts[i].state = "reserved" /\ sc.attempts[i].charged = BudgetReservation
    BY <1>1, <2>2, <2>5 DEF Covers, InHand, Fits, ActiveProviderCalls
  <2>7. /\ value.stamp = ibClock + 1 /\ value.state \in {sc.state, "exhausted"}
        /\ value.attempts[i].state = IF answer.outcome = "lost" THEN "unknown" ELSE "known"
        /\ value.attempts[i].charged = IF answer.outcome = "reported" THEN answer.used ELSE sc.attempts[i].charged
        /\ \A x \in BudgetCalls \ {i} : value.attempts[x] = sc.attempts[x]
    BY <2>2, <2>6 DEF Completed, ScopeType
  <2>8. Fits(value)
    BY <2>1, <2>2, <2>3, FitsCompleted
  <2> HIDE DEF value
  <2>9. /\ ibCall'[i].phase = "completing" /\ ibCall'[i].scope = ibCall[i].scope /\ ibCall'[i].at = ibCall[i].at
        /\ ibCall'[i].answer = ibCall[i].answer
        /\ ibCall[i].at = {m} /\ ~Absent(Local(m)[ibCall[i].scope])
        /\ \A j \in BudgetCalls \ {i} : ibCall'[j] = ibCall[j]
    BY <1>1, <1>3, CallThere
  <2>10. Covers(i, "completing", ibProvider[i], value)
    <3>1. ibProvider[i].state = "running" => answer.outcome = "lost"
      BY <1>1, <2>4
    <3>2. ibProvider[i].state # "none" => Spending(ibProvider[i]) <= value.attempts[i].charged
      <4>1. CASE answer.outcome = "reported"
        <5> SUFFICES ASSUME ibProvider[i].state # "none"
                     PROVE  Spending(ibProvider[i]) <= value.attempts[i].charged
          OBVIOUS
        <5>1. ibProvider[i].state = "ended" /\ value.attempts[i].charged = ibProvider[i].used
          BY <1>1, <2>4, <2>7, <4>1
        <5>2. ibProvider[i].used \in 0..(BudgetReservation + 1)
          BY DEF BudgetInv, IbTypeOK, CallType
        <5>3. ibProvider[i].used \in Nat /\ BudgetReservation \in Nat
          BY <5>2, BudgetAssumption
        <5>4. Spending(ibProvider[i]) <= ibProvider[i].used
          BY <5>1, <5>3 DEF Spending
        <5> QED BY <5>1, <5>4
      <4>2. CASE answer.outcome # "reported"
        BY <4>2, <2>5, <2>7 DEF Covers
      <4> QED BY <4>1, <4>2
    <3> QED BY <3>1, <3>2, <2>7 DEF Covers, InHand
  <2>11. \A j \in BudgetCalls : /\ ibCall'[j].scope = ibCall[j].scope
                                /\ ibCall'[j].phase # "idle" => ibCall[j].phase # "idle"
                                /\ ibCall'[j].phase \in InHand => ibCall[j].phase \in InHand
                                /\ s = ibCall[j].scope => Covers(j, ibCall'[j].phase, ibProvider[j], value)
    <3> SUFFICES ASSUME NEW j \in BudgetCalls
                 PROVE  /\ ibCall'[j].scope = ibCall[j].scope
                        /\ ibCall'[j].phase # "idle" => ibCall[j].phase # "idle"
                        /\ ibCall'[j].phase \in InHand => ibCall[j].phase \in InHand
                        /\ s = ibCall[j].scope => Covers(j, ibCall'[j].phase, ibProvider[j], value)
      OBVIOUS
    <3>1. CASE j = i
      BY <3>1, <1>1, <2>9, <2>10 DEF InHand
    <3>2. CASE j # i
      BY <3>2, <2>2, <2>7, <2>9 DEF Covers
    <3> QED BY <3>1, <3>2
  <2>12. ~Absent(Local(m)[s]) /\ ~Absent(value)
    BY <2>7, <2>9 DEF s, sc, Absent
  <2>13. LogInv' /\ CommandInv' /\ LastInv(m)' /\ LimitInv(m)' /\ CoverInv(m)'
    BY <1>3, <2>1, <2>7, <2>8, <2>11, <2>12, DecideLone
  <2>14. AloneAtWork(m)'
    BY <1>1, <1>3, <2>9, DecideFields DEF LoneInv, FlowInv, AloneAtWork
  <2>15. CallFlow'
    BY <1>3, <2>9, DecideFields DEF LoneInv, FlowInv, CallFlow
  <2>16. OperationFlow(m)'
    BY <1>3, <2>9, DecideFields DEF OperationFlow, s
  <2> QED BY <2>13, <2>14, <2>15, <2>16 DEF LoneInv, FlowInv
<1> QED BY <1>2, <1>3 DEF CompleteProviderAttempt

\* What EnsureSemanticBudgetScope does between its operations.
LEMMA EnsureToLone ==
    ASSUME BudgetInv, NEW m \in BudgetMembers, LoneInv(m), NEW next, EnsureTo(m, next),
           ibOp[m] = NoOperation \/ ibEnsure[m].phase = "unused",
           Early(m)' => Early(m)
    PROVE  LoneInv(m)'
<1>1. /\ UNCHANGED <<ibLog, ibSent, ibClock, ibAt, ibOp, ibCall, ibProvider>>
      /\ \A n \in BudgetMembers \ {m} : ibEnsure'[n] = ibEnsure[n]
  BY DEF EnsureTo, BudgetInv, IbTypeOK, MemberType
<1>2. ibOp[m] # NoOperation => ibOp[m].kind \notin {"create", "finish"}
  BY DEF LoneInv, FlowInv, OperationFlow
<1>3. AloneAtWork(m)' /\ CallFlow'
  BY <1>1 DEF LoneInv, FlowInv, AloneAtWork, CallFlow
<1>4. OperationFlow(m)'
  BY <1>1, <1>2 DEF LoneInv, FlowInv, OperationFlow
<1>5. \A i \in BudgetCalls : ibCall'[i].phase # "idle" => ~Absent(Local(m)[ibCall'[i].scope])
  BY <1>1 DEF LoneInv, LastInv
<1>6. LogInv' /\ CommandInv' /\ LastInv(m)' /\ LimitInv(m)'
  BY <1>1, <1>5, QuietLone
<1>7. CoverInv(m)'
  BY <1>1, QuietCovers DEF LoneInv
<1> QED BY <1>3, <1>4, <1>6, <1>7 DEF LoneInv, FlowInv

\* EnsureSemanticBudgetScope starts before m creates its scope.
LEMMA EnsureStartsLone ==
    ASSUME BudgetInv, NEW m \in BudgetMembers, LoneInv(m), EnsureStarts(m)
    PROVE  LoneInv(m)'
<1>1. ibEnsure[m].phase = "unused" /\ \E next : EnsureTo(m, next)
  BY DEF EnsureStarts
<1>2. Early(m)
  BY <1>1 DEF Early
<1> QED BY <1>1, <1>2, EnsureToLone

\* A scope fits its limits, whatever its state, when its attempts do.
LEMMA FitsAttempts ==
    ASSUME NEW v, NEW sc, v.attempts = sc.attempts, Fits(sc)
    PROVE  Fits(v)
BY DEF Fits, ActiveProviderCalls, CountedTokens

\* EnsureSemanticBudgetScope decides on an operation.
LEMMA ChangeLone ==
    ASSUME BudgetInv, NEW m \in BudgetMembers, LoneInv(m),
           NEW kind, kind = ibEnsure[m].phase, kind \in {"finish", "create", "reactivate"},
           NEW s \in ScopeIds, NEW value, MayDecide(m), Decide(m, kind, s, FirstScope, value),
           UNCHANGED <<ibCall, ibEnsure>>,
           value.stamp = ibClock + 1, ~Absent(value), Fits(value),
           kind = "create" => s = m,
           kind # "create" => ~Absent(Local(m)[s]),
           \A j \in BudgetCalls : s = ibCall[j].scope => Covers(j, ibCall[j].phase, ibProvider[j], value)
    PROVE  LoneInv(m)'
<1>1. ibOp[m] = NoOperation
  BY DEF MayDecide
<1>2. LogInv' /\ CommandInv' /\ LastInv(m)' /\ LimitInv(m)' /\ CoverInv(m)'
  BY <1>1, DecideLone
<1>3. /\ ibOp'[m] # NoOperation /\ ibOp'[m].kind = kind /\ ibOp'[m].scope = s
      /\ \A n \in BudgetMembers \ {m} : ibOp'[n] = ibOp[n]
      /\ UNCHANGED ibProvider
  BY DecideFields
<1>4. AloneAtWork(m)' /\ CallFlow'
  BY <1>3 DEF LoneInv, FlowInv, AloneAtWork, CallFlow
<1>5. OperationFlow(m)'
  BY <1>3 DEF OperationFlow
<1> QED BY <1>2, <1>4, <1>5 DEF LoneInv, FlowInv

\* A scope that is completed or reactivated keeps its attempts; one that is
\* created has no calls yet.
LEMMA EnsureStepLone ==
    ASSUME BudgetInv, NEW m \in BudgetMembers, LoneInv(m), EnsureStep(m)
    PROVE  LoneInv(m)'
<1> DEFINE s == CHOOSE x \in ibEnsure[m].previous : TRUE
           sc == Local(m)[s]
<1>1. ibOp[m] = NoOperation
  BY DEF EnsureStep
<1>2. ibEnsure[m].phase \in {"finish", "reactivate"} => s \in ScopeIds
  BY DEF BudgetInv, IbTypeOK, EnsureInv, MemberType
<1>3. ibClock \in Nat /\ (MayDecide(m) => ibClock + 1 \in 0..MaxBudgetWrites)
  BY LoneTypes, BudgetAssumption DEF MayDecide
<1>4. ASSUME NEW state \in {"active", "completed"}, NEW kind \in {"finish", "reactivate"},
             kind = ibEnsure[m].phase, sc.state # "absent", MayDecide(m),
             Decide(m, kind, s, FirstScope, [sc EXCEPT !.state = state, !.stamp = ibClock + 1]),
             UNCHANGED <<ibCall, ibEnsure>>
      PROVE  LoneInv(m)'
  <2>1. s \in ScopeIds
    BY <1>2, <1>4
  <2> HIDE DEF s
  <2>2. /\ sc \in ScopeType /\ Fits(sc)
        /\ \A j \in BudgetCalls : ibCall[j].scope = s => Covers(j, ibCall[j].phase, ibProvider[j], sc)
    BY <2>1, LocalCovers
  <2>3. ~Absent(Local(m)[s])
    BY <1>4 DEF Absent
  <2> HIDE DEF sc
  <2> DEFINE value == [sc EXCEPT !.state = state, !.stamp = ibClock + 1]
  <2>4. value.stamp = ibClock + 1 /\ value.state = state /\ value.attempts = sc.attempts
    BY <2>2 DEF ScopeType
  <2>5. Decide(m, kind, s, FirstScope, value)
    BY <1>4
  <2> HIDE DEF value
  <2>6. Fits(value) /\ ~Absent(value)
    BY <2>2, <2>4, FitsAttempts DEF Absent
  <2>7. \A j \in BudgetCalls : s = ibCall[j].scope => Covers(j, ibCall[j].phase, ibProvider[j], value)
    BY <2>2, <2>4, CoversAttempts
  <2> QED BY <1>4, <2>1, <2>3, <2>4, <2>5, <2>6, <2>7, ChangeLone
<1>5. CASE ibEnsure[m].phase = "create" /\ MayDecide(m)
           /\ Decide(m, "create", m, FirstScope, NewScope(ibClock + 1)) /\ UNCHANGED <<ibCall, ibEnsure>>
  <2> DEFINE value == NewScope(ibClock + 1)
  <2>1. value.stamp = ibClock + 1 /\ ~Absent(value)
    BY DEF NewScope, Absent
  <2>2. Fits(value)
    BY <1>3, <1>5, FitsNew
  <2> HIDE DEF value
  <2>3. Absent(Local(m)[m])
    <3>1. Uncreated(m)
      BY <1>1, <1>5 DEF Early, LoneInv, LastInv
    <3> QED BY <3>1, LoneTypes DEF Uncreated
  <2>4. \A j \in BudgetCalls : m = ibCall[j].scope => Covers(j, ibCall[j].phase, ibProvider[j], value)
    <3> SUFFICES ASSUME NEW j \in BudgetCalls, m = ibCall[j].scope
                 PROVE  Covers(j, ibCall[j].phase, ibProvider[j], value)
      OBVIOUS
    <3>1. ibCall[j].phase = "idle"
      BY <2>3 DEF LoneInv, LastInv
    <3>2. ibProvider[j].state = "none"
      BY <3>1 DEF LoneInv, FlowInv, CallFlow
    <3> QED BY <3>1, <3>2 DEF Covers, InHand
  <2>5. m \in ScopeIds
    BY DEF ScopeIds
  <2>6. Decide(m, "create", m, FirstScope, value)
    BY <1>5 DEF value
  <2> QED BY <1>5, <2>1, <2>2, <2>4, <2>5, <2>6, ChangeLone
<1>6. ASSUME NEW p \in {"create", "reactivate", "over"}, EnsureTo(m, [ibEnsure[m] EXCEPT !.phase = p]),
             p = "create" => ibEnsure[m].phase = "finish"
      PROVE  LoneInv(m)'
  <2>1. ibEnsure'[m].phase = p
    BY <1>6 DEF EnsureTo, BudgetInv, IbTypeOK, MemberType
  <2>2. Early(m)' => Early(m)
    BY <1>6, <2>1 DEF Early
  <2> QED BY <1>1, <1>6, <2>2, EnsureToLone
<1> QED BY <1>4, <1>5, <1>6 DEF EnsureStep

\* A restart ends the operation and the calls of m, not what the provider does.
LEMMA RestartLone ==
    ASSUME BudgetInv, NEW m \in BudgetMembers, LoneInv(m), MemberRestarts(m)
    PROVE  LoneInv(m)'
<1>1. /\ UNCHANGED <<ibLog, ibSent, ibClock, ibAt, ibProvider>> /\ ibOp'[m] = NoOperation
      /\ \A n \in BudgetMembers \ {m} : ibOp'[n] = ibOp[n] /\ ibEnsure'[n] = ibEnsure[n]
  BY DEF MemberRestarts, BudgetInv, IbTypeOK, MemberType
<1>2. ibEnsure'[m].phase = IF ibEnsure[m].phase = "unused" THEN "unused" ELSE "over"
  <2>1. ibEnsure \in [BudgetMembers -> [phase : PhasesOfEnsure, previous : SUBSET ScopeIds]]
    BY DEF BudgetInv, IbTypeOK, MemberType, PhasesOfEnsure
  <2>2. ibEnsure' = [ibEnsure EXCEPT ![m].phase = IF @ = "unused" THEN @ ELSE "over"]
    BY DEF MemberRestarts
  <2> QED BY <2>1, <2>2
<1>3. ASSUME NEW i \in BudgetCalls
      PROVE  /\ ibCall'[i].at = ibCall[i].at /\ ibCall'[i].scope = ibCall[i].scope
             /\ ibCall'[i].phase = IF ibCall[i].phase = "idle" THEN "idle" ELSE "over"
  <2>1. ibCall[i].at = IF ibCall[i].phase = "idle" THEN {} ELSE {m}
    BY DEF LoneInv, FlowInv, AloneAtWork
  <2>2. ibCall'[i] = IF ibCall[i].at = {m} THEN [ibCall[i] EXCEPT !.phase = "over"] ELSE ibCall[i]
    BY DEF MemberRestarts
  <2>3. ibCall[i] \in [phase : PhasesOfCall, at : SUBSET BudgetMembers, scope : ScopeIds, answer : AnswerType]
    BY DEF BudgetInv, IbTypeOK, CallType, PhasesOfCall
  <2> QED BY <2>1, <2>2, <2>3
<1>4. AloneAtWork(m)'
  BY <1>1, <1>3 DEF LoneInv, FlowInv, AloneAtWork
<1>5. CallFlow'
  BY <1>1, <1>3 DEF LoneInv, FlowInv, CallFlow
<1>6. OperationFlow(m)'
  BY <1>1 DEF OperationFlow
<1>7. LogInv' /\ CommandInv' /\ LastInv(m)' /\ LimitInv(m)'
  <2>1. Early(m)' => Early(m)
    BY <1>2 DEF Early
  <2>2. \A i \in BudgetCalls : ibCall'[i].phase # "idle" => ~Absent(Local(m)[ibCall'[i].scope])
    BY <1>3 DEF LoneInv, LastInv
  <2> QED BY <1>1, <2>1, <2>2, QuietLone
<1>8. CoverInv(m)'
  <2>1. ASSUME NEW i \in BudgetCalls, NEW v, Covers(i, ibCall[i].phase, ibProvider[i], v)
        PROVE  Covers(i, ibCall'[i].phase, ibProvider'[i], v)
    BY <1>1, <1>3, <2>1 DEF Covers, InHand
  <2> QED BY <1>1, <1>3, <2>1, QuietCovers DEF LoneInv
<1> QED BY <1>4, <1>5, <1>6, <1>7, <1>8 DEF LoneInv, FlowInv

\* A step that changes nothing of it.
LEMMA StutterLone ==
    ASSUME BudgetInv, NEW m \in BudgetMembers, LoneInv(m), UNCHANGED ibVars
    PROVE  LoneInv(m)'
<1>1. UNCHANGED <<ibLog, ibSent, ibClock, ibAt, ibOp, ibCall, ibProvider, ibEnsure>>
  BY DEF ibVars
<1>2. FlowInv(m)'
  BY <1>1 DEF LoneInv, FlowInv, AloneAtWork, CallFlow, OperationFlow
<1>3. LogInv' /\ CommandInv' /\ LastInv(m)' /\ LimitInv(m)'
  <2>1. \A i \in BudgetCalls : ibCall'[i].phase # "idle" => ~Absent(Local(m)[ibCall'[i].scope])
    BY <1>1 DEF LoneInv, LastInv
  <2>2. Early(m)' => Early(m)
    BY <1>1 DEF Early
  <2> QED BY <1>1, <2>1, <2>2, QuietLone
<1>4. CoverInv(m)'
  BY <1>1, QuietCovers DEF LoneInv
<1> QED BY <1>2, <1>3, <1>4 DEF LoneInv

\* Whoever writes alone.
LonelyInv == \A m \in BudgetMembers : ibWriters = {m} => LoneInv(m)

\* Nothing has happened at first.
LEMMA LonelyStarts == IbInit => LonelyInv
<1> SUFFICES ASSUME IbInit, NEW m \in BudgetMembers PROVE LoneInv(m)
  BY DEF LonelyInv
<1> DEFINE first == [[s \in ScopeIds |-> NoScope] EXCEPT ![FirstScope] = NewScope(0)]
<1>1. /\ Entries = {1} /\ Ledger(1) = first /\ Latest = first /\ ibLog[1].id = 0
  BY DEF IbInit, Entries, Ledger, Latest
<1>2. /\ ibSent = {} /\ ibOp = [n \in BudgetMembers |-> NoOperation] /\ ibClock = 0
      /\ \A n \in BudgetMembers : ibEnsure[n].phase = "unused"
      /\ \A i \in BudgetCalls : ibCall[i].phase = "idle" /\ ibCall[i].at = {} /\ ibProvider[i].state = "none"
  BY DEF IbInit
<1>3. \A s \in ScopeIds : first[s] \in {NoScope, NewScope(0)}
  OBVIOUS
<1>4. first[m] = NoScope /\ Absent(NoScope)
  <2>1. m # FirstScope /\ m \in ScopeIds
    BY BudgetAssumption DEF ScopeIds
  <2> QED BY <2>1 DEF Absent, NoScope, NewScope
<1> HIDE DEF first
<1>5. FlowInv(m)
  BY <1>2 DEF FlowInv, AloneAtWork, CallFlow, OperationFlow
<1>6. LogInv /\ CommandInv
  BY <1>1, <1>2 DEF LogInv, CommandInv
<1>7. LastInv(m)
  BY <1>1, <1>2, <1>4 DEF LastInv, Uncreated
<1>8. LimitInv(m)
  <2>1. 0 \in 0..MaxBudgetWrites
    BY BudgetAssumption
  <2>2. Fits(NewScope(0)) /\ Fits(NoScope)
    BY <2>1, FitsNew
  <2> QED BY <1>1, <1>2, <1>3, <2>2 DEF LimitInv
<1>9. CoverInv(m)
  BY <1>2 DEF CoverInv, Covers, InHand
<1> QED BY <1>5, <1>6, <1>7, <1>8, <1>9 DEF LoneInv

\* Every step of the writer, of the group and of the provider.
LEMMA LonelyStep == BudgetInv /\ LonelyInv /\ [IbNext]_ibVars => LonelyInv'
<1> SUFFICES ASSUME BudgetInv, LonelyInv, [IbNext]_ibVars, NEW m \in BudgetMembers, ibWriters' = {m}
             PROVE  LoneInv(m)'
  BY DEF LonelyInv
<1>1. ibWriters' = ibWriters
  <2>1. ASSUME NEW c \in ibSent, Commit(c) PROVE UNCHANGED ibWriters
    BY <2>1 DEF Commit
  <2>2. ASSUME NEW n, \/ ApplyCommand(n) \/ UpsertBudgetScope(n) \/ OperationReturns(n) \/ OperationFails(n)
                      \/ MemberRestarts(n)
        PROVE  UNCHANGED ibWriters
    BY <2>2 DEF ApplyCommand, UpsertBudgetScope, OperationReturns, OperationFails, MemberRestarts
  <2>3. ASSUME NEW n, EnsureStarts(n) \/ EnsureStep(n) PROVE UNCHANGED ibWriters
    BY <2>3 DEF EnsureStarts, EnsureStep, EnsureTo, Decide
  <2>4. ASSUME NEW n, NEW i, InvokeStarts(n, i) \/ ReserveProviderAttempt(n, i) \/ CompleteProviderAttempt(n, i)
        PROVE  UNCHANGED ibWriters
    BY <2>4 DEF InvokeStarts, ReserveProviderAttempt, CompleteProviderAttempt, CallTo, Decide
  <2>5. ASSUME NEW i, \/ CallProvider(i)
                      \/ \E used \in {0, BudgetReservation, BudgetReservation + 1} : ProviderEnds(i, used)
                      \/ \E outcome \in {"reported", "unreported", "lost"} : ConnectorReturns(i, outcome)
        PROVE  UNCHANGED ibWriters
    BY <2>5 DEF CallProvider, CallTo, ProviderEnds, ConnectorReturns
  <2>6. CASE UNCHANGED ibVars
    BY <2>6 DEF ibVars
  <2> QED BY <2>1, <2>2, <2>3, <2>4, <2>5, <2>6 DEF IbNext
<1>2. ibWriters = {m} /\ LoneInv(m)
  BY <1>1 DEF LonelyInv
<1>3. /\ \A n \in BudgetMembers \ {m} : ibOp[n] = NoOperation /\ ibEnsure[n].phase = "unused"
      /\ \A i \in BudgetCalls : ibCall[i].phase # "idle" => ibCall[i].at = {m}
  BY <1>2 DEF LoneInv, FlowInv, AloneAtWork
<1>4. ASSUME NEW c \in ibSent, Commit(c) PROVE LoneInv(m)'
  BY <1>2, <1>4, CommitLone
<1>5. ASSUME NEW n \in BudgetMembers,
             \/ ApplyCommand(n) \/ UpsertBudgetScope(n) \/ OperationReturns(n) \/ OperationFails(n)
             \/ EnsureStarts(n) \/ EnsureStep(n) \/ MemberRestarts(n)
      PROVE  LoneInv(m)'
  <2>1. n = m
    <3>1. CASE ApplyCommand(n) \/ EnsureStarts(n) \/ MemberRestarts(n)
      BY <1>2, <3>1 DEF ApplyCommand, EnsureStarts, MemberRestarts
    <3>2. CASE UpsertBudgetScope(n) \/ OperationReturns(n) \/ OperationFails(n)
      BY <1>3, <3>2 DEF UpsertBudgetScope, OperationReturns, OperationFails
    <3>3. CASE EnsureStep(n)
      <4>1. ibEnsure[n].phase # "unused"
        BY <3>3 DEF EnsureStep
      <4> QED BY <1>3, <4>1
    <3> QED BY <1>5, <3>1, <3>2, <3>3
  <2> QED BY <1>2, <1>5, <2>1, ApplyLone, UpsertLone, EndLone, EnsureStartsLone, EnsureStepLone, RestartLone
<1>6. ASSUME NEW n \in BudgetMembers, NEW i \in BudgetCalls,
             InvokeStarts(n, i) \/ ReserveProviderAttempt(n, i) \/ CompleteProviderAttempt(n, i)
      PROVE  LoneInv(m)'
  <2>1. n = m
    <3>1. CASE InvokeStarts(n, i)
      BY <1>2, <3>1 DEF InvokeStarts
    <3>2. CASE ReserveProviderAttempt(n, i) \/ CompleteProviderAttempt(n, i)
      <4>1. ibCall[i].phase # "idle" /\ ibCall[i].at = {n}
        BY <3>2 DEF ReserveProviderAttempt, CompleteProviderAttempt
      <4>2. {n} = {m}
        BY <1>3, <4>1
      <4> QED BY <4>2
    <3> QED BY <1>6, <3>1, <3>2
  <2> QED BY <1>2, <1>6, <2>1, InvokeLone, ReserveLone, CompleteLone
<1>7. ASSUME NEW i \in BudgetCalls,
             \/ CallProvider(i)
             \/ \E used \in {0, BudgetReservation, BudgetReservation + 1} : ProviderEnds(i, used)
             \/ \E outcome \in {"reported", "unreported", "lost"} : ConnectorReturns(i, outcome)
      PROVE  LoneInv(m)'
  BY <1>2, <1>7, CallProviderLone, ProviderEndsLone, ConnectorReturnsLone
<1>8. CASE UNCHANGED ibVars
  BY <1>2, <1>8, StutterLone
<1> QED BY <1>4, <1>5, <1>6, <1>7, <1>8 DEF IbNext

\* While one member writes, its ledger and what the provider does keep together.
THEOREM LonelyInvariant == IbSpec => []LonelyInv
<1>1. IbInit => BudgetInv /\ LonelyInv
  BY BudgetStarts, LonelyStarts
<1>2. BudgetInv /\ LonelyInv /\ [IbNext]_ibVars => BudgetInv' /\ LonelyInv'
  BY BudgetStep, LonelyStep
<1> QED BY <1>1, <1>2, PTL DEF IbSpec

\* HardLimits: with one member that serves the binding, the provider never runs
\* more calls for a scope nor is asked for more tokens than its limits allow, for
\* any number of calls, lost answers, late proposals and restarts
\* (reserveBudgetAttempt, completeBudgetAttempt, UpsertBudgetScope).
THEOREM LimitsHard == IbSpec => []HardLimits
<1>1. BudgetInv /\ LonelyInv => HardLimits
  <2> SUFFICES ASSUME BudgetInv, LonelyInv, Cardinality(ibWriters) = 1, NEW s \in ScopeIds
               PROVE  /\ Cardinality({i \in CallsOf(s) : ibProvider[i].state = "running"}) <= MaxConcurrentCalls
                      /\ Spent(s) <= MaxBudgetTokens
    BY DEF HardLimits, WithinLimits
  <2>1. PICK m \in BudgetMembers : ibWriters = {m}
    <3>1. ibWriters \subseteq BudgetMembers /\ IsFiniteSet(ibWriters)
      BY FS_Subset, BudgetAssumption DEF BudgetInv, IbTypeOK, MemberType
    <3>2. PICK m : ibWriters = {m}
      BY <3>1, FS_Singleton
    <3> QED BY <3>1, <3>2
  <2>2. LoneInv(m)
    BY <2>1 DEF LonelyInv
  <2>3. /\ Len(ibLog) \in Entries /\ Latest = Ledger(Len(ibLog)) /\ ibAt[m] <= Len(ibLog)
        /\ Latest[s] \in ScopeType
    BY LoneTypes
  <2>4. Fits(Latest[s])
    BY <2>2, <2>3 DEF LoneInv, LimitInv
  <2>5. \A i \in CallsOf(s) : Covers(i, ibCall[i].phase, ibProvider[i], Latest[s])
    BY <2>2, <2>3 DEF LoneInv, CoverInv, CallsOf
  <2>6. CallType
    BY DEF BudgetInv, IbTypeOK
  <2> QED BY <2>3, <2>4, <2>5, <2>6, CoveredLimits
<1> QED BY <1>1, BudgetInvariant, LonelyInvariant, PTL
=============================================================================
