--------------------------- MODULE InferenceBudget ---------------------------
(***************************************************************************)
(* Budgets of provider calls (internal/inference/service): scopes hold the *)
(* limits of one embedding binding and the attempts charged to them.  A    *)
(* member reserves an attempt before it calls the provider and completes   *)
(* it afterwards; both replace the whole scope through the system Raft     *)
(* group, which compares the digest of the scope they mean to replace.     *)
(*                                                                         *)
(* An invocation is an attempt with an identity and a request of its own.  *)
(* Tokens stand for all the counters that a reservation charges in advance *)
(* (requests, attempts, output tokens, time, cost); time itself, the       *)
(* expiry and the pruning of scopes are left out.                          *)
(***************************************************************************)
EXTENDS Naturals, Sequences, FiniteSets, Functions

CONSTANTS
    BudgetMembers,      \* the members of the system group
    BudgetCalls,        \* calls of Invoke with a budget
    FirstScope,         \* the scope that is active at first
    MaxBudgetTokens,    \* limits.MaxInputTokens
    BudgetReservation,  \* what an attempt reserves
    MaxConcurrentCalls, \* limits.MaxConcurrentProviderCalls
    MaxBudgetWrites,    \* bound: changes of scopes that members decide on
    MaxBudgetFaults     \* bound: timeouts and crashes

ASSUME BudgetAssumption ==
    /\ MaxBudgetTokens \in Nat \ {0} /\ MaxConcurrentCalls \in Nat \ {0}
    /\ BudgetReservation \in 1..MaxBudgetTokens
    /\ FirstScope \notin BudgetMembers
    /\ IsFiniteSet(BudgetMembers) /\ IsFiniteSet(BudgetCalls)
    /\ {MaxBudgetWrites, MaxBudgetFaults} \subseteq Nat

VARIABLES
    ibWriters,   \* the members that serve the binding in this behaviour
    ibLog,       \* entries of the group: command, its result, and the ledger after it
    ibAt,        \* ibAt[m]: the entry that m's ledger reflects
    ibSent,      \* commands proposed and not in the log
    ibOp,        \* ibOp[m]: the operation that holds m's budgetMu
    ibFenced,    \* ibFenced[m]: budgetPersistenceErr is set
    ibCall,      \* ibCall[i]: where Invoke is
    ibProvider,  \* ibProvider[i]: the call as the provider sees it
    ibEnsure,    \* ibEnsure[m]: where EnsureSemanticBudgetScope is
    ibClock,     \* the time of the last decision
    ibFaults

ibVars == <<ibWriters, ibLog, ibAt, ibSent, ibOp, ibFenced, ibCall, ibProvider,
            ibEnsure, ibClock, ibFaults>>

\* EnsureSemanticBudgetScope of member m creates the scope named m.
ScopeIds == {FirstScope} \cup BudgetMembers

-----------------------------------------------------------------------------
(* Scopes.  The stamp stands for UpdatedAt, which makes digests differ.    *)

NotReserved == [state |-> "none", charged |-> 0]
NewScope(t) == [state |-> "active", stamp |-> t, attempts |-> [i \in BudgetCalls |-> NotReserved]]
NoScope == [NewScope(0) EXCEPT !.state = "absent"]

\* Fault: an attempt whose answer was lost no longer counts as a call.
ReservedProviderCalls(sc) == {i \in BudgetCalls : sc.attempts[i].state = "reserved"}

\* calculateBudgetUsage: an attempt that is reserved, for however long, or
\* whose outcome is unknown may still run at the provider.
ActiveProviderCalls(sc) == {i \in BudgetCalls : sc.attempts[i].state \in {"reserved", "unknown"}}
ChargedTokens(sc) == FoldFunction(+, 0, [i \in BudgetCalls |-> sc.attempts[i].charged])

\* reserveBudgetAttempt: the checks, and the scope with the attempt.
MayReserve(sc) ==
    /\ sc.state = "active"
    /\ Cardinality(ActiveProviderCalls(sc)) < MaxConcurrentCalls
    /\ ChargedTokens(sc) + BudgetReservation <= MaxBudgetTokens

Reserved(sc, i, t) ==
    [sc EXCEPT !.stamp = t,
               !.attempts[i] = [state |-> "reserved", charged |-> BudgetReservation]]

\* completeBudgetAttempt: an attempt that is missing or over leaves the scope as
\* it is.  Only an outcome that is known lets reported usage replace the charge.
Completed(sc, i, answer, t) ==
    IF sc.attempts[i].state # "reserved" THEN sc
    ELSE [sc EXCEPT
            !.stamp = t,
            !.state = IF answer.outcome = "reported" /\ answer.used > BudgetReservation
                      THEN "exhausted" ELSE @,
            !.attempts[i] =
                [state   |-> IF answer.outcome = "lost" THEN "unknown" ELSE "known",
                 charged |-> IF answer.outcome = "reported" THEN answer.used ELSE @.charged]]

\* failReservedInvocationBudget: the provider has not been called.
NotCalled == [outcome |-> "reported", used |-> 0]

-----------------------------------------------------------------------------
(* The ledger and the group.                                               *)

Ledger(k) == ibLog[k].ledger
Local(m) == Ledger(ibAt[m])
Latest == Ledger(Len(ibLog))

\* CurrentSemanticBudgetScope.
ActiveScopes(ledger) == {s \in ScopeIds : ledger[s].state = "active"}

\* applyInferenceBudgetMutation: "same" when the scope already has the digest.
BudgetVerdict(ledger, c) ==
    LET current == ledger[c.scope]
    IN  CASE ~c.alloc /\ current.stamp = c.value.stamp -> "same"
          [] ~c.alloc /\ current.stamp # c.previous -> "refused"
          [] c.enforce /\ ActiveScopes(ledger) \ {c.scope} # {} -> "refused"
          [] OTHER -> "applied"

\* The group commits a command; every member decides it alike.
Commit(c) ==
    LET verdict == BudgetVerdict(Latest, c)
    IN  /\ c \in ibSent
        /\ ibSent' = ibSent \ {c}
        /\ ibLog' = Append(ibLog,
                      [id |-> c.id, ok |-> verdict # "refused",
                       ledger |-> IF verdict = "applied" THEN [Latest EXCEPT ![c.scope] = c.value]
                                  ELSE Latest])
        /\ UNCHANGED <<ibWriters, ibAt, ibOp, ibFenced, ibCall, ibProvider, ibEnsure, ibClock,
                       ibFaults>>

\* AuthorizationRaftStateMachine.ApplyCommand holds budgetApplyMu, not budgetMu:
\* it may run in the middle of an operation.
ApplyCommand(m) ==
    /\ m \in ibWriters /\ ibAt[m] < Len(ibLog)
    /\ ibAt' = [ibAt EXCEPT ![m] = @ + 1]
    /\ UNCHANGED <<ibWriters, ibLog, ibSent, ibOp, ibFenced, ibCall, ibProvider, ibEnsure,
                   ibClock, ibFaults>>

-----------------------------------------------------------------------------
(* An operation under budgetMu: it reads the scope and decides, then       *)
(* UpsertBudgetScope reads it again, proposes and waits.                   *)

NoOperation == [kind |-> "none"]
MayDecide(m) == ibOp[m] = NoOperation /\ ~ibFenced[m] /\ ibClock < MaxBudgetWrites

Decide(m, kind, s, i, value) ==
    /\ ibClock' = ibClock + 1
    /\ ibOp' = [ibOp EXCEPT ![m] = [kind |-> kind, scope |-> s, inv |-> i, value |-> value,
                                    id |-> ibClock + 1, phase |-> "read"]]
    /\ UNCHANGED <<ibWriters, ibLog, ibAt, ibSent, ibFenced, ibProvider, ibFaults>>

\* Fault: only the creation of a scope looks for other active scopes.
CommandTrustsReactivation(m, op) ==
    LET previous == Local(m)[op.scope]
    IN  [id |-> op.id, scope |-> op.scope, value |-> op.value, previous |-> previous.stamp,
         alloc |-> previous.state = "absent", enforce |-> previous.state = "absent"]

\* walUsageLedger.UpsertBudgetScope: the digest to replace is that of the scope
\* as it is now, which need not be the scope that the value was made from.
Command(m, op) ==
    LET previous == Local(m)[op.scope]
    IN  [id |-> op.id, scope |-> op.scope, value |-> op.value, previous |-> previous.stamp,
         alloc |-> previous.state = "absent",
         enforce |-> previous.state # "active" /\ op.value.state = "active"]

UpsertBudgetScope(m) ==
    /\ ibOp[m] # NoOperation /\ ibOp[m].phase = "read"
    /\ ibSent' = ibSent \cup {Command(m, ibOp[m])}
    /\ ibOp' = [ibOp EXCEPT ![m].phase = "sent"]
    /\ UNCHANGED <<ibWriters, ibLog, ibAt, ibFenced, ibCall, ibProvider, ibEnsure, ibClock,
                   ibFaults>>

\* What the caller of an operation does with its result.
Continue(m, op, ok) ==
    /\ ibOp' = [ibOp EXCEPT ![m] = NoOperation]
    /\ ibCall' = IF op.kind \in {"reserve", "complete"}
                 THEN [ibCall EXCEPT ![op.inv].phase =
                         IF op.kind = "reserve" /\ ok THEN "held" ELSE "over"]
                 ELSE ibCall
    /\ ibEnsure' = CASE op.kind = "finish" ->
                          [ibEnsure EXCEPT ![m].phase = IF ok THEN "create" ELSE "over"]
                     [] op.kind = "create" ->
                          [ibEnsure EXCEPT ![m].phase =
                             IF ~ok /\ ibEnsure[m].previous # {} THEN "reactivate" ELSE "over"]
                     [] op.kind = "reactivate" -> [ibEnsure EXCEPT ![m].phase = "over"]
                     [] OTHER -> ibEnsure

OperationReturns(m) ==
    /\ ibOp[m] # NoOperation /\ ibOp[m].phase = "sent"
    /\ \E k \in 1..ibAt[m] : /\ ibLog[k].id = ibOp[m].id
                             /\ Continue(m, ibOp[m], ibLog[k].ok)
    /\ UNCHANGED <<ibWriters, ibLog, ibAt, ibSent, ibFenced, ibProvider, ibClock, ibFaults>>

\* handleBudgetMutationError: any error but FailedPrecondition (no leader, a
\* timeout, a cancellation) fences the member; what it proposed may still come.
OperationFails(m) ==
    /\ ibOp[m] # NoOperation /\ ibFaults < MaxBudgetFaults
    /\ ibFaults' = ibFaults + 1
    /\ ibFenced' = [ibFenced EXCEPT ![m] = TRUE]
    /\ Continue(m, ibOp[m], FALSE)
    /\ UNCHANGED <<ibWriters, ibLog, ibAt, ibSent, ibProvider, ibClock>>

-----------------------------------------------------------------------------
(* Invoke.                                                                 *)

\* InferenceAdapter.Embed takes the one active scope of the binding.
InvokeStarts(m, i) ==
    /\ m \in ibWriters /\ ibCall[i].phase = "idle"
    /\ Cardinality(ActiveScopes(Local(m))) = 1
    /\ ibCall' = [ibCall EXCEPT ![i] = [@ EXCEPT !.phase = "resolved", !.at = {m},
                                                 !.scope = CHOOSE s \in ActiveScopes(Local(m)) : TRUE]]
    /\ UNCHANGED <<ibWriters, ibLog, ibAt, ibSent, ibOp, ibFenced, ibProvider, ibEnsure, ibClock,
                   ibFaults>>

CallTo(i, phase) ==
    /\ ibCall' = [ibCall EXCEPT ![i].phase = phase]
    /\ UNCHANGED <<ibWriters, ibLog, ibAt, ibSent, ibOp, ibFenced, ibEnsure, ibClock, ibFaults>>

\* reserveInvocationBudget, ReserveProviderAttempt.  It fails before it decides
\* when the scope has no room, when the member is fenced, and with errors that
\* set no fence: while the group has no leader (RequireBudgetWriteAllowed).
ReserveProviderAttempt(m, i) ==
    LET sc == Local(m)[ibCall[i].scope]
    IN  /\ ibCall[i].phase = "resolved" /\ ibCall[i].at = {m}
        /\ \/ /\ MayDecide(m) /\ MayReserve(sc)
              /\ Decide(m, "reserve", ibCall[i].scope, i, Reserved(sc, i, ibClock + 1))
              /\ ibCall' = [ibCall EXCEPT ![i].phase = "reserving"]
              /\ UNCHANGED ibEnsure
           \/ /\ ibFenced[m] \/ ibOp[m] = NoOperation
              /\ CallTo(i, "over") /\ UNCHANGED ibProvider

\* CompleteProviderAttempt, after an answer or instead of the call: no secret,
\* no time left, no permission any more, or BeforeProviderAttempt failed.  When it
\* fails as a reservation may, the attempt stays reserved.
CompleteProviderAttempt(m, i) ==
    LET answer == IF ibCall[i].phase = "held" THEN NotCalled ELSE ibCall[i].answer
        sc == Local(m)[ibCall[i].scope]
    IN  /\ ibCall[i].phase \in {"held", "answered"} /\ ibCall[i].at = {m}
        /\ \/ /\ MayDecide(m)
              /\ Decide(m, "complete", ibCall[i].scope, i, Completed(sc, i, answer, ibClock + 1))
              /\ ibCall' = [ibCall EXCEPT ![i].phase = "completing"]
              /\ UNCHANGED ibEnsure
           \/ /\ ibFenced[m] \/ ibOp[m] = NoOperation
              /\ CallTo(i, "over") /\ UNCHANGED ibProvider

\* invokeConnector, and the provider at work.  It may use more than was reserved.
CallProvider(i) ==
    /\ ibCall[i].phase = "held"
    /\ ibProvider' = [ibProvider EXCEPT ![i].state = "running"]
    /\ CallTo(i, "calling")

ProviderEnds(i, used) ==
    /\ ibProvider[i].state = "running"
    /\ ibProvider' = [ibProvider EXCEPT ![i] = [state |-> "ended", used |-> used]]
    /\ UNCHANGED <<ibWriters, ibLog, ibAt, ibSent, ibOp, ibFenced, ibCall, ibEnsure, ibClock,
                   ibFaults>>

\* The answer reports the usage, or gives none, or does not come in time: then
\* completeInvocationBudget knows neither outcome nor usage.
ConnectorReturns(i, outcome) ==
    /\ ibCall[i].phase = "calling"
    /\ outcome # "lost" => ibProvider[i].state = "ended"
    /\ ibCall' = [ibCall EXCEPT ![i] =
                    [@ EXCEPT !.phase = "answered",
                              !.answer = [outcome |-> outcome, used |-> ibProvider[i].used]]]
    /\ UNCHANGED <<ibWriters, ibLog, ibAt, ibSent, ibOp, ibFenced, ibProvider, ibEnsure, ibClock,
                   ibFaults>>

-----------------------------------------------------------------------------
(* EnsureSemanticBudgetScope, for a rule with a new correlation identity:  *)
(* it completes the active scope, creates another, and reactivates the     *)
(* first when that fails.                                                  *)

EnsureTo(m, next) ==
    /\ ibEnsure' = [ibEnsure EXCEPT ![m] = next]
    /\ UNCHANGED <<ibWriters, ibLog, ibAt, ibSent, ibOp, ibFenced, ibCall, ibProvider, ibClock,
                   ibFaults>>

EnsureStarts(m) ==
    LET current == ActiveScopes(Local(m))
    IN  /\ m \in ibWriters /\ ibEnsure[m].phase = "unused" /\ Cardinality(current) <= 1
        /\ EnsureTo(m, [phase |-> IF current = {} THEN "create" ELSE "finish", previous |-> current])

\* CompleteBudgetScope, CreateBudgetScope and ReactivateBudgetScope.  Each may
\* fail before it decides: fenced, no leader, no capacity left, a scope that is
\* no longer there; none of these errors sets the fence.
EnsureStep(m) ==
    LET phase == ibEnsure[m].phase
        s == CHOOSE x \in ibEnsure[m].previous : TRUE
        sc == Local(m)[s]
        Change(kind, scope, value) ==
            /\ MayDecide(m) /\ Decide(m, kind, scope, FirstScope, value)
            /\ UNCHANGED <<ibCall, ibEnsure>>
    IN  /\ ibOp[m] = NoOperation
        /\ \/ /\ phase = "finish" /\ sc.state = "active"
              /\ Change("finish", s, [sc EXCEPT !.state = "completed", !.stamp = ibClock + 1])
           \/ /\ phase = "finish" /\ sc.state # "active" /\ ~ibFenced[m]
              /\ EnsureTo(m, [ibEnsure[m] EXCEPT !.phase = "create"])
           \/ /\ phase = "create" /\ Change("create", m, NewScope(ibClock + 1))
           \/ /\ phase = "reactivate" /\ sc.state = "completed"
              /\ Change("reactivate", s, [sc EXCEPT !.state = "active", !.stamp = ibClock + 1])
           \/ /\ phase \in {"finish", "reactivate"} \/ (phase = "create" /\ ibEnsure[m].previous = {})
              /\ EnsureTo(m, [ibEnsure[m] EXCEPT !.phase = "over"])
           \/ /\ phase = "create" /\ ibEnsure[m].previous # {}
              /\ EnsureTo(m, [ibEnsure[m] EXCEPT !.phase = "reactivate"])

\* A crash ends what the member was doing, not what runs at the provider.  The
\* ledger is a file written by every application; the fence is in memory.
MemberRestarts(m) ==
    /\ m \in ibWriters /\ ibFaults < MaxBudgetFaults
    /\ ibFaults' = ibFaults + 1
    /\ ibOp' = [ibOp EXCEPT ![m] = NoOperation]
    /\ ibFenced' = [ibFenced EXCEPT ![m] = FALSE]
    /\ ibCall' = [i \in BudgetCalls |->
                    IF ibCall[i].at = {m} THEN [ibCall[i] EXCEPT !.phase = "over"] ELSE ibCall[i]]
    /\ ibEnsure' = [ibEnsure EXCEPT ![m].phase = IF @ = "unused" THEN @ ELSE "over"]
    /\ UNCHANGED <<ibWriters, ibLog, ibAt, ibSent, ibProvider, ibClock>>

-----------------------------------------------------------------------------

IbInit ==
    /\ ibWriters \in SUBSET BudgetMembers \ {{}}
    /\ ibLog = <<[id |-> 0, ok |-> TRUE,
                  ledger |-> [[s \in ScopeIds |-> NoScope] EXCEPT ![FirstScope] = NewScope(0)]]>>
    /\ ibAt = [m \in BudgetMembers |-> 1]
    /\ ibSent = {}
    /\ ibOp = [m \in BudgetMembers |-> NoOperation]
    /\ ibFenced = [m \in BudgetMembers |-> FALSE]
    /\ ibCall = [i \in BudgetCalls |-> [phase |-> "idle", at |-> {}, scope |-> FirstScope,
                                        answer |-> NotCalled]]
    /\ ibProvider = [i \in BudgetCalls |-> [state |-> "none", used |-> 0]]
    /\ ibEnsure = [m \in BudgetMembers |-> [phase |-> "unused", previous |-> {}]]
    /\ ibClock = 0
    /\ ibFaults = 0

IbNext ==
    \/ \E c \in ibSent : Commit(c)
    \/ \E m \in BudgetMembers :
          \/ ApplyCommand(m) \/ UpsertBudgetScope(m) \/ OperationReturns(m) \/ OperationFails(m)
          \/ EnsureStarts(m) \/ EnsureStep(m) \/ MemberRestarts(m)
          \/ \E i \in BudgetCalls :
                InvokeStarts(m, i) \/ ReserveProviderAttempt(m, i) \/ CompleteProviderAttempt(m, i)
    \/ \E i \in BudgetCalls :
          \/ CallProvider(i)
          \/ \E used \in {0, BudgetReservation, BudgetReservation + 1} : ProviderEnds(i, used)
          \/ \E outcome \in {"reported", "unreported", "lost"} : ConnectorReturns(i, outcome)

IbSpec == IbInit /\ [][IbNext]_ibVars

-----------------------------------------------------------------------------
(* Properties.                                                             *)

ScopeType == [state : {"absent", "active", "completed", "exhausted"}, stamp : 0..MaxBudgetWrites,
              attempts : [BudgetCalls -> [state : {"none", "reserved", "known", "unknown"},
                                          charged : 0..(BudgetReservation + 1)]]]
LedgerType == [ScopeIds -> ScopeType]
CommandType == [id : Nat, scope : ScopeIds, value : ScopeType, previous : 0..MaxBudgetWrites,
                alloc : BOOLEAN, enforce : BOOLEAN]
OperationType == [kind : {"reserve", "complete", "finish", "create", "reactivate"}, scope : ScopeIds,
                  inv : BudgetCalls \cup {FirstScope}, value : ScopeType, id : Nat,
                  phase : {"read", "sent"}]
AnswerType == [outcome : {"reported", "unreported", "lost"}, used : 0..(BudgetReservation + 1)]

GroupType ==
    /\ ibLog \in Seq([id : Nat, ok : BOOLEAN, ledger : LedgerType])
    /\ Len(ibLog) > 0
    /\ ibAt \in [BudgetMembers -> 1..Len(ibLog)]
    /\ ibSent \subseteq CommandType
MemberType ==
    /\ ibWriters \subseteq BudgetMembers
    /\ ibOp \in [BudgetMembers -> OperationType \cup {NoOperation}]
    /\ ibFenced \in [BudgetMembers -> BOOLEAN]
    /\ ibEnsure \in [BudgetMembers ->
          [phase : {"unused", "finish", "create", "reactivate", "over"}, previous : SUBSET ScopeIds]]
CallType ==
    /\ ibCall \in [BudgetCalls ->
          [phase : {"idle", "resolved", "reserving", "held", "calling", "answered", "completing", "over"},
           at : SUBSET BudgetMembers, scope : ScopeIds, answer : AnswerType]]
    /\ ibProvider \in [BudgetCalls -> [state : {"none", "running", "ended"}, used : 0..(BudgetReservation + 1)]]
CountType == ibClock \in 0..MaxBudgetWrites /\ ibFaults \in 0..MaxBudgetFaults

\* The ledger, the members' operations and the calls have their shape.
IbTypeOK == GroupType /\ MemberType /\ CallType /\ CountType

\* What the provider really does for a scope: the calls that run, and what they
\* have used or may yet use of their reservations.
CallsOf(s) == {i \in BudgetCalls : ibProvider[i].state # "none" /\ ibCall[i].scope = s}
Spending(p) == IF p.state = "ended" /\ p.used < BudgetReservation THEN p.used ELSE BudgetReservation
Spent(s) == FoldFunction(+, 0, [i \in CallsOf(s) |-> Spending(ibProvider[i])])
WithinLimits ==
    \A s \in ScopeIds :
        /\ Cardinality({i \in CallsOf(s) : ibProvider[i].state = "running"}) <= MaxConcurrentCalls
        /\ Spent(s) <= MaxBudgetTokens

\* When one member serves the binding, the provider never runs more calls for a
\* scope than its limit allows, nor is asked for more tokens than the scope has,
\* whatever answers are lost, whatever proposals come late and wherever the
\* member restarts (reserveBudgetAttempt, completeInvocationBudget).
HardLimits == Cardinality(ibWriters) = 1 => WithinLimits

\* The same for members that serve the binding together.
HardLimitsTogether == WithinLimits

\* No entry of the group makes two scopes of one binding active, although
\* members replace the scope at the same time, roll back on failure and restart
\* in between (EnforceActiveSemanticBinding).
OneActiveScope == Cardinality(ActiveScopes(Latest)) <= 1
=============================================================================
