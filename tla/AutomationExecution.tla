------------------------ MODULE AutomationExecution ------------------------
(***************************************************************************)
(* Execution of one automation invocation by the workers of a cluster      *)
(* (automation/service in Raft mode).  A worker claims the invocation,     *)
(* calls an inference provider, commits the provider's answer to the graph *)
(* and records what happened.  Everything it records is a command of the   *)
(* partition's Raft group, and so is the graph commit; the worker itself   *)
(* may be slow, lose its claim, or die at any point, and a command whose   *)
(* answer it never saw may still be applied.                               *)
(*                                                                         *)
(* A worker stands for one process incarnation: a dead one does not        *)
(* return, its successor is another worker.  A read and the command that   *)
(* follows from it are one step where the state machine would refuse the   *)
(* command after an older read, and two steps for claims, for a recovered  *)
(* attempt and for the requests of the API.  A replica that lags is a      *)
(* worker that read early.                                                 *)
(***************************************************************************)
EXTENDS Naturals, FiniteSets

CONSTANTS
    AeWorkers,      \* process incarnations that run ProcessPending
    AeMaxAttempts,  \* maxAttempts(def); also bounds the runs of the model
    AeMaxClaims,    \* bound on claims
    AeMaxRenewals,  \* renewals of a claim up to which a commit is tried again
    AeMaxFaults     \* bound on lost or late answers and on crashes

ASSUME AutomationAssumption ==
    /\ IsFiniteSet(AeWorkers)
    /\ {AeMaxAttempts, AeMaxClaims, AeMaxRenewals, AeMaxFaults} \subseteq Nat

VARIABLES
    aeStore,    \* the replicated records: invocation, runs, attempts, output, receipt
    aeWorker,   \* where each worker is, with its copies of records
    aeLate,     \* commands that may still be applied though their caller saw an error
    aeToken,    \* claim tokens handed out
    aeRequest,  \* the command of an API request under way
    aeCalls,    \* calls to the provider, per run
    aeFaults    \* faults so far

aeVars == <<aeStore, aeWorker, aeLate, aeToken, aeRequest, aeCalls, aeFaults>>

Runs == 1..AeMaxAttempts
NoWorker == "no worker"

Provisional == {"none", "publication_pending"}
NotPublished == {"not_published", "publication_failed"}
Disowned == "not_published, says a worker without a claim"
TerminalAttempt == {"succeeded", "failed", "denied", "ambiguous"}
TerminalInvocation == {"succeeded", "skipped", "failed", "cancelled"}
OpenRun == {"none", "running", "retryable"}

Attempts == [state : {"none", "requested", "authorized", "started"} \cup TerminalAttempt,
             rec : Nat,
             disp : Provisional \cup NotPublished \cup {Disowned, "published", "not_changed"}]
Invocations == [status : {"pending", "retryable", "running"} \cup TerminalInvocation,
                count : 0..AeMaxAttempts, ver : Nat, tok : 0..AeMaxClaims,
                proc : AeWorkers \cup {NoWorker}, lease : BOOLEAN, at : Nat]
NoAttempt == [state |-> "none", rec |-> 0, disp |-> "none"]
NewInvocation == [status |-> "pending", count |-> 0, ver |-> 0, tok |-> 0,
                  proc |-> NoWorker, lease |-> FALSE, at |-> 0]
Idle == [pc |-> "idle", inv |-> NewInvocation, att |-> NoAttempt, n |-> 0, res |-> "none"]

-----------------------------------------------------------------------------
(* The replicated state machine.                                           *)

\* staleInvocationUpdate; at stands for UpdatedAt, counted from the claim.
Stale(old, new) ==
    \/ new.ver < old.ver
    \/ new.ver = old.ver /\ ((old.tok # 0 /\ new.tok # old.tok) \/ new.at < old.at)
    \/ old.status \in TerminalInvocation /\ new.status = "running" /\ new.ver <= old.ver

AllowedTransition(from, to) ==
    CASE from = "none"       -> to = "requested"
      [] from = "requested"  -> to \in {"authorized", "denied", "failed"}
      [] from = "authorized" -> to \in {"authorized", "started", "denied", "failed"}
      [] from = "started"    -> to \in TerminalAttempt
      [] OTHER               -> to = from

\* Fault: a transition is checked against the states alone.
AnyVersionAccepted(old, new) ==
    AllowedTransition(old.state, new.state) \/ old.state = new.state

\* ValidateProcedureInferenceAttemptTransition.  An incoming record equal to the
\* one that is there is accepted too and changes nothing; only Recover can send
\* one, as the other records bear their time or are made from the present one.
AttemptAccepted(old, new) ==
    new.rec = old.rec + 1 /\ AllowedTransition(old.state, new.state)

\* Fault: the output of a worker is let through while anyone holds a claim.
AnyClaimPasses(inv, tok) == inv.status = "running"

\* ValidateAutomationOutputFence: no clock, so that replicas agree.
FencePasses(inv, tok) == inv.status = "running" /\ inv.tok = tok

\* Fault: a receipt that nobody has acknowledged may have expired.
AcknowledgedReceiptFound == aeStore.receipt = "released"

\* LookupIdempotentCommit with automationOutputIdempotencyKey, which is the
\* invocation's and not the run's: the receipt stays until it is acknowledged.
ReceiptFound == aeStore.receipt \in {"retained", "released"}

Accepted(c) ==
    CASE c.kind = "invocation" -> ~Stale(aeStore.inv, c.inv)
      [] c.kind = "run"        -> aeStore.run[c.n] \in OpenRun
      [] c.kind = "attempt"    -> AttemptAccepted(aeStore.att[c.n], c.att)
      [] c.kind = "output"     -> FencePasses(aeStore.inv, c.tok)
      [] c.kind = "ack"        -> TRUE

\* An output whose key has a receipt is a replay and changes nothing.
Applied(c) ==
    CASE c.kind = "invocation" -> [aeStore EXCEPT !.inv = c.inv]
      [] c.kind = "run"        -> [aeStore EXCEPT !.run[c.n] = c.status]
      [] c.kind = "attempt"    -> [aeStore EXCEPT !.att[c.n] = c.att]
      [] c.kind = "output"     -> IF ReceiptFound THEN aeStore
                                  ELSE [aeStore EXCEPT !.out[c.n] = @ + 1, !.receipt = "retained"]
      [] c.kind = "ack"        -> IF aeStore.receipt = "retained"
                                  THEN [aeStore EXCEPT !.receipt = "released"] ELSE aeStore

PutInvocation(inv) == [kind |-> "invocation", inv |-> inv]
PutRun(n, status) == [kind |-> "run", n |-> n, status |-> status]
PutAttempt(n, att) == [kind |-> "attempt", n |-> n, att |-> att]

Go(w, next) ==
    /\ aeWorker' = [aeWorker EXCEPT ![w] = next]
    /\ UNCHANGED <<aeStore, aeLate, aeToken, aeRequest, aeCalls, aeFaults>>

\* Worker w proposes command c: it is applied, or refused by the state machine,
\* or the worker sees an error and the command is dropped or still in flight.
Put(w, c, ok, bad) ==
    /\ UNCHANGED <<aeToken, aeRequest, aeCalls>>
    /\ \/ /\ Accepted(c)
          /\ aeStore' = Applied(c)
          /\ aeWorker' = [aeWorker EXCEPT ![w] = ok]
          /\ UNCHANGED <<aeLate, aeFaults>>
       \/ /\ ~Accepted(c)
          /\ aeWorker' = [aeWorker EXCEPT ![w] = bad]
          /\ UNCHANGED <<aeStore, aeLate, aeFaults>>
       \/ /\ aeFaults < AeMaxFaults
          /\ aeFaults' = aeFaults + 1
          /\ aeWorker' = [aeWorker EXCEPT ![w] = bad]
          /\ aeLate' \in {aeLate, aeLate \cup {c}}
          /\ UNCHANGED aeStore

LateApplied ==
    \E c \in aeLate :
        /\ aeLate' = aeLate \ {c}
        /\ aeStore' = IF Accepted(c) THEN Applied(c) ELSE aeStore
        /\ UNCHANGED <<aeWorker, aeToken, aeRequest, aeCalls, aeFaults>>

-----------------------------------------------------------------------------
(* What a worker reads.                                                    *)

Tried == {n \in Runs : aeStore.att[n].state # "none"}
LastRun == CHOOSE n \in Tried : \A m \in Tried : m <= n

\* recoverableProviderAttempt, for an invocation that is not terminal.
Recoverable == Tried # {} /\ aeStore.att[LastRun].state = "succeeded"

Unresolved == {n \in Runs : aeStore.att[n].state \in {"started", "ambiguous"}}

\* pendingInvocations
AeListed(w) ==
    LET inv == aeStore.inv IN
    \/ inv.status \in {"pending", "retryable"}
    \/ inv.status = "running" /\ ~inv.lease
    \/ inv.status = "running" /\ Recoverable /\ inv.proc # w

\* The check after a claim, and ensureClaimStillOwned, which looks at the lease too.
Owned(w) == aeStore.inv.status = "running" /\ aeStore.inv.tok = aeWorker[w].inv.tok
StillOwned(w) == Owned(w) /\ aeStore.inv.lease

At(w, pc) == aeWorker[w].pc = pc
To(w, pc) == [aeWorker[w] EXCEPT !.pc = pc]
Touch(inv) == [inv EXCEPT !.at = @ + 1]

\* The run ends with result r, which goes to the run and then to the invocation.
EndRun(w, r) == [aeWorker[w] EXCEPT !.pc = "put run", !.res = r, !.att = NoAttempt]

\* An error that is not ambiguous is retried while attempts are left, if it is
\* one of the retryable kind.
Results(w) ==
    CASE aeWorker[w].res # "error" -> {aeWorker[w].res}
      [] aeWorker[w].n < AeMaxAttempts -> {"failed", "retryable"}
      [] OTHER -> {"failed"}

\* recordRunPublicationDisposition: a final disposition is never replaced.
Record(w, d, ok, bad) ==
    LET n == aeWorker[w].n
        att == aeStore.att[n]
    IN \/ att.state \notin TerminalAttempt /\ Go(w, bad)
       \/ att.state \in TerminalAttempt /\ att.disp = d /\ Go(w, ok)
       \/ att.state \in TerminalAttempt /\ att.disp # d /\ att.disp \notin Provisional /\ Go(w, bad)
       \/ /\ att.state \in TerminalAttempt /\ att.disp # d /\ att.disp \in Provisional
          /\ Put(w, PutAttempt(n, [att EXCEPT !.rec = @ + 1, !.disp = d]), ok, bad)

-----------------------------------------------------------------------------
(* ProcessPending: listing, reconciling a publication, claiming.           *)

ListPending(w) == At(w, "idle") /\ AeListed(w) /\ Go(w, To(w, "listed"))

\* The attempt to recover is read here, before the claim.
Reconcile(w) ==
    /\ At(w, "listed")
    /\ Go(w, IF Recoverable
             THEN [To(w, "recover") EXCEPT !.n = LastRun, !.att = aeStore.att[LastRun]]
             ELSE To(w, "claim"))

\* claimInvocation and claimPublicationRecovery up to their write.  The second
\* takes over a live claim of another process, whatever the status is by now.
MayClaim(w) ==
    LET inv == aeStore.inv IN
    IF At(w, "claim") THEN inv.status \in {"pending", "retryable"} \/ (inv.status = "running" /\ ~inv.lease)
    ELSE ~(inv.status = "running" /\ inv.proc = w /\ inv.lease)

Claim(w) ==
    [aeStore.inv EXCEPT !.status = "running", !.ver = @ + 1, !.tok = aeToken + 1, !.proc = w,
                        !.lease = TRUE, !.at = 0]

ClaimRead(w) ==
    /\ At(w, "claim") \/ At(w, "recover")
    /\ \/ ~MayClaim(w) /\ Go(w, Idle)
       \/ /\ MayClaim(w) /\ aeToken < AeMaxClaims
          /\ aeToken' = aeToken + 1
          /\ aeWorker' = [aeWorker EXCEPT ![w] =
                [To(w, IF At(w, "claim") THEN "put claim" ELSE "put recovery claim") EXCEPT
                    !.inv = Claim(w)]]
          /\ UNCHANGED <<aeStore, aeLate, aeRequest, aeCalls, aeFaults>>

ClaimPut(w) ==
    \/ At(w, "put claim") /\ Put(w, PutInvocation(aeWorker[w].inv), To(w, "claimed"), Idle)
    \/ At(w, "put recovery claim") /\ Put(w, PutInvocation(aeWorker[w].inv), To(w, "recovered"), Idle)

\* What ProcessPending does with a fresh claim before it executes: finish from
\* a run that has ended, give up on a provider outcome nobody knows, step over
\* an attempt that ended before the provider, or skip.
\* The invocation written from a run that has ended bears the time at which the
\* run ended: staleInvocationUpdate refuses it when that is before the claim, by
\* the clocks of the two processes, which nothing compares, so that either may be
\* (always refused where one process did both).
Claimed(w) ==
    LET inv == aeWorker[w].inv
        n == inv.count + 1
        run == aeStore.run[n]
        att == aeStore.att[n]
        ended == run \notin {"none", "running"}
        early == att.state \in {"failed", "denied"}
        stop == att.state = "denied" \/ n >= AeMaxAttempts
    IN /\ At(w, "claimed")
       /\ \/ ~Owned(w) /\ Go(w, Idle)
          \/ Owned(w) /\ n \in Runs /\
             \/ ended /\ Go(w, Idle)   \* the run ended before the claim
             \/ /\ ended   \* reconcileTerminalRunFinalization
                /\ Put(w, PutInvocation(Touch([inv EXCEPT !.status = IF run = "dropped" THEN "skipped" ELSE run,
                                                          !.count = IF run = "dropped" THEN @ ELSE n])),
                       Idle, Idle)
             \/ /\ ~ended /\ Unresolved # {}
                /\ Go(w, [To(w, "ambiguous") EXCEPT !.n = CHOOSE u \in Unresolved : \A v \in Unresolved : v <= u])
             \/ /\ ~ended /\ Unresolved = {}   \* the definition is gone
                /\ Put(w, PutInvocation(Touch([inv EXCEPT !.status = "failed"])), Idle, Idle)
             \/ /\ ~ended /\ Unresolved = {} /\ early   \* reconcilePreProviderTerminalAttempt
                /\ LET next == Touch([inv EXCEPT !.count = n, !.status = IF stop THEN "failed" ELSE "running"])
                   IN Put(w, PutInvocation(next),
                          [To(w, "put early run") EXCEPT !.inv = next, !.n = n], Idle)
             \/ /\ ~ended /\ Unresolved = {} /\ ~early   \* disabled, or coalesced with another
                /\ Go(w, [EndRun(w, "dropped") EXCEPT !.n = n])
             \/ /\ ~ended /\ Unresolved = {} /\ ~early
                /\ Go(w, [To(w, "execute") EXCEPT !.n = n])

EarlyRun(w) ==
    /\ At(w, "put early run")
    /\ LET stop == aeWorker[w].inv.status = "failed"
       IN Put(w, PutRun(aeWorker[w].n, IF stop THEN "failed" ELSE "retryable"),
              IF stop THEN Idle ELSE [To(w, "execute") EXCEPT !.n = @ + 1], Idle)

\* finalizeUnresolvedProviderAttemptRun, then the invocation.
Ambiguous(w) ==
    LET n == aeWorker[w].n
        inv == aeWorker[w].inv
    IN \/ /\ At(w, "ambiguous")
          /\ \/ aeStore.run[n] = "none" /\ Go(w, Idle)
             \/ aeStore.run[n] \notin OpenRun /\ Go(w, To(w, "fail"))
             \/ aeStore.run[n] \in {"running", "retryable"} /\ Put(w, PutRun(n, "failed"), To(w, "fail"), Idle)
       \/ /\ At(w, "fail")
          /\ Put(w, PutInvocation(Touch([inv EXCEPT !.status = "failed",
                                                    !.count = IF n > @ THEN n ELSE @])), Idle, Idle)

-----------------------------------------------------------------------------
(* executeInvocation: the provider.                                        *)

Execute(w) ==
    /\ At(w, "execute")
    /\ \/ \E r \in {"error", "skipped"} : Go(w, EndRun(w, r))   \* before the output is looked up
       \/ /\ ReceiptFound   \* skipReasonDuplicateOutput
          /\ IF aeStore.att[aeWorker[w].n].state = "none" THEN Go(w, EndRun(w, "skipped"))
             ELSE Record(w, "published", [To(w, "acknowledge") EXCEPT !.res = "skipped"], EndRun(w, "error"))
       \/ ~ReceiptFound /\ ~StillOwned(w) /\ Go(w, EndRun(w, "error"))
       \/ ~ReceiptFound /\ StillOwned(w) /\ Go(w, To(w, "begin"))

\* The provider was not called, or its outcome is unknown: the disposition is
\* recorded as far as possible and the run ends with result r.
NoAnswer(w, r) == [aeWorker[w] EXCEPT !.pc = "no answer", !.res = r, !.att = NoAttempt]

\* The claim is not checked; which worker wrote it is kept for OutcomeTruthful.
RecordNoAnswer(w) ==
    /\ At(w, "no answer")
    /\ LET end == EndRun(w, aeWorker[w].res)
       IN Record(w, IF Owned(w) THEN "not_published" ELSE Disowned, end, end)

\* beginProcedureInferenceAttempt: the attempt is the run's, whoever works on it.
Begin(w) ==
    LET n == aeWorker[w].n
        att == aeStore.att[n]
        new == [NoAttempt EXCEPT !.state = "requested", !.rec = 1]
    IN \/ /\ At(w, "begin")
          /\ \/ att.state \in {"started"} \cup TerminalAttempt /\ Go(w, NoAnswer(w, "failed"))
             \/ att.state \in {"requested", "authorized"} /\ Go(w, [To(w, "begin run") EXCEPT !.att = att])
             \/ /\ att.state = "none"
                /\ Put(w, PutAttempt(n, new), [To(w, "begin run") EXCEPT !.att = new], NoAnswer(w, "error"))
       \/ At(w, "begin run") /\ Put(w, PutRun(n, "running"), To(w, "authorize"), NoAnswer(w, "error"))

\* A transition of the worker's copy of the attempt.
Step(att, state) == [att EXCEPT !.state = state, !.rec = @ + 1]
EndAttempt(w, r) == [aeWorker[w] EXCEPT !.pc = "complete", !.res = r]

\* authorizeProcedureInferenceAttempt, refreshProcedureInferenceAuthorization,
\* startProcedureInferenceAttempt: hooks of Invoke, each of which may fail.
Prepare(w) ==
    LET n == aeWorker[w].n
        att == aeWorker[w].att
        Do(state, pc) == Put(w, PutAttempt(n, Step(att, state)),
                             [To(w, pc) EXCEPT !.att = Step(att, state)], EndAttempt(w, "failed"))
    IN \/ At(w, "authorize") /\ \E d \in {"failed", "denied"} : Go(w, EndAttempt(w, d))
       \/ At(w, "authorize") /\ att.state = "authorized" /\ Go(w, To(w, "refresh"))
       \/ At(w, "authorize") /\ att.state = "requested" /\ Do("authorized", "refresh")
       \/ At(w, "refresh") /\ Do("authorized", "start")
       \/ At(w, "start") /\ Do("started", "provider")

\* Invoke calls the provider; before that a last authorization check may fail.
Provider(w) ==
    /\ At(w, "provider")
    /\ \/ Go(w, EndAttempt(w, "ambiguous"))
       \/ /\ aeWorker' = [aeWorker EXCEPT ![w] = EndAttempt(w, "succeeded")]
          /\ aeCalls' = [aeCalls EXCEPT ![aeWorker[w].n] = @ + 1]
          /\ UNCHANGED <<aeStore, aeLate, aeToken, aeRequest, aeFaults>>
       \/ /\ aeWorker' = [aeWorker EXCEPT ![w] = EndAttempt(w, "ambiguous")]
          /\ aeCalls' = [aeCalls EXCEPT ![aeWorker[w].n] = @ + 1]
          /\ UNCHANGED <<aeStore, aeLate, aeToken, aeRequest, aeFaults>>

\* completeProcedureInferenceAttempt; a started attempt whose end is not
\* recorded is ambiguous.
Complete(w) ==
    LET att == aeWorker[w].att
        end == aeWorker[w].res
        bad == NoAnswer(w, IF att.state = "started" THEN "failed" ELSE "error")
    IN /\ At(w, "complete")
       /\ Put(w, PutAttempt(aeWorker[w].n, Step(att, end)),
              IF end = "succeeded" THEN [To(w, "publish") EXCEPT !.att = NoAttempt] ELSE bad, bad)

-----------------------------------------------------------------------------
(* executeInvocation: publication.  "reconcile" is the error               *)
(* ErrPublicationReconciliationRequired.                                   *)

Publish(w) ==
    /\ At(w, "publish")
    /\ \/ \E r \in {"error", "reconcile"} :   \* suppressed, invalid, precondition failed
             Record(w, "not_published", EndRun(w, r), EndRun(w, r))
       \/ Record(w, "publication_pending", To(w, "check"), EndRun(w, "reconcile"))

\* ensureClaimStillOwned and renewClaim
Renew(w, next) ==
    \/ ~StillOwned(w) /\ Go(w, EndRun(w, "reconcile"))
    \/ /\ StillOwned(w)
       /\ LET inv == Touch(aeWorker[w].inv)
          IN Put(w, PutInvocation(inv), [To(w, next) EXCEPT !.inv = inv], EndRun(w, "reconcile"))

Suppress(w) == Record(w, "not_published", EndRun(w, "reconcile"), EndRun(w, "reconcile"))

\* commitAutomationOutputWithConflictRetry; a conflict or an unavailable group
\* leads back to the check a bounded number of times.
CommitOutput(w) ==
    \/ At(w, "check") /\ (Renew(w, "probe") \/ Suppress(w))
    \/ At(w, "probe") /\ ReceiptFound /\ Go(w, [To(w, "committed") EXCEPT !.res = "succeeded"])
    \/ At(w, "probe") /\ ~ReceiptFound /\
         (\/ Renew(w, "commit")
          \/ Go(w, EndRun(w, "reconcile"))   \* the actions fail
          \/ Record(w, "not_changed", EndRun(w, "skipped"), EndRun(w, "error")))
    \/ At(w, "commit") /\
         (\/ Suppress(w)
          \/ aeWorker[w].inv.at <= AeMaxRenewals /\ Go(w, To(w, "check"))
          \/ Put(w, [kind |-> "output", n |-> aeWorker[w].n, tok |-> aeWorker[w].inv.tok],
                 [To(w, "committed") EXCEPT !.res = "succeeded"], EndRun(w, "reconcile")))

Committed(w) ==
    \/ At(w, "committed") /\ Go(w, EndRun(w, "reconcile"))   \* the session is not finalized
    \/ At(w, "committed") /\ Record(w, "published", To(w, "acknowledge"), EndRun(w, "reconcile"))
    \/ /\ At(w, "acknowledge")
       /\ Put(w, [kind |-> "ack"], EndRun(w, aeWorker[w].res), EndRun(w, "reconcile"))

\* The end of ProcessPending: the run, then the invocation.
PutResult(w) ==
    LET inv == aeWorker[w].inv
        n == aeWorker[w].n
        res == aeWorker[w].res
    IN \/ /\ At(w, "put run")
          /\ \E s \in Results(w) :
                Put(w, PutRun(n, IF s = "reconcile" THEN "running" ELSE s),
                    [To(w, "put invocation") EXCEPT !.res = s], Idle)
       \/ /\ At(w, "put invocation")
          /\ Put(w, PutInvocation(Touch([inv EXCEPT
                        !.status = CASE res = "reconcile" -> "retryable" [] res = "dropped" -> "skipped" [] OTHER -> res,
                        !.count = IF res = "dropped" THEN @ ELSE n])), Idle, Idle)

-----------------------------------------------------------------------------
(* reconcileProviderStartedPublication, under its own claim.               *)

Recover(w) ==
    LET n == aeWorker[w].n
        att == aeWorker[w].att
        end == CASE att.disp = "published" -> "succeeded" [] att.disp = "not_changed" -> "skipped"
                 [] OTHER -> "failed"
        found == [Step(att, att.state) EXCEPT !.disp = IF ReceiptFound THEN "published" ELSE "publication_failed"]
        run == aeStore.run[n]
    IN \/ /\ At(w, "recovered")
          /\ \/ ~Owned(w) /\ Go(w, Idle)
             \/ Owned(w) /\ att.disp \notin Provisional /\ Go(w, To(w, "recovery ack"))
             \/ /\ Owned(w) /\ att.disp \in Provisional
                /\ \/ Put(w, PutAttempt(n, found), [To(w, "recovery ack") EXCEPT !.att = found], Idle)
                   \/ /\ aeStore.att[n] = found   \* an earlier recovery recorded just that
                      /\ Go(w, [To(w, "recovery ack") EXCEPT !.att = found])
       \/ /\ At(w, "recovery ack")
          /\ IF att.disp = "published" THEN Put(w, [kind |-> "ack"], To(w, "recovery run"), Idle)
             ELSE Go(w, To(w, "recovery run"))
       \/ /\ At(w, "recovery run")
          /\ \/ run \in OpenRun /\ Put(w, PutRun(n, end), To(w, "recovery end"), Idle)
             \/ run \notin OpenRun /\ Go(w, IF run = end THEN To(w, "recovery end") ELSE Idle)
       \/ /\ At(w, "recovery end")
          /\ Put(w, PutInvocation(Touch([aeWorker[w].inv EXCEPT !.status = end,
                                            !.count = IF n > @ THEN n ELSE @])), Idle, Idle)

-----------------------------------------------------------------------------
(* Requests of the API, time and faults.                                   *)

Reset(status) ==
    [aeStore.inv EXCEPT !.status = status, !.ver = @ + 1, !.tok = 0, !.proc = NoWorker,
                        !.lease = FALSE, !.at = 0]

\* RetryInvocation reads the invocation and its attempts...
RetryInvocation ==
    /\ aeRequest.kind = "unused"
    /\ \A n \in Runs : aeStore.att[n].state \notin {"started", "succeeded", "ambiguous"}
    /\ aeRequest' = PutInvocation(Reset("pending"))
    /\ UNCHANGED <<aeStore, aeWorker, aeLate, aeToken, aeCalls, aeFaults>>

CancelInvocation ==
    /\ aeRequest.kind = "unused"
    /\ aeStore.inv.status # "running"
    /\ aeRequest' = PutInvocation(Reset("cancelled"))
    /\ UNCHANGED <<aeStore, aeWorker, aeLate, aeToken, aeCalls, aeFaults>>

\* ... and writes later.
RequestPut ==
    /\ aeRequest.kind = "invocation"
    /\ aeStore' = IF Accepted(aeRequest) THEN Applied(aeRequest) ELSE aeStore
    /\ aeRequest' = [kind |-> "done"]
    /\ UNCHANGED <<aeWorker, aeLate, aeToken, aeCalls, aeFaults>>

LeaseExpires ==
    /\ aeStore.inv.lease
    /\ aeStore' = [aeStore EXCEPT !.inv.lease = FALSE]
    /\ UNCHANGED <<aeWorker, aeLate, aeToken, aeRequest, aeCalls, aeFaults>>

\* External: an acknowledged receipt expires like any idempotency record, long
\* after whatever was under way when it was acknowledged.
ReceiptExpires ==
    /\ aeStore.receipt = "released"
    /\ aeLate = {} /\ aeRequest.kind # "invocation"
    /\ \A w \in AeWorkers : At(w, "idle") \/ At(w, "dead")
    /\ aeStore' = [aeStore EXCEPT !.receipt = "expired"]
    /\ UNCHANGED <<aeWorker, aeLate, aeToken, aeRequest, aeCalls, aeFaults>>

Dies(w) ==
    /\ aeFaults < AeMaxFaults /\ ~At(w, "dead")
    /\ aeFaults' = aeFaults + 1
    /\ aeWorker' = [aeWorker EXCEPT ![w] = [Idle EXCEPT !.pc = "dead"]]
    /\ UNCHANGED <<aeStore, aeLate, aeToken, aeRequest, aeCalls>>

AeInit ==
    /\ aeStore = [inv |-> NewInvocation, run |-> [n \in Runs |-> "none"],
                  att |-> [n \in Runs |-> NoAttempt], out |-> [n \in Runs |-> 0], receipt |-> "none"]
    /\ aeWorker = [w \in AeWorkers |-> Idle]
    /\ aeLate = {} /\ aeToken = 0 /\ aeRequest = [kind |-> "unused"]
    /\ aeCalls = [n \in Runs |-> 0]
    /\ aeFaults = 0

WorkerStep(w) ==
    \/ ListPending(w) \/ Reconcile(w) \/ ClaimRead(w) \/ ClaimPut(w) \/ Claimed(w) \/ EarlyRun(w)
    \/ Ambiguous(w) \/ Execute(w) \/ RecordNoAnswer(w) \/ Begin(w) \/ Prepare(w) \/ Provider(w)
    \/ Complete(w) \/ Publish(w) \/ CommitOutput(w) \/ Committed(w) \/ PutResult(w) \/ Recover(w)

AeNext ==
    \/ \E w \in AeWorkers : WorkerStep(w) \/ Dies(w)
    \/ LateApplied \/ RetryInvocation \/ CancelInvocation \/ RequestPut
    \/ LeaseExpires \/ ReceiptExpires

AeSpec == AeInit /\ [][AeNext]_aeVars

-----------------------------------------------------------------------------
(* Properties.                                                             *)

RunStates == OpenRun \cup {"failed", "succeeded", "skipped", "dropped"}
AeStoreType == [inv : Invocations, run : [Runs -> RunStates], att : [Runs -> Attempts],
              out : [Runs -> Nat], receipt : {"none", "retained", "released", "expired"}]
AeSteps == {"idle", "dead", "listed", "claim", "put claim", "claimed", "recover", "put recovery claim",
            "recovered", "recovery ack", "recovery run", "recovery end", "put early run", "ambiguous",
            "fail", "execute", "begin", "begin run", "authorize", "refresh", "start", "provider",
            "complete", "no answer", "publish", "check", "probe", "commit", "committed", "acknowledge",
            "put run", "put invocation"}
AeResults == {"none", "error", "reconcile", "retryable", "skipped", "dropped"} \cup TerminalAttempt
AeWorkerType == [pc : AeSteps, inv : Invocations, att : Attempts, n : 0..AeMaxAttempts, res : AeResults]
InvocationPuts == [kind : {"invocation"}, inv : Invocations]
AeCommands ==
    InvocationPuts \cup [kind : {"run"}, n : Runs, status : RunStates]
    \cup [kind : {"attempt"}, n : Runs, att : Attempts]
    \cup [kind : {"output"}, n : Runs, tok : 0..AeMaxClaims] \cup [kind : {"ack"}]

\* The records, the workers' copies of them and the commands have their shape.
AeTypeOK ==
    /\ aeStore \in AeStoreType
    /\ aeWorker \in [AeWorkers -> AeWorkerType]
    /\ aeLate \subseteq AeCommands
    /\ aeRequest \in [kind : {"unused", "done"}] \cup InvocationPuts
    /\ aeCalls \in [Runs -> Nat]
    /\ aeToken \in 0..AeMaxClaims /\ aeFaults \in 0..AeMaxFaults

\* "Reusing an attempt identity must never create a second provider side
\* effect": workers that share an attempt, after a lease ran out or a retry was
\* requested, call the provider at most once for it (beginProcedureInference-
\* Attempt, startProcedureInferenceAttempt, the record version).
ProviderOncePerAttempt == \A n \in Runs : aeCalls[n] <= 1

\* The graph has been changed more than once for the invocation.
AppliedAgain ==
    \E n, m \in Runs : aeStore.out[n] > 1 \/ (n # m /\ aeStore.out[n] > 0 /\ aeStore.out[m] > 0)

\* The receipt of the first change has not expired so far.
ReceiptKept == aeStore.receipt # "expired" /\ ~AppliedAgain

\* An invocation that nobody retries or cancels by hand changes the graph at
\* most once, over retries, recovery, late commands and the expiry of the receipt
\* that stands for the first change (automationOutputIdempotencyKey, the output
\* fence, the counts of attempts in claimInvocation).
OutputOnce == aeRequest.kind = "unused" => ~AppliedAgain

\* What is recorded of a publication is what happened, also later: "published"
\* or "succeeded" is never recorded without an output, and while the receipt is
\* kept an attempt recorded as not published never has its output committed
\* (reconcileProviderStartedPublication against a worker that still commits,
\* ValidateAutomationOutputFence).
OutcomeTruthful ==
    /\ \A n \in Runs :
          /\ aeStore.att[n].disp \in NotPublished /\ ReceiptKept => aeStore.out[n] = 0
          /\ aeStore.att[n].disp = "published" => \E m \in Runs : aeStore.out[m] > 0
          /\ aeStore.run[n] = "succeeded" => \E m \in Runs : aeStore.out[m] > 0
    /\ aeStore.inv.status = "succeeded" => \E m \in Runs : aeStore.out[m] > 0
=============================================================================
