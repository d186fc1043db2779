------------------------- MODULE ProviderCallProofs -------------------------
(***************************************************************************)
(* Proofs about the attempts of AutomationExecution, which call inference  *)
(* providers, for any workers, attempts and faults.                        *)
(*                                                                         *)
(* Attempts: whoever works on an attempt writes its record in the order of *)
(* its versions, so one worker at most calls the provider for it.          *)
(*                                                                         *)
(* Outcomes: a token of a claim that has been passed over stays so, and    *)
(* every other copy of the invocation is made from one of the same claim.  *)
(* A disposition "not published" is therefore final: it is recorded after  *)
(* the claim of whoever still publishes the run was passed over, and the   *)
(* fence refuses its output.                                               *)
(*                                                                         *)
(* Counts: a run begins when the runs before it ended without the provider *)
(* or are counted by every copy of the invocation that can still be        *)
(* written.  An output is therefore of the last run that has begun, which  *)
(* is what recovery looks at, also when the receipt of the output is gone. *)
(***************************************************************************)
EXTENDS AutomationExecution, FiniteSetTheorems, WellFoundedInduction, TLAPS

-----------------------------------------------------------------------------
(* The attempts of an automation.  Which run a worker is at, and with what *)
(* result, by the step it is at.                                           *)

BeforeRun == {"idle", "dead", "listed", "claim", "put claim", "claimed"}
RunResults == {"error", "reconcile", "failed", "skipped", "succeeded", "dropped"}

\* A worker past its claim is at a run; the results lead to states of the run,
\* the attempt and the invocation that exist.
Sane(x) ==
    /\ x.pc \notin BeforeRun => x.n \in Runs
    /\ x.pc = "put early run" /\ x.inv.status # "failed" => x.n + 1 \in Runs
    /\ x.pc = "put run" => x.res \in RunResults
    /\ x.pc = "put invocation" => x.res \in (RunResults \cup {"retryable"}) \ {"error"}
    /\ x.pc = "complete" => x.res \in TerminalAttempt
    /\ x.pc = "committed" => x.res = "succeeded"
    /\ x.pc = "acknowledge" => x.res \in {"skipped", "succeeded"}
    /\ x.pc = "no answer" => x.res \in {"failed", "error"}

SaneWorker == {x \in AeWorkerType : Sane(x)}

\* The provider may have been called for run n: its attempt does not go back.
Spendable == {"started"} \cup TerminalAttempt
Past(n) == aeStore.att[n].state \in Spendable

\* At most one worker goes from "started" to the provider for a run.
ProviderInv ==
    /\ \A n \in Runs : aeCalls[n] \in {0, 1} /\ (aeCalls[n] = 1 => Past(n))
    /\ \A w \in AeWorkers : At(w, "provider") => Past(aeWorker[w].n) /\ aeCalls[aeWorker[w].n] = 0
    /\ \A w, v \in AeWorkers : At(w, "provider") /\ At(v, "provider") /\ aeWorker[w].n = aeWorker[v].n => w = v

AeInv ==
    /\ AeTypeOK
    /\ \A w \in AeWorkers : Sane(aeWorker[w])
    /\ ProviderInv

\* What a command makes of the records: they keep their shape, and an attempt
\* that may have reached the provider stays so.
LEMMA AppliedTyped ==
    ASSUME aeStore \in AeStoreType, NEW c \in AeCommands, Accepted(c)
    PROVE  /\ Applied(c) \in AeStoreType
           /\ \A n \in Runs : Past(n) => Applied(c).att[n].state \in Spendable
<1>1. CASE c \in InvocationPuts
  BY <1>1 DEF Applied, InvocationPuts, AeStoreType, Past
<1>2. CASE c \in [kind : {"run"}, n : Runs, status : RunStates]
  BY <1>2 DEF Applied, AeStoreType, Past
<1>3. CASE c \in [kind : {"attempt"}, n : Runs, att : Attempts]
  <2>1. c.kind = "attempt" /\ c.n \in Runs /\ c.att \in Attempts
    BY <1>3
  <2>2. Applied(c) = [aeStore EXCEPT !.att[c.n] = c.att]
    BY <2>1 DEF Applied
  <2>3. Applied(c) \in AeStoreType /\ Applied(c).att = [aeStore.att EXCEPT ![c.n] = c.att]
    BY <2>1, <2>2 DEF AeStoreType
  <2>4. AllowedTransition(aeStore.att[c.n].state, c.att.state)
    BY <2>1 DEF Accepted, AttemptAccepted
  <2>5. Past(c.n) => c.att.state \in Spendable
    BY <2>4 DEF AllowedTransition, Past, Spendable, TerminalAttempt
  <2>6. aeStore.att \in [Runs -> Attempts]
    BY DEF AeStoreType
  <2> QED BY <2>1, <2>3, <2>5, <2>6 DEF Past
<1>4. CASE c \in [kind : {"output"}, n : Runs, tok : 0..AeMaxClaims]
  <2>1. c.kind = "output" /\ c.n \in Runs
    BY <1>4
  <2>2. CASE ReceiptFound
    BY <2>1, <2>2 DEF Applied, Past
  <2>3. CASE ~ReceiptFound
    <3>1. Applied(c) = [aeStore EXCEPT !.out[c.n] = @ + 1, !.receipt = "retained"]
      BY <2>1, <2>3 DEF Applied
    <3> DEFINE out == [aeStore.out EXCEPT ![c.n] = @ + 1]
    <3>2. out \in [Runs -> Nat]
      BY <2>1 DEF AeStoreType
    <3>3. Applied(c) = [aeStore EXCEPT !.out = out, !.receipt = "retained"]
      BY <3>1 DEF AeStoreType
    <3> HIDE DEF out
    <3> QED BY <3>2, <3>3 DEF AeStoreType, Past
  <2> QED BY <2>2, <2>3
<1>5. CASE c \in [kind : {"ack"}]
  BY <1>5 DEF Applied, AeStoreType, Past
<1> QED BY <1>1, <1>2, <1>3, <1>4, <1>5 DEF AeCommands

\* A step that makes the records only as AppliedTyped says, leaves the calls
\* alone and takes no worker to the provider.
LEMMA ProviderKept ==
    ASSUME AeInv, UNCHANGED aeCalls,
           \A n \in Runs : Past(n) => Past(n)',
           \A w \in AeWorkers : aeWorker'[w].pc = "provider" => aeWorker'[w] = aeWorker[w]
    PROVE  ProviderInv'
<1>1. \A w \in AeWorkers : aeWorker'[w].pc = "provider" => aeWorker[w].n \in Runs
  BY DEF AeInv, Sane, BeforeRun
<1>2. \A n \in Runs : aeCalls'[n] \in {0, 1} /\ (aeCalls'[n] = 1 => Past(n)')
  BY DEF AeInv, ProviderInv
<1>3. \A w \in AeWorkers : aeWorker'[w].pc = "provider" =>
         \A n \in Runs : n = aeWorker'[w].n => Past(n)' /\ aeCalls'[n] = 0
  BY DEF AeInv, ProviderInv, At
<1>4. \A w, v \in AeWorkers :
         aeWorker'[w].pc = "provider" /\ aeWorker'[v].pc = "provider" /\ aeWorker'[w].n = aeWorker'[v].n => w = v
  BY DEF AeInv, ProviderInv, At
<1>5. \A w \in AeWorkers : aeWorker'[w].pc = "provider" => aeWorker'[w].n \in Runs
  BY <1>1
<1> QED BY <1>2, <1>3, <1>4, <1>5 DEF ProviderInv, At, Past

\* A worker moves on by itself.
LEMMA GoKeeps ==
    ASSUME AeInv, NEW w \in AeWorkers, NEW next \in SaneWorker, next.pc # "provider", Go(w, next)
    PROVE  AeInv'
<1>1. aeWorker' = [aeWorker EXCEPT ![w] = next]
      /\ UNCHANGED <<aeStore, aeLate, aeToken, aeRequest, aeCalls, aeFaults>>
  BY DEF Go
<1>2. aeWorker \in [AeWorkers -> AeWorkerType] /\ next \in AeWorkerType /\ Sane(next)
  BY DEF AeInv, AeTypeOK, SaneWorker
<1>3. aeWorker' \in [AeWorkers -> AeWorkerType] /\ \A v \in AeWorkers : aeWorker'[v] = IF v = w THEN next ELSE aeWorker[v]
  BY <1>1, <1>2
<1>4. AeTypeOK'
  BY <1>1, <1>3 DEF AeInv, AeTypeOK
<1>5. \A v \in AeWorkers : Sane(aeWorker[v])'
  BY ZenonT(60), <1>2, <1>3 DEF AeInv, Sane
<1>6. ProviderInv'
  BY <1>1, <1>3, ProviderKept DEF Past
<1> QED BY <1>4, <1>5, <1>6 DEF AeInv

\* A worker proposes a command, whatever comes of it.
LEMMA PutKeeps ==
    ASSUME AeInv, NEW w \in AeWorkers, NEW c \in AeCommands,
           NEW ok \in SaneWorker, NEW bad \in SaneWorker, ok.pc # "provider", bad.pc # "provider",
           Put(w, c, ok, bad)
    PROVE  AeInv'
<1>1. PICK next \in {ok, bad} : aeWorker' = [aeWorker EXCEPT ![w] = next]
  BY DEF Put
<1>2. aeWorker \in [AeWorkers -> AeWorkerType] /\ next \in AeWorkerType /\ Sane(next) /\ next.pc # "provider"
  BY DEF AeInv, AeTypeOK, SaneWorker
<1>3. aeWorker' \in [AeWorkers -> AeWorkerType] /\ \A v \in AeWorkers : aeWorker'[v] = IF v = w THEN next ELSE aeWorker[v]
  BY <1>1, <1>2
<1>4. aeStore' \in AeStoreType /\ \A n \in Runs : Past(n) => Past(n)'
  <2>1. CASE UNCHANGED aeStore
    BY <2>1 DEF AeInv, AeTypeOK, Past
  <2>2. CASE Accepted(c) /\ aeStore' = Applied(c)
    BY <2>2, AppliedTyped DEF AeInv, AeTypeOK, Past
  <2> QED BY <2>1, <2>2 DEF Put
<1>5. UNCHANGED <<aeToken, aeRequest, aeCalls>>
  BY DEF Put
<1>6. aeLate' \subseteq AeCommands /\ aeFaults' \in 0..AeMaxFaults
  <2>1. aeLate \subseteq AeCommands /\ aeFaults \in 0..AeMaxFaults /\ AeMaxFaults \in Nat
    BY AutomationAssumption DEF AeInv, AeTypeOK
  <2> QED BY <2>1 DEF Put
<1>7. AeTypeOK'
  BY <1>3, <1>4, <1>5, <1>6 DEF AeInv, AeTypeOK
<1>8. \A v \in AeWorkers : Sane(aeWorker[v])'
  BY <1>2, <1>3 DEF AeInv, Sane
<1>9. ProviderInv'
  BY <1>2, <1>3, <1>4, <1>5, ProviderKept
<1> QED BY <1>7, <1>8, <1>9 DEF AeInv

-----------------------------------------------------------------------------
(* The shapes of what workers write and of where they go.                  *)

Statuses == {"pending", "retryable", "running"} \cup TerminalInvocation
Dispositions == Provisional \cup NotPublished \cup {Disowned, "published", "not_changed"}

\* A new invocation, a run without attempt and an idle worker have their types.
LEMMA NewTyped ==
    /\ NewInvocation \in Invocations /\ NoAttempt \in Attempts
    /\ Idle \in SaneWorker /\ Idle.pc = "idle"
    /\ [Idle EXCEPT !.pc = "dead"] \in SaneWorker
<1>1. 0 \in 0..AeMaxAttempts /\ 0 \in 0..AeMaxClaims
  BY AutomationAssumption
<1>2. NewInvocation \in Invocations
  BY <1>1 DEF NewInvocation, Invocations
<1>3. NoAttempt \in Attempts
  BY DEF NoAttempt, Attempts, Provisional
<1>4. Idle \in AeWorkerType /\ Idle.pc = "idle" /\ [Idle EXCEPT !.pc = "dead"] \in AeWorkerType
      /\ [Idle EXCEPT !.pc = "dead"].pc = "dead"
  BY <1>1, <1>2, <1>3 DEF Idle, AeWorkerType, AeSteps, AeResults
<1> QED BY <1>2, <1>3, <1>4 DEF SaneWorker, Sane, BeforeRun

\* The fields of a worker that has moved.
LEMMA WorkerMoved ==
    ASSUME NEW x \in AeWorkerType, NEW pc \in AeSteps, NEW inv \in Invocations, NEW att \in Attempts,
           NEW n \in 0..AeMaxAttempts, NEW res \in AeResults
    PROVE  /\ [x EXCEPT !.pc = pc] = [pc |-> pc, inv |-> x.inv, att |-> x.att, n |-> x.n, res |-> x.res]
           /\ [x EXCEPT !.inv = inv] = [pc |-> x.pc, inv |-> inv, att |-> x.att, n |-> x.n, res |-> x.res]
           /\ [x EXCEPT !.att = att] = [pc |-> x.pc, inv |-> x.inv, att |-> att, n |-> x.n, res |-> x.res]
           /\ [x EXCEPT !.n = n] = [pc |-> x.pc, inv |-> x.inv, att |-> x.att, n |-> n, res |-> x.res]
           /\ [x EXCEPT !.res = res] = [pc |-> x.pc, inv |-> x.inv, att |-> x.att, n |-> x.n, res |-> res]
           /\ [pc |-> pc, inv |-> inv, att |-> att, n |-> n, res |-> res] \in AeWorkerType
BY DEF AeWorkerType

\* Where a worker goes keeps its shape; only the step it goes to matters.
LEMMA ToTyped ==
    ASSUME AeInv, NEW w \in AeWorkers, NEW pc \in AeSteps
    PROVE  /\ To(w, pc) \in AeWorkerType /\ To(w, pc).pc = pc /\ To(w, pc).n = aeWorker[w].n
           /\ To(w, pc).inv = aeWorker[w].inv /\ To(w, pc).att = aeWorker[w].att
           /\ To(w, pc).res = aeWorker[w].res
           /\ aeWorker[w] \in SaneWorker
BY DEF AeInv, AeTypeOK, To, AeWorkerType, SaneWorker

\* A run that has ended with a result.
LEMMA EndTyped ==
    ASSUME AeInv, NEW w \in AeWorkers, aeWorker[w].n \in Runs
    PROVE  /\ \A r \in RunResults : EndRun(w, r) \in SaneWorker /\ EndRun(w, r).pc = "put run"
           /\ \A r \in {"failed", "error"} : NoAnswer(w, r) \in SaneWorker /\ NoAnswer(w, r).pc = "no answer"
           /\ \A r \in TerminalAttempt : EndAttempt(w, r) \in SaneWorker /\ EndAttempt(w, r).pc = "complete"
<1>1. aeWorker[w] \in AeWorkerType
  BY DEF AeInv, AeTypeOK
<1>2. ASSUME NEW pc \in {"put run", "no answer"}, NEW r \in AeResults
      PROVE  LET x == [aeWorker[w] EXCEPT !.pc = pc, !.res = r, !.att = NoAttempt] IN
             x \in AeWorkerType /\ x.pc = pc /\ x.res = r /\ x.n = aeWorker[w].n
  BY <1>1, <1>2, NewTyped DEF AeWorkerType, AeSteps
<1>3. ASSUME NEW r \in AeResults
      PROVE  LET x == [aeWorker[w] EXCEPT !.pc = "complete", !.res = r] IN
             x \in AeWorkerType /\ x.pc = "complete" /\ x.res = r /\ x.n = aeWorker[w].n
  BY <1>1, <1>3 DEF AeWorkerType, AeSteps
<1>4. RunResults \subseteq AeResults /\ TerminalAttempt \subseteq AeResults /\ "error" \in AeResults
      /\ "failed" \in AeResults
  BY DEF RunResults, AeResults, TerminalAttempt
<1>5. ASSUME NEW r \in RunResults PROVE EndRun(w, r) \in SaneWorker /\ EndRun(w, r).pc = "put run"
  BY <1>2, <1>4 DEF EndRun, SaneWorker, Sane
<1>6. ASSUME NEW r \in {"failed", "error"} PROVE NoAnswer(w, r) \in SaneWorker /\ NoAnswer(w, r).pc = "no answer"
  BY ZenonT(60), <1>2, <1>4 DEF NoAnswer, SaneWorker, Sane
<1>7. ASSUME NEW r \in TerminalAttempt PROVE EndAttempt(w, r) \in SaneWorker /\ EndAttempt(w, r).pc = "complete"
  BY <1>3, <1>4 DEF EndAttempt, SaneWorker, Sane
<1> QED BY <1>5, <1>6, <1>7

\* A worker that ends its run goes on to record the result.
LEMMA EndRunFields ==
    ASSUME AeInv, NEW w \in AeWorkers, NEW r \in RunResults
    PROVE  EndRun(w, r) \in AeWorkerType /\ EndRun(w, r).pc = "put run" /\ EndRun(w, r).res = r
<1>1. aeWorker[w] \in AeWorkerType
  BY DEF AeInv, AeTypeOK
<1>2. r \in AeResults /\ "put run" \in AeSteps
  BY DEF RunResults, AeResults, AeSteps, TerminalAttempt
<1> QED BY <1>1, <1>2, NewTyped DEF EndRun, AeWorkerType

\* What is written of the invocation, a run and an attempt.
LEMMA PutTyped ==
    /\ \A inv \in Invocations : PutInvocation(inv) \in AeCommands
    /\ \A n \in Runs : \A s \in RunStates : PutRun(n, s) \in AeCommands
    /\ \A n \in Runs : \A a \in Attempts : PutAttempt(n, a) \in AeCommands
    /\ [kind |-> "ack"] \in AeCommands
    /\ \A n \in Runs : \A t \in 0..AeMaxClaims : [kind |-> "output", n |-> n, tok |-> t] \in AeCommands
BY DEF PutInvocation, PutRun, PutAttempt, AeCommands, InvocationPuts

\* A renewed invocation and its new states have their type.
LEMMA TouchTyped ==
    ASSUME NEW inv \in Invocations, NEW s \in Statuses, NEW k \in 0..AeMaxAttempts
    PROVE  /\ Touch(inv) \in Invocations
           /\ Touch([inv EXCEPT !.status = s]) \in Invocations
           /\ Touch([inv EXCEPT !.status = s, !.count = k]) \in Invocations
           /\ Touch([inv EXCEPT !.count = k, !.status = s]) \in Invocations
           /\ Touch([inv EXCEPT !.count = k, !.status = s]).status = s
<1>1. \A x \in Invocations : Touch(x) \in Invocations /\ Touch(x).status = x.status
  BY DEF Touch, Invocations
<1>2. [inv EXCEPT !.status = s] \in Invocations
  BY DEF Invocations, Statuses
<1>3. /\ [inv EXCEPT !.status = s, !.count = k] \in Invocations
      /\ [inv EXCEPT !.status = s, !.count = k] = [inv EXCEPT !.count = k, !.status = s]
      /\ [inv EXCEPT !.status = s, !.count = k].status = s
  BY DEF Invocations, Statuses
<1> QED BY <1>1, <1>2, <1>3

\* An attempt with another record has its type.
LEMMA AttemptTyped ==
    ASSUME NEW a \in Attempts
    PROVE  /\ \A d \in Dispositions : [a EXCEPT !.rec = @ + 1, !.disp = d] \in Attempts
           /\ \A s \in {"requested", "authorized", "started"} \cup TerminalAttempt : Step(a, s) \in Attempts
           /\ \A d \in Dispositions : [Step(a, a.state) EXCEPT !.disp = d] \in Attempts
<1> DEFINE S == {"none", "requested", "authorized", "started"} \cup TerminalAttempt
<1>1. Attempts = [state : S, rec : Nat, disp : Dispositions]
  BY DEF Attempts, Dispositions
<1>2. PICK r \in Nat : r = a.rec + 1
  BY <1>1
<1> HIDE DEF S
<1>3. \A d \in Dispositions : [a EXCEPT !.rec = r, !.disp = d] \in Attempts
  BY <1>1
<1>4. \A s \in S : Step(a, s) \in Attempts
  BY <1>1, <1>2 DEF Step
<1>5. \A d \in Dispositions, x \in Attempts : [x EXCEPT !.disp = d] \in Attempts
  BY <1>1
<1>6. a.state \in S
  BY <1>1
<1>7. {"requested", "authorized", "started"} \cup TerminalAttempt \subseteq S
  BY DEF S
<1> QED BY <1>2, <1>3, <1>4, <1>5, <1>6, <1>7

\* recordRunPublicationDisposition
LEMMA RecordKeeps ==
    ASSUME AeInv, NEW w \in AeWorkers, aeWorker[w].n \in Runs, NEW d \in Dispositions,
           NEW ok \in SaneWorker, NEW bad \in SaneWorker, ok.pc # "provider", bad.pc # "provider",
           Record(w, d, ok, bad)
    PROVE  AeInv'
<1> DEFINE n == aeWorker[w].n
           att == aeStore.att[n]
<1>1. att \in Attempts
  BY DEF AeInv, AeTypeOK, AeStoreType
<1>2. CASE Go(w, ok)
  BY <1>2, GoKeeps
<1>3. CASE Go(w, bad)
  BY <1>3, GoKeeps
<1>4. CASE Put(w, PutAttempt(n, [att EXCEPT !.rec = @ + 1, !.disp = d]), ok, bad)
  <2>1. [att EXCEPT !.rec = @ + 1, !.disp = d] \in Attempts
    <3> HIDE DEF att
    <3> QED BY <1>1, AttemptTyped
  <2>2. PutAttempt(n, [att EXCEPT !.rec = @ + 1, !.disp = d]) \in AeCommands
    BY <2>1, PutTyped
  <2> QED BY <1>4, <2>2, PutKeeps
<1> QED BY <1>2, <1>3, <1>4 DEF Record

\* A renewed claim leaves an invocation (renewClaim).
LEMMA TouchPlain == \A inv \in Invocations : Touch(inv) \in Invocations
BY DEF Touch, Invocations

\* The steps that ask nothing of the result.
PlainSteps ==
    AeSteps \ (BeforeRun \cup {"put early run", "put run", "put invocation", "complete", "committed",
                            "acknowledge", "no answer"})

\* A worker takes a copy of an attempt along.
LEMMA PlainAttempt ==
    ASSUME AeInv, NEW w \in AeWorkers, NEW pc \in PlainSteps, aeWorker[w].n \in Runs, NEW a \in Attempts
    PROVE  [To(w, pc) EXCEPT !.att = a] \in SaneWorker /\ [To(w, pc) EXCEPT !.att = a].pc = pc
           /\ [To(w, pc) EXCEPT !.att = a].n = aeWorker[w].n
<1>1. PICK y \in AeWorkerType : y = To(w, pc) /\ y.pc = pc /\ y.n = aeWorker[w].n
  BY ToTyped DEF PlainSteps
<1>2. LET x == [y EXCEPT !.att = a] IN x \in AeWorkerType /\ x.pc = y.pc /\ x.n = y.n
  BY DEF AeWorkerType
<1> QED BY <1>1, <1>2 DEF PlainSteps, SaneWorker, Sane

\* A worker takes a copy of the invocation along.
LEMMA PlainInvocation ==
    ASSUME AeInv, NEW w \in AeWorkers, NEW pc \in PlainSteps, aeWorker[w].n \in Runs, NEW i \in Invocations
    PROVE  [To(w, pc) EXCEPT !.inv = i] \in SaneWorker /\ [To(w, pc) EXCEPT !.inv = i].pc = pc
<1>1. PICK y \in AeWorkerType : y = To(w, pc) /\ y.pc = pc /\ y.n = aeWorker[w].n
  BY ToTyped DEF PlainSteps
<1>2. LET x == [y EXCEPT !.inv = i] IN x \in AeWorkerType /\ x.pc = y.pc /\ x.n = y.n
  BY DEF AeWorkerType
<1> QED BY <1>1, <1>2 DEF PlainSteps, SaneWorker, Sane

\* A worker takes a result along.
LEMMA PlainResult ==
    ASSUME AeInv, NEW w \in AeWorkers, NEW pc \in PlainSteps, aeWorker[w].n \in Runs, NEW r \in AeResults
    PROVE  [To(w, pc) EXCEPT !.res = r] \in SaneWorker /\ [To(w, pc) EXCEPT !.res = r].pc = pc
<1>1. PICK y \in AeWorkerType : y = To(w, pc) /\ y.pc = pc /\ y.n = aeWorker[w].n
  BY ToTyped DEF PlainSteps
<1>2. LET x == [y EXCEPT !.res = r] IN x \in AeWorkerType /\ x.pc = y.pc /\ x.n = y.n
  BY DEF AeWorkerType
<1> QED BY <1>1, <1>2 DEF PlainSteps, SaneWorker, Sane

\* A worker goes on to a step that asks for nothing more.
LEMMA PlainTo ==
    ASSUME AeInv, NEW w \in AeWorkers, NEW pc \in PlainSteps, aeWorker[w].n \in Runs
    PROVE  To(w, pc) \in SaneWorker /\ To(w, pc).pc = pc
<1>1. PICK y \in AeWorkerType : y = To(w, pc) /\ y.pc = pc /\ y.n \in Runs
  BY ToTyped DEF PlainSteps
<1> QED BY <1>1 DEF PlainSteps, SaneWorker, Sane

\* The same for a worker that turns to another run.
LEMMA PlainAtRun ==
    ASSUME AeInv, NEW w \in AeWorkers, NEW pc \in PlainSteps, NEW n \in Runs
    PROVE  [To(w, pc) EXCEPT !.n = n] \in SaneWorker /\ [To(w, pc) EXCEPT !.n = n].pc = pc
<1>1. \A x \in AeWorkerType : x.pc = pc /\ x.n \in Runs => x \in SaneWorker
  BY DEF PlainSteps, SaneWorker, Sane
<1>2. PICK y \in AeWorkerType : y = To(w, pc) /\ y.pc = pc
  BY ToTyped DEF PlainSteps
<1>3. n \in 0..AeMaxAttempts
  BY AutomationAssumption DEF Runs
<1>4. LET x == [y EXCEPT !.n = n] IN x \in AeWorkerType /\ x.pc = y.pc /\ x.n = n
  BY <1>3 DEF AeWorkerType
<1> QED BY <1>1, <1>2, <1>4

\* Some run is the last that was tried.
LEMMA LargestRun ==
    ASSUME NEW S, S \subseteq Runs, S # {}
    PROVE  \E n \in S : \A m \in S : m <= n
<1> DEFINE R == OpToRel(<, Nat)
           T == {AeMaxAttempts - n : n \in S}
<1>1. AeMaxAttempts \in Nat /\ \A n \in S : n \in Nat /\ AeMaxAttempts - n \in Nat
  <2>1. AeMaxAttempts \in Nat
    BY AutomationAssumption
  <2> QED BY <2>1 DEF Runs
<1>2. T \subseteq Nat /\ T # {}
  BY <1>1
<1>3. IsWellFoundedOn(R, Nat)
  BY NatLessThanWellFounded
<1> HIDE DEF R, T
<1>4. PICK x \in T : \A y \in T : ~(<<y, x>> \in R)
  BY <1>2, <1>3, WFMin
<1>5. \A y \in T : ~(y < x)
  BY <1>2, <1>4 DEF R, OpToRel
<1>6. PICK n \in S : x = AeMaxAttempts - n
  BY DEF T
<1>7. \A m \in S : AeMaxAttempts - m \in T
  BY DEF T
<1> QED BY <1>1, <1>5, <1>6, <1>7

-----------------------------------------------------------------------------
(* The steps of a worker.                                                  *)

\* A claim is a state of the invocation.
LEMMA ClaimTyped ==
    ASSUME NEW w \in AeWorkers, aeStore.inv \in Invocations, aeToken + 1 \in 0..AeMaxClaims
    PROVE  Claim(w) \in Invocations
<1>1. PICK v \in Nat : v = aeStore.inv.ver + 1
  BY DEF Invocations
<1>2. PICK t \in 0..AeMaxClaims : t = aeToken + 1
  OBVIOUS
<1>3. Claim(w) = [aeStore.inv EXCEPT !.status = "running", !.ver = v, !.tok = t, !.proc = w,
                                     !.lease = TRUE, !.at = 0]
  BY <1>1, <1>2 DEF Claim
<1>4. [aeStore.inv EXCEPT !.lease = TRUE] \in Invocations
  BY DEF Invocations
<1>5. \A x \in Invocations : [x EXCEPT !.status = "running", !.ver = v, !.tok = t, !.proc = w, !.at = 0] \in Invocations
  BY DEF Invocations
<1>6. Claim(w) = [[aeStore.inv EXCEPT !.lease = TRUE] EXCEPT !.status = "running", !.ver = v, !.tok = t, !.proc = w, !.at = 0]
  BY <1>3 DEF Invocations
<1> QED BY <1>4, <1>5, <1>6

\* Listing, reconciling and claiming (ProcessPending).
LEMMA ClaimKeeps ==
    ASSUME AeInv, NEW w \in AeWorkers,
           ListPending(w) \/ Reconcile(w) \/ ClaimRead(w) \/ ClaimPut(w)
    PROVE  AeInv'
<1>0. /\ aeWorker[w] \in AeWorkerType /\ Sane(aeWorker[w]) /\ aeStore \in AeStoreType
      /\ aeWorker \in [AeWorkers -> AeWorkerType]
  BY DEF AeInv, AeTypeOK
<1>1. \A pc \in BeforeRun : To(w, pc) \in SaneWorker /\ To(w, pc).pc # "provider"
  <2> SUFFICES ASSUME NEW pc \in BeforeRun PROVE To(w, pc) \in SaneWorker /\ To(w, pc).pc # "provider"
    OBVIOUS
  <2>1. pc \in AeSteps
    BY DEF BeforeRun, AeSteps
  <2>2. To(w, pc) \in AeWorkerType /\ To(w, pc).pc = pc
    BY <2>1, ToTyped
  <2> QED BY <2>2 DEF BeforeRun, SaneWorker, Sane
<1>2. CASE ListPending(w)
  <2>1. "listed" \in BeforeRun /\ Go(w, To(w, "listed"))
    BY <1>2 DEF BeforeRun, ListPending
  <2> QED BY <1>1, <2>1, GoKeeps
<1>3. CASE Reconcile(w) /\ Recoverable
  <2>1. LastRun \in Runs
    <3>1. Tried \subseteq Runs /\ Tried # {}
      BY <1>3 DEF Recoverable, Tried
    <3>2. \E n \in Tried : \A m \in Tried : m <= n
      BY <3>1, LargestRun
    <3> QED BY <3>1, <3>2 DEF LastRun
  <2>2. aeStore.att[LastRun] \in Attempts
    BY <2>1, <1>0 DEF AeStoreType
  <2>3. Go(w, [To(w, "recover") EXCEPT !.n = LastRun, !.att = aeStore.att[LastRun]])
    BY <1>3 DEF Reconcile
  <2>4. "recover" \in PlainSteps
    BY DEF PlainSteps, AeSteps, BeforeRun
  <2> DEFINE next == [To(w, "recover") EXCEPT !.n = LastRun, !.att = aeStore.att[LastRun]]
  <2>5. next \in SaneWorker /\ next.pc = "recover"
    <3> HIDE DEF LastRun
    <3>1. PICK y \in AeWorkerType : y = To(w, "recover") /\ y.pc = "recover"
      <4>1. "recover" \in AeSteps
        BY DEF AeSteps
      <4> QED BY <4>1, ToTyped
    <3>2. LastRun \in 0..AeMaxAttempts
      BY <2>1, AutomationAssumption DEF Runs
    <3>3. LET x == [y EXCEPT !.n = LastRun, !.att = aeStore.att[LastRun]] IN
          x \in AeWorkerType /\ x.pc = "recover" /\ x.n \in Runs
      BY <2>1, <2>2, <3>1, <3>2 DEF AeWorkerType
    <3>4. next \in AeWorkerType /\ next.pc = "recover" /\ next.n \in Runs
      BY <3>1, <3>3
    <3> QED BY <3>4 DEF SaneWorker, Sane
  <2> HIDE DEF next
  <2> QED BY <2>3, <2>5, GoKeeps DEF next
<1>4. CASE Reconcile(w) /\ ~Recoverable
  <2>1. "claim" \in BeforeRun /\ Go(w, To(w, "claim"))
    BY <1>4 DEF BeforeRun, Reconcile
  <2> QED BY <1>1, <2>1, GoKeeps
<1>5. CASE ClaimRead(w) /\ Go(w, Idle)
  BY <1>5, NewTyped, GoKeeps
<1>6. CASE ClaimRead(w) /\ ~Go(w, Idle)
  <2> DEFINE pc == IF At(w, "claim") THEN "put claim" ELSE "put recovery claim"
             next == [To(w, pc) EXCEPT !.inv = Claim(w)]
  <2>1. /\ aeToken < AeMaxClaims /\ aeToken' = aeToken + 1 /\ aeWorker' = [aeWorker EXCEPT ![w] = next]
        /\ UNCHANGED <<aeStore, aeLate, aeRequest, aeCalls, aeFaults>>
    BY <1>6 DEF ClaimRead
  <2>2. aeStore.inv \in Invocations
    BY <1>0 DEF AeStoreType
  <2>3. aeToken + 1 \in 0..AeMaxClaims
    <3>1. AeMaxClaims \in Nat /\ aeToken \in 0..AeMaxClaims
      BY AutomationAssumption DEF AeInv, AeTypeOK
    <3>2. aeToken < AeMaxClaims
      BY <2>1
    <3> QED BY <3>1, <3>2
  <2>4. Claim(w) \in Invocations
    BY <2>2, <2>3, ClaimTyped
  <2>5. pc \in AeSteps /\ pc # "provider" /\ (pc \notin BeforeRun => aeWorker[w].n \in Runs)
        /\ pc \in {"put claim", "put recovery claim"}
    BY <1>0, <1>6 DEF ClaimRead, At, Sane, BeforeRun, AeSteps
  <2> HIDE DEF pc
  <2>6. To(w, pc) \in AeWorkerType /\ To(w, pc).pc = pc /\ To(w, pc).n = aeWorker[w].n
    BY <2>5, ToTyped
  <2>7. next \in AeWorkerType /\ next.pc = pc /\ next.n = aeWorker[w].n
    BY <2>4, <2>6 DEF AeWorkerType
  <2> HIDE DEF next
  <2>8. next \in SaneWorker /\ next.pc # "provider"
    BY <2>5, <2>7 DEF SaneWorker, Sane
  <2>9. aeWorker' \in [AeWorkers -> AeWorkerType] /\ \A v \in AeWorkers : aeWorker'[v] = IF v = w THEN next ELSE aeWorker[v]
    BY <1>0, <2>1, <2>7
  <2>10. AeTypeOK'
    BY <2>1, <2>3, <2>9 DEF AeInv, AeTypeOK
  <2>11. \A v \in AeWorkers : Sane(aeWorker[v])'
    BY ZenonT(60), <2>8, <2>9 DEF AeInv, Sane, SaneWorker
  <2>12. ProviderInv'
    BY <2>1, <2>8, <2>9, ProviderKept DEF Past
  <2> QED BY <2>10, <2>11, <2>12 DEF AeInv
<1>7. CASE ClaimPut(w)
  <2>1. PutInvocation(aeWorker[w].inv) \in AeCommands
    BY <1>0, PutTyped DEF AeWorkerType
  <2>2. CASE At(w, "put claim") /\ Put(w, PutInvocation(aeWorker[w].inv), To(w, "claimed"), Idle)
    <3>1. "claimed" \in BeforeRun
      BY DEF BeforeRun
    <3>2. To(w, "claimed") \in SaneWorker /\ To(w, "claimed").pc # "provider"
      BY <1>1, <3>1
    <3> QED BY <2>1, <2>2, <3>2, NewTyped, PutKeeps
  <2>3. CASE At(w, "put recovery claim") /\ Put(w, PutInvocation(aeWorker[w].inv), To(w, "recovered"), Idle)
    <3>1. "recovered" \in PlainSteps /\ aeWorker[w].n \in Runs
      BY <1>0, <2>3 DEF PlainSteps, AeSteps, BeforeRun, At, Sane
    <3>2. To(w, "recovered") \in SaneWorker /\ To(w, "recovered").pc # "provider"
      BY <3>1, PlainTo
    <3> QED BY <3>2, <2>1, <2>3, NewTyped, PutKeeps
  <2> QED BY <1>7, <2>2, <2>3 DEF ClaimPut
<1> QED BY <1>2, <1>3, <1>4, <1>5, <1>6, <1>7 DEF ClaimRead

\* The steps by name.
LEMMA StepNames ==
    /\ {"recover", "put recovery claim", "recovered", "recovery ack", "recovery run", "recovery end",
        "ambiguous", "fail", "execute", "begin", "begin run", "authorize", "refresh", "start",
        "provider", "publish", "check", "probe", "commit"} \subseteq PlainSteps
    /\ {"put early run", "put run", "put invocation", "complete", "committed", "acknowledge",
        "no answer"} \subseteq AeSteps
<1>1. {"recover", "put recovery claim", "recovered", "recovery ack", "recovery run", "recovery end",
       "ambiguous", "fail", "execute"} \subseteq PlainSteps
  BY DEF PlainSteps, AeSteps, BeforeRun
<1>2. {"begin", "begin run", "authorize", "refresh", "start", "provider", "publish", "check", "probe",
       "commit"} \subseteq PlainSteps
  BY DEF PlainSteps, AeSteps, BeforeRun
<1>3. {"put early run", "put run", "put invocation", "complete", "committed", "acknowledge",
       "no answer"} \subseteq AeSteps
  BY DEF AeSteps
<1> QED BY <1>1, <1>2, <1>3

\* What a claimed worker finds (the start of ProcessPending).
LEMMA ClaimedKeeps ==
    ASSUME AeInv, NEW w \in AeWorkers, Claimed(w)
    PROVE  AeInv'
<1> DEFINE inv == aeWorker[w].inv
           n == inv.count + 1
           run == aeStore.run[n]
           att == aeStore.att[n]
           stop == att.state = "denied" \/ n >= AeMaxAttempts
<1>0. /\ aeWorker[w] \in AeWorkerType /\ aeStore \in AeStoreType /\ inv \in Invocations
      /\ inv.count \in 0..AeMaxAttempts /\ AeMaxAttempts \in Nat
  BY AutomationAssumption DEF AeInv, AeTypeOK, AeWorkerType, Invocations
<1>1. CASE Go(w, Idle)
  BY <1>1, NewTyped, GoKeeps
<1>2. CASE n \in Runs /\ run \notin {"none", "running"} /\
           Put(w, PutInvocation(Touch([inv EXCEPT !.status = IF run = "dropped" THEN "skipped" ELSE run,
                                                  !.count = IF run = "dropped" THEN @ ELSE n])), Idle, Idle)
  <2> DEFINE s == IF run = "dropped" THEN "skipped" ELSE run
             k == IF run = "dropped" THEN inv.count ELSE n
             new == Touch([inv EXCEPT !.status = s, !.count = k])
             c == PutInvocation(new)
  <2>1. Put(w, c, Idle, Idle)
    BY <1>2
  <2>2. s \in Statuses
    <3>1. run \in RunStates /\ run \notin {"none", "running"}
      BY <1>0, <1>2 DEF AeStoreType
    <3> HIDE DEF run
    <3> QED BY <3>1 DEF RunStates, OpenRun, Statuses, TerminalInvocation
  <2>3. k \in 0..AeMaxAttempts
    BY SMTT(60), <1>0, <1>2 DEF Runs
  <2> HIDE DEF s, k
  <2>4. new \in Invocations
    BY <1>0, <2>2, <2>3, TouchTyped
  <2> HIDE DEF new
  <2>5. c \in AeCommands
    BY <2>4, PutTyped
  <2> HIDE DEF c
  <2> QED BY <2>1, <2>5, NewTyped, PutKeeps
<1>3. CASE Unresolved # {} /\
           Go(w, [To(w, "ambiguous") EXCEPT !.n = CHOOSE u \in Unresolved : \A v \in Unresolved : v <= u])
  <2> DEFINE top == CHOOSE u \in Unresolved : \A v \in Unresolved : v <= u
             next == [To(w, "ambiguous") EXCEPT !.n = top]
  <2>1. top \in Runs
    <3>1. Unresolved \subseteq Runs
      BY DEF Unresolved
    <3>2. \E u \in Unresolved : \A v \in Unresolved : v <= u
      BY <1>3, <3>1, LargestRun
    <3> QED BY <3>1, <3>2
  <2>2. Go(w, next)
    BY <1>3
  <2> HIDE DEF top
  <2>3. next \in SaneWorker /\ next.pc = "ambiguous"
    BY <2>1, StepNames, PlainAtRun
  <2> HIDE DEF next
  <2> QED BY <2>2, <2>3, GoKeeps
<1>4. CASE Put(w, PutInvocation(Touch([inv EXCEPT !.status = "failed"])), Idle, Idle)
  <2> DEFINE new == Touch([inv EXCEPT !.status = "failed"])
             c == PutInvocation(new)
  <2>1. Put(w, c, Idle, Idle)
    BY SMTT(60), <1>4
  <2>2. new \in Invocations
    <3>1. PICK s \in Statuses : s = "failed"
      BY DEF Statuses, TerminalInvocation
    <3> QED BY <1>0, <3>1, TouchTyped
  <2> HIDE DEF new
  <2>3. c \in AeCommands
    BY <2>2, PutTyped
  <2> HIDE DEF c
  <2> QED BY <2>1, <2>3, NewTyped, PutKeeps
<1>5. CASE n \in Runs /\
           LET next == Touch([inv EXCEPT !.count = n, !.status = IF stop THEN "failed" ELSE "running"])
           IN Put(w, PutInvocation(next), [To(w, "put early run") EXCEPT !.inv = next, !.n = n], Idle)
  <2> DEFINE s == IF stop THEN "failed" ELSE "running"
             next == Touch([inv EXCEPT !.count = n, !.status = s])
             c == PutInvocation(next)
             ok == [To(w, "put early run") EXCEPT !.inv = next, !.n = n]
  <2>1. Put(w, c, ok, Idle)
    BY <1>5
  <2>2. s \in Statuses /\ n \in 0..AeMaxAttempts /\ (s # "failed" => n + 1 \in Runs)
    BY SMTT(60), <1>0, <1>5 DEF Statuses, TerminalInvocation, Runs
  <2> HIDE DEF s
  <2>3. next \in Invocations /\ next.status = s
    BY <1>0, <2>2, TouchTyped
  <2> HIDE DEF next
  <2>4. c \in AeCommands
    BY <2>3, PutTyped
  <2> HIDE DEF c
  <2>5. ok \in SaneWorker /\ ok.pc = "put early run"
    <3>1. "put early run" \in AeSteps
      BY StepNames
    <3>2. PICK y \in AeWorkerType : y = To(w, "put early run") /\ y.pc = "put early run"
      BY <3>1, ToTyped
    <3>3. PICK k \in 0..AeMaxAttempts : k = n
      BY <2>2
    <3>4. LET x == [y EXCEPT !.inv = next, !.n = k] IN
          x \in AeWorkerType /\ x.pc = "put early run" /\ x.n = k /\ x.inv = next
      BY <2>3, <3>2 DEF AeWorkerType
    <3>5. ok \in AeWorkerType /\ ok.pc = "put early run" /\ ok.n = n /\ ok.inv = next
      BY <3>2, <3>3, <3>4
    <3> HIDE DEF ok
    <3>6. n \in Runs
      BY <1>5
    <3> QED BY <2>2, <2>3, <3>5, <3>6 DEF SaneWorker, Sane
  <2> HIDE DEF ok
  <2> QED BY <2>1, <2>4, <2>5, NewTyped, PutKeeps
<1>6. CASE n \in Runs /\ Go(w, [EndRun(w, "dropped") EXCEPT !.n = n])
  <2> DEFINE next == [EndRun(w, "dropped") EXCEPT !.n = n]
  <2>1. "put run" \in AeSteps /\ "dropped" \in AeResults
    BY DEF AeSteps, AeResults
  <2>2. PICK y \in AeWorkerType : y = EndRun(w, "dropped") /\ y.pc = "put run" /\ y.res = "dropped"
    BY EndRunFields DEF RunResults
  <2>3. PICK k \in 0..AeMaxAttempts : k = n
    BY <1>0, <1>6 DEF Runs
  <2>4. LET x == [y EXCEPT !.n = k] IN
        x \in AeWorkerType /\ x.pc = "put run" /\ x.res = "dropped" /\ x.n = k
    BY <2>2 DEF AeWorkerType
  <2>5. next \in AeWorkerType /\ next.pc = "put run" /\ next.res = "dropped" /\ next.n = n
    BY <2>2, <2>3, <2>4
  <2> HIDE DEF next
  <2>6. next \in SaneWorker
    <3>1. n \in Runs
      BY <1>6
    <3> QED BY <2>5, <3>1 DEF SaneWorker, Sane, RunResults
  <2> QED BY <1>6, <2>5, <2>6, GoKeeps DEF next
<1>7. CASE n \in Runs /\ Go(w, [To(w, "execute") EXCEPT !.n = n])
  <2> DEFINE next == [To(w, "execute") EXCEPT !.n = n]
  <2>1. next \in SaneWorker /\ next.pc = "execute"
    <3>1. PICK k \in Runs : k = n
      BY <1>7
    <3>2. [To(w, "execute") EXCEPT !.n = k] \in SaneWorker /\ [To(w, "execute") EXCEPT !.n = k].pc = "execute"
      BY StepNames, PlainAtRun
    <3> QED BY <3>1, <3>2
  <2> HIDE DEF next
  <2> QED BY <1>7, <2>1, GoKeeps DEF next
<1> QED BY <1>1, <1>2, <1>3, <1>4, <1>5, <1>6, <1>7 DEF Claimed

\* The run whose attempt ended early, and runs whose outcome is unknown.
LEMMA UnresolvedKeeps ==
    ASSUME AeInv, NEW w \in AeWorkers, EarlyRun(w) \/ Ambiguous(w)
    PROVE  AeInv'
<1> DEFINE n == aeWorker[w].n
           inv == aeWorker[w].inv
<1>0. /\ aeWorker[w] \in AeWorkerType /\ Sane(aeWorker[w]) /\ inv \in Invocations
      /\ inv.count \in 0..AeMaxAttempts /\ n \in 0..AeMaxAttempts
  BY DEF AeInv, AeTypeOK, AeWorkerType, Invocations
<1>1. CASE EarlyRun(w)
  <2> DEFINE stop == inv.status = "failed"
             s == IF stop THEN "failed" ELSE "retryable"
             c == PutRun(n, s)
             ok == IF stop THEN Idle ELSE [To(w, "execute") EXCEPT !.n = @ + 1]
  <2>1. Put(w, c, ok, Idle) /\ n \in Runs /\ (~stop => n + 1 \in Runs)
    BY <1>0, <1>1 DEF EarlyRun, At, Sane, BeforeRun
  <2>2. s \in RunStates
    BY DEF RunStates, OpenRun
  <2> HIDE DEF s
  <2>3. c \in AeCommands
    BY <2>1, <2>2, PutTyped
  <2> HIDE DEF c
  <2>4. ok \in SaneWorker /\ ok.pc # "provider"
    <3>1. CASE stop
      BY <3>1, NewTyped
    <3>2. CASE ~stop
      <4>1. PICK k \in Runs : k = n + 1
        BY <2>1, <3>2
      <4>2. To(w, "execute").n = n
        BY StepNames, ToTyped DEF PlainSteps
      <4>3. ok = [To(w, "execute") EXCEPT !.n = k]
        BY <3>2, <4>1, <4>2
      <4>4. [To(w, "execute") EXCEPT !.n = k] \in SaneWorker /\ [To(w, "execute") EXCEPT !.n = k].pc = "execute"
        BY StepNames, PlainAtRun
      <4> QED BY <4>3, <4>4
    <3> QED BY <3>1, <3>2
  <2> HIDE DEF ok
  <2> QED BY <2>1, <2>3, <2>4, NewTyped, PutKeeps
<1>2. CASE Ambiguous(w)
  <2>1. n \in Runs
    BY <1>0, <1>2 DEF Ambiguous, At, Sane, BeforeRun
  <2>2. To(w, "fail") \in SaneWorker /\ To(w, "fail").pc # "provider"
    BY <2>1, StepNames, PlainTo
  <2>3. CASE Go(w, Idle) \/ Go(w, To(w, "fail"))
    BY <2>2, <2>3, NewTyped, GoKeeps
  <2>4. CASE Put(w, PutRun(n, "failed"), To(w, "fail"), Idle)
    <3>1. PutRun(n, "failed") \in AeCommands
      BY <2>1, PutTyped DEF RunStates
    <3> QED BY <2>2, <2>4, <3>1, NewTyped, PutKeeps
  <2>5. CASE Put(w, PutInvocation(Touch([inv EXCEPT !.status = "failed",
                                                    !.count = IF n > @ THEN n ELSE @])), Idle, Idle)
    <3> DEFINE k == IF n > inv.count THEN n ELSE inv.count
               new == Touch([inv EXCEPT !.status = "failed", !.count = k])
               c == PutInvocation(new)
    <3>1. Put(w, c, Idle, Idle)
      BY <2>5
    <3>2. k \in 0..AeMaxAttempts
      BY SMTT(60), <1>0
    <3> HIDE DEF k
    <3>3. new \in Invocations
      BY <1>0, <3>2, TouchTyped DEF Statuses, TerminalInvocation
    <3> HIDE DEF new
    <3>4. c \in AeCommands
      BY <3>3, PutTyped
    <3> HIDE DEF c
    <3> QED BY <3>1, <3>4, NewTyped, PutKeeps
  <2> QED BY <1>2, <2>3, <2>4, <2>5 DEF Ambiguous
<1> QED BY <1>1, <1>2

\* Up to the provider: executeInvocation and beginProcedureInferenceAttempt.
LEMMA BeginKeeps ==
    ASSUME AeInv, NEW w \in AeWorkers, Execute(w) \/ RecordNoAnswer(w) \/ Begin(w)
    PROVE  AeInv'
<1> DEFINE n == aeWorker[w].n
           att == aeStore.att[n]
<1>0. /\ aeWorker[w] \in AeWorkerType /\ Sane(aeWorker[w]) /\ aeStore \in AeStoreType
  BY DEF AeInv, AeTypeOK
<1>1. n \in Runs
  BY <1>0 DEF Execute, RecordNoAnswer, Begin, At, Sane, BeforeRun
<1>2. att \in Attempts
  BY <1>0, <1>1 DEF AeStoreType
<1>3. \A r \in RunResults : EndRun(w, r) \in SaneWorker /\ EndRun(w, r).pc # "provider"
  BY <1>1, EndTyped
<1>4. \A r \in {"failed", "error"} : NoAnswer(w, r) \in SaneWorker /\ NoAnswer(w, r).pc # "provider"
  BY <1>1, EndTyped
<1>5. {"error", "skipped", "failed"} \subseteq RunResults
  BY DEF RunResults
<1>6. CASE Execute(w)
  <2>1. CASE \E r \in {"error", "skipped"} : Go(w, EndRun(w, r))
    BY <1>3, <1>5, <2>1, GoKeeps
  <2>2. CASE Record(w, "published", [To(w, "acknowledge") EXCEPT !.res = "skipped"], EndRun(w, "error"))
    <3> DEFINE ok == [To(w, "acknowledge") EXCEPT !.res = "skipped"]
    <3>0. "acknowledge" \in AeSteps
      BY StepNames
    <3>1. PICK y \in AeWorkerType : y = To(w, "acknowledge") /\ y.pc = "acknowledge" /\ y.n = n
      BY <3>0, ToTyped
    <3>2. "skipped" \in AeResults
      BY DEF AeResults
    <3>3. LET x == [y EXCEPT !.res = "skipped"] IN
          x \in AeWorkerType /\ x.pc = "acknowledge" /\ x.n = n /\ x.res = "skipped"
      BY <3>1, <3>2 DEF AeWorkerType
    <3>4. ok \in AeWorkerType /\ ok.pc = "acknowledge" /\ ok.n = n /\ ok.res = "skipped"
      BY <3>1, <3>3
    <3> HIDE DEF ok
    <3>5. ok \in SaneWorker
      BY <1>1, <3>4 DEF SaneWorker, Sane
    <3>6. "published" \in Dispositions /\ Record(w, "published", ok, EndRun(w, "error"))
      BY <2>2 DEF Dispositions, ok
    <3>7. EndRun(w, "error") \in SaneWorker /\ EndRun(w, "error").pc # "provider"
      BY <1>3, <1>5
    <3> QED BY <1>1, <3>4, <3>5, <3>6, <3>7, RecordKeeps
  <2>3. CASE Go(w, To(w, "begin"))
    <3>1. To(w, "begin") \in SaneWorker /\ To(w, "begin").pc # "provider"
      BY <1>1, StepNames, PlainTo
    <3> QED BY <2>3, <3>1, GoKeeps
  <2> QED BY <1>6, <2>1, <2>2, <2>3 DEF Execute
<1>7. CASE RecordNoAnswer(w)
  <2> DEFINE end == EndRun(w, aeWorker[w].res)
             d == IF Owned(w) THEN "not_published" ELSE Disowned
  <2>1. Record(w, d, end, end)
    BY <1>7 DEF RecordNoAnswer
  <2>2. d \in Dispositions
    BY DEF Dispositions, NotPublished
  <2> HIDE DEF d
  <2>3. aeWorker[w].res \in RunResults
    BY <1>0, <1>7 DEF RecordNoAnswer, At, Sane, RunResults
  <2>4. end \in SaneWorker /\ end.pc # "provider"
    BY <1>3, <2>3
  <2> HIDE DEF end
  <2> QED BY <1>1, <2>1, <2>2, <2>4, RecordKeeps
<1>8. CASE Begin(w)
  <2> DEFINE new == [NoAttempt EXCEPT !.state = "requested", !.rec = 1]
  <2>1. new \in Attempts
    BY DEF NoAttempt, Attempts, Provisional
  <2>2. CASE Go(w, NoAnswer(w, "failed"))
    BY <1>4, <2>2, GoKeeps
  <2>3. CASE Go(w, [To(w, "begin run") EXCEPT !.att = att])
    <3> DEFINE next == [To(w, "begin run") EXCEPT !.att = att]
    <3>1. next \in SaneWorker /\ next.pc = "begin run"
      <4> HIDE DEF att
      <4>1. "begin run" \in PlainSteps
        BY StepNames
      <4> QED BY <1>1, <1>2, <4>1, PlainAttempt
    <3> HIDE DEF next
    <3> QED BY <2>3, <3>1, GoKeeps DEF next, att
  <2>4. CASE Put(w, PutAttempt(n, new), [To(w, "begin run") EXCEPT !.att = new], NoAnswer(w, "error"))
    <3> DEFINE ok == [To(w, "begin run") EXCEPT !.att = new]
               c == PutAttempt(n, new)
    <3>1. Put(w, c, ok, NoAnswer(w, "error"))
      BY <2>4
    <3> HIDE DEF new
    <3>2. ok \in SaneWorker /\ ok.pc = "begin run"
      <4>1. "begin run" \in PlainSteps
        BY StepNames
      <4> QED BY <1>1, <2>1, <4>1, PlainAttempt
    <3> HIDE DEF ok
    <3>3. c \in AeCommands
      BY <1>1, <2>1, PutTyped
    <3> HIDE DEF c
    <3> QED BY <1>4, <3>1, <3>2, <3>3, PutKeeps
  <2>5. CASE Put(w, PutRun(n, "running"), To(w, "authorize"), NoAnswer(w, "error"))
    <3>1. PutRun(n, "running") \in AeCommands
      BY <1>1, PutTyped DEF RunStates, OpenRun
    <3>2. To(w, "authorize") \in SaneWorker /\ To(w, "authorize").pc # "provider"
      BY <1>1, StepNames, PlainTo
    <3> QED BY <1>4, <2>5, <3>1, <3>2, PutKeeps
  <2> QED BY <1>8, <2>2, <2>3, <2>4, <2>5 DEF Begin
<1> QED BY <1>6, <1>7, <1>8

\* The worker that records "started" is the only one that calls the provider:
\* the record says "authorized" before, so nobody has been there.
LEMMA StartKeeps ==
    ASSUME AeInv, NEW w \in AeWorkers, aeWorker[w].n \in Runs, NEW a \in Attempts, a.state = "started",
           NEW ok \in SaneWorker, ok.pc = "provider", ok.n = aeWorker[w].n,
           NEW bad \in SaneWorker, bad.pc # "provider",
           Put(w, PutAttempt(aeWorker[w].n, a), ok, bad)
    PROVE  AeInv'
<1> DEFINE c == PutAttempt(aeWorker[w].n, a)
<1>0. c \in AeCommands /\ c.kind = "attempt" /\ c.n = aeWorker[w].n /\ c.att = a
  BY PutTyped DEF PutAttempt
<1> HIDE DEF c
<1>1. CASE /\ Accepted(c) /\ aeStore' = Applied(c) /\ aeWorker' = [aeWorker EXCEPT ![w] = ok]
           /\ UNCHANGED <<aeLate, aeFaults, aeToken, aeRequest, aeCalls>>
  <2> PICK n \in Runs : n = aeWorker[w].n
    OBVIOUS
  <2>1. aeStore \in AeStoreType /\ aeWorker \in [AeWorkers -> AeWorkerType] /\ ok \in AeWorkerType /\ Sane(ok)
    BY DEF AeInv, AeTypeOK, SaneWorker
  <2>2. aeStore' \in AeStoreType /\ \A m \in Runs : Past(m) => Past(m)'
    BY <1>0, <1>1, <2>1, AppliedTyped DEF Past
  <2>3. AllowedTransition(aeStore.att[n].state, "started")
    BY <1>0, <1>1 DEF Accepted, AttemptAccepted
  <2>4. ~Past(n)
    BY <2>3 DEF AllowedTransition, Past, Spendable, TerminalAttempt
  <2>5. Past(n)'
    <3>1. aeStore' = [aeStore EXCEPT !.att[n] = a]
      BY <1>0, <1>1 DEF Applied
    <3>2. aeStore'.att[n] = a
      BY <2>1, <3>1 DEF AeStoreType
    <3> QED BY <3>2 DEF Past, Spendable
  <2>6. aeWorker' \in [AeWorkers -> AeWorkerType] /\ \A v \in AeWorkers : aeWorker'[v] = IF v = w THEN ok ELSE aeWorker[v]
    BY <1>1, <2>1
  <2>7. AeTypeOK'
    BY <1>1, <2>2, <2>6 DEF AeInv, AeTypeOK
  <2>8. \A v \in AeWorkers : Sane(aeWorker[v])'
    BY ZenonT(60), <2>1, <2>6 DEF AeInv, Sane
  <2>9. ProviderInv'
    <3>1. aeCalls[n] = 0 /\ \A v \in AeWorkers : aeWorker[v].pc = "provider" => aeWorker[v].n # n
      BY <2>4 DEF AeInv, ProviderInv, At
    <3>2. \A v \in AeWorkers : aeWorker[v].pc = "provider" => aeWorker[v].n \in Runs
      BY DEF AeInv, Sane, BeforeRun
    <3>3. \A m \in Runs : aeCalls'[m] \in {0, 1} /\ (aeCalls'[m] = 1 => Past(m)')
      BY <1>1, <2>2 DEF AeInv, ProviderInv
    <3>4. \A v \in AeWorkers : aeWorker'[v].pc = "provider" =>
             \A m \in Runs : m = aeWorker'[v].n => Past(m)' /\ aeCalls'[m] = 0
      BY <1>1, <2>2, <2>5, <2>6, <3>1 DEF AeInv, ProviderInv, At
    <3>5. \A u, v \in AeWorkers :
             aeWorker'[u].pc = "provider" /\ aeWorker'[v].pc = "provider" /\ aeWorker'[u].n = aeWorker'[v].n => u = v
      BY <2>6, <3>1 DEF AeInv, ProviderInv, At
    <3>6. \A v \in AeWorkers : aeWorker'[v].pc = "provider" => aeWorker'[v].n \in Runs
      BY <2>6, <3>2
    <3> QED BY <3>3, <3>4, <3>5, <3>6 DEF ProviderInv, At, Past
  <2> QED BY <2>7, <2>8, <2>9 DEF AeInv
<1>2. CASE Put(w, c, bad, bad)
  BY <1>0, <1>2, PutKeeps
<1> QED BY <1>1, <1>2 DEF Put, c

\* A call of the provider, or none because the last check fails.
LEMMA ProviderKeeps ==
    ASSUME AeInv, NEW w \in AeWorkers, Provider(w)
    PROVE  AeInv'
<1>0. At(w, "provider") /\ aeWorker[w].n \in Runs /\ aeWorker \in [AeWorkers -> AeWorkerType]
  BY DEF Provider, AeInv, AeTypeOK, Sane, At, BeforeRun
<1>1. \A r \in TerminalAttempt : EndAttempt(w, r) \in SaneWorker /\ EndAttempt(w, r).pc = "complete"
  BY <1>0, EndTyped
<1>2. "succeeded" \in TerminalAttempt /\ "ambiguous" \in TerminalAttempt
  BY DEF TerminalAttempt
<1>3. CASE Go(w, EndAttempt(w, "ambiguous"))
  BY <1>1, <1>2, <1>3, GoKeeps
<1>4. CASE \E r \in {"succeeded", "ambiguous"} :
              /\ aeWorker' = [aeWorker EXCEPT ![w] = EndAttempt(w, r)]
              /\ aeCalls' = [aeCalls EXCEPT ![aeWorker[w].n] = @ + 1]
              /\ UNCHANGED <<aeStore, aeLate, aeToken, aeRequest, aeFaults>>
  <2> PICK n \in Runs : n = aeWorker[w].n
    BY <1>0
  <2>1. PICK next \in SaneWorker : /\ next.pc = "complete"
                                   /\ aeWorker' = [aeWorker EXCEPT ![w] = next]
    BY <1>1, <1>2, <1>4
  <2>2. /\ aeCalls' = [aeCalls EXCEPT ![n] = @ + 1]
        /\ UNCHANGED <<aeStore, aeLate, aeToken, aeRequest, aeFaults>>
    BY <1>4
  <2>3. next \in AeWorkerType /\ Sane(next)
    BY DEF SaneWorker
  <2>4. aeWorker' \in [AeWorkers -> AeWorkerType] /\ \A v \in AeWorkers : aeWorker'[v] = IF v = w THEN next ELSE aeWorker[v]
    BY <1>0, <2>1, <2>3
  <2>5. aeCalls \in [Runs -> Nat] /\ aeCalls[n] = 0 /\ Past(n)
    BY <1>0 DEF AeInv, AeTypeOK, ProviderInv
  <2>6. aeCalls' \in [Runs -> Nat] /\ aeCalls'[n] = 1 /\ \A m \in Runs \ {n} : aeCalls'[m] = aeCalls[m]
    BY <2>2, <2>5
  <2>7. AeTypeOK'
    BY <2>2, <2>4, <2>6 DEF AeInv, AeTypeOK
  <2>8. \A v \in AeWorkers : Sane(aeWorker[v])'
    BY ZenonT(60), <2>3, <2>4 DEF AeInv, Sane
  <2>9. ProviderInv'
    <3>1. \A v \in AeWorkers \ {w} : aeWorker[v].pc = "provider" => aeWorker[v].n # n
      BY <1>0 DEF AeInv, ProviderInv, At
    <3>2. \A m \in Runs : Past(m)' <=> Past(m)
      BY <2>2 DEF Past
    <3>3. \A v \in AeWorkers : aeWorker[v].pc = "provider" => aeWorker[v].n \in Runs
      BY DEF AeInv, Sane, BeforeRun
    <3>4. \A m \in Runs : aeCalls'[m] \in {0, 1} /\ (aeCalls'[m] = 1 => Past(m)')
      BY <2>5, <2>6, <3>2 DEF AeInv, ProviderInv
    <3>5. \A v \in AeWorkers : aeWorker'[v].pc = "provider" => v # w /\ aeWorker'[v] = aeWorker[v]
      BY <2>1, <2>4
    <3>6. \A v \in AeWorkers : aeWorker'[v].pc = "provider" =>
             \A m \in Runs : m = aeWorker'[v].n => Past(m)' /\ aeCalls'[m] = 0
      BY <2>6, <3>1, <3>2, <3>5 DEF AeInv, ProviderInv, At
    <3>7. \A u, v \in AeWorkers :
             aeWorker'[u].pc = "provider" /\ aeWorker'[v].pc = "provider" /\ aeWorker'[u].n = aeWorker'[v].n => u = v
      BY <3>5 DEF AeInv, ProviderInv, At
    <3> QED BY <3>3, <3>4, <3>5, <3>6, <3>7 DEF ProviderInv, At, Past
  <2> QED BY <2>7, <2>8, <2>9 DEF AeInv
<1> QED BY <1>3, <1>4 DEF Provider

\* Authorization, refresh and start (the hooks of Invoke), and the end of an
\* attempt.
LEMMA AttemptKeeps ==
    ASSUME AeInv, NEW w \in AeWorkers, Prepare(w) \/ Complete(w)
    PROVE  AeInv'
<1> DEFINE n == aeWorker[w].n
           att == aeWorker[w].att
<1>0. aeWorker[w] \in AeWorkerType /\ Sane(aeWorker[w]) /\ att \in Attempts
  BY DEF AeInv, AeTypeOK, AeWorkerType
<1>1. n \in Runs
  BY <1>0 DEF Prepare, Complete, At, Sane, BeforeRun
<1>2. \A r \in TerminalAttempt : EndAttempt(w, r) \in SaneWorker /\ EndAttempt(w, r).pc # "provider"
  BY <1>1, EndTyped
<1>3. "failed" \in TerminalAttempt /\ "denied" \in TerminalAttempt
  BY DEF TerminalAttempt
<1>4. ASSUME NEW s \in {"authorized", "started"}, NEW pc \in {"refresh", "start", "provider"},
             pc = "provider" => s = "started",
             Put(w, PutAttempt(n, Step(att, s)), [To(w, pc) EXCEPT !.att = Step(att, s)], EndAttempt(w, "failed"))
      PROVE  AeInv'
  <2> PICK a \in Attempts : a = Step(att, s) /\ a.state = s
    <3>1. Step(att, s) \in Attempts
      BY <1>0, AttemptTyped
    <3>2. Step(att, s).state = s
      BY <1>0 DEF Step, Attempts
    <3> QED BY <3>1, <3>2
  <2> DEFINE ok == [To(w, pc) EXCEPT !.att = a]
  <2>1. Put(w, PutAttempt(n, a), ok, EndAttempt(w, "failed"))
    BY <1>4
  <2>2. ok \in SaneWorker /\ ok.pc = pc /\ ok.n = n
    <3>1. pc \in PlainSteps
      BY StepNames
    <3> QED BY <1>1, <3>1, PlainAttempt
  <2> HIDE DEF ok
  <2>3. PutAttempt(n, a) \in AeCommands
    BY <1>1, PutTyped
  <2>4. EndAttempt(w, "failed") \in SaneWorker /\ EndAttempt(w, "failed").pc # "provider"
    BY <1>2, <1>3
  <2>5. CASE pc = "provider"
    BY <1>1, <1>4, <2>1, <2>2, <2>4, <2>5, StartKeeps
  <2>6. CASE pc # "provider"
    BY <2>1, <2>2, <2>3, <2>4, <2>6, PutKeeps
  <2> QED BY <2>5, <2>6
<1>5. CASE Prepare(w)
  <2>1. CASE \E d \in {"failed", "denied"} : Go(w, EndAttempt(w, d))
    BY <1>2, <1>3, <2>1, GoKeeps
  <2>2. CASE Go(w, To(w, "refresh"))
    <3>1. To(w, "refresh") \in SaneWorker /\ To(w, "refresh").pc # "provider"
      BY <1>1, StepNames, PlainTo
    <3> QED BY <2>2, <3>1, GoKeeps
  <2> QED BY <1>4, <1>5, <2>1, <2>2 DEF Prepare
<1>6. CASE Complete(w)
  <2> DEFINE end == aeWorker[w].res
             bad == NoAnswer(w, IF att.state = "started" THEN "failed" ELSE "error")
             a == Step(att, end)
             ok == IF end = "succeeded" THEN [To(w, "publish") EXCEPT !.att = NoAttempt] ELSE bad
             c == PutAttempt(n, a)
  <2>1. Put(w, c, ok, bad)
    BY <1>6 DEF Complete
  <2>2. end \in TerminalAttempt
    BY <1>0, <1>6 DEF Complete, At, Sane
  <2>3. a \in Attempts
    BY <1>0, <2>2, AttemptTyped
  <2> HIDE DEF a
  <2>4. c \in AeCommands
    BY <1>1, <2>3, PutTyped
  <2> HIDE DEF c
  <2>5. bad \in SaneWorker /\ bad.pc # "provider"
    BY <1>1, EndTyped
  <2> HIDE DEF bad
  <2>6. ok \in SaneWorker /\ ok.pc # "provider"
    <3>1. "publish" \in PlainSteps
      BY StepNames
    <3>2. [To(w, "publish") EXCEPT !.att = NoAttempt] \in SaneWorker
          /\ [To(w, "publish") EXCEPT !.att = NoAttempt].pc = "publish"
      BY <1>1, <3>1, NewTyped, PlainAttempt
    <3> QED BY <2>5, <3>2
  <2> HIDE DEF ok
  <2> QED BY <2>1, <2>4, <2>5, <2>6, PutKeeps
<1> QED BY <1>5, <1>6

\* Publication (executeInvocation after the provider's answer).
LEMMA PublishKeeps ==
    ASSUME AeInv, NEW w \in AeWorkers, Publish(w) \/ CommitOutput(w) \/ Committed(w)
    PROVE  AeInv'
<1> DEFINE n == aeWorker[w].n
           inv == aeWorker[w].inv
<1>0. aeWorker[w] \in AeWorkerType /\ Sane(aeWorker[w]) /\ inv \in Invocations
      /\ inv.tok \in 0..AeMaxClaims
  BY DEF AeInv, AeTypeOK, AeWorkerType, Invocations
<1>1. n \in Runs
  BY <1>0 DEF Publish, CommitOutput, Committed, At, Sane, BeforeRun
<1>2. \A r \in {"error", "reconcile", "skipped", "succeeded"} :
         EndRun(w, r) \in SaneWorker /\ EndRun(w, r).pc # "provider"
  BY <1>1, EndTyped DEF RunResults
<1>3. \A pc \in PlainSteps \ {"provider"} : To(w, pc) \in SaneWorker /\ To(w, pc).pc # "provider"
  BY <1>1, PlainTo
<1>4. {"publish", "check", "probe", "commit"} \subseteq PlainSteps \ {"provider"}
  BY StepNames
<1>5. {"not_published", "publication_pending", "not_changed", "published"} \subseteq Dispositions
  BY DEF Dispositions, NotPublished, Provisional
<1>6. ASSUME NEW pc \in {"probe", "commit"}, Renew(w, pc)
      PROVE  AeInv'
  <2>1. CASE Go(w, EndRun(w, "reconcile"))
    BY <1>2, <2>1, GoKeeps
  <2>2. CASE LET i == Touch(inv) IN
             Put(w, PutInvocation(i), [To(w, pc) EXCEPT !.inv = i], EndRun(w, "reconcile"))
    <3> PICK i \in Invocations : i = Touch(inv)
      BY <1>0, TouchPlain
    <3> DEFINE ok == [To(w, pc) EXCEPT !.inv = i]
    <3>1. Put(w, PutInvocation(i), ok, EndRun(w, "reconcile"))
      BY <2>2
    <3>2. ok \in SaneWorker /\ ok.pc = pc
      BY <1>1, <1>4, PlainInvocation
    <3> HIDE DEF ok
    <3>3. PutInvocation(i) \in AeCommands
      BY PutTyped
    <3> QED BY <1>2, <3>1, <3>2, <3>3, PutKeeps
  <2> QED BY <1>6, <2>1, <2>2 DEF Renew
<1>7. ASSUME Suppress(w)
      PROVE  AeInv'
  BY <1>1, <1>2, <1>5, <1>7, RecordKeeps DEF Suppress
<1>8. [To(w, "committed") EXCEPT !.res = "succeeded"] \in SaneWorker
      /\ [To(w, "committed") EXCEPT !.res = "succeeded"].pc # "provider"
  <2>1. "committed" \in AeSteps /\ "succeeded" \in AeResults
    BY StepNames DEF AeResults, TerminalAttempt
  <2>2. PICK y \in AeWorkerType : y = To(w, "committed") /\ y.pc = "committed" /\ y.n = n
    BY <2>1, ToTyped
  <2>3. LET x == [y EXCEPT !.res = "succeeded"] IN
        x \in AeWorkerType /\ x.pc = "committed" /\ x.n = n /\ x.res = "succeeded"
    BY <2>1, <2>2 DEF AeWorkerType
  <2> QED BY <1>1, <2>2, <2>3 DEF SaneWorker, Sane
<1>9. CASE Publish(w)
  <2>1. CASE \E r \in {"error", "reconcile"} : Record(w, "not_published", EndRun(w, r), EndRun(w, r))
    BY <1>1, <1>2, <1>5, <2>1, RecordKeeps
  <2>2. CASE Record(w, "publication_pending", To(w, "check"), EndRun(w, "reconcile"))
    BY <1>1, <1>2, <1>3, <1>4, <1>5, <2>2, RecordKeeps
  <2> QED BY <1>9, <2>1, <2>2 DEF Publish
<1>10. CASE CommitOutput(w)
  <2>1. CASE Go(w, [To(w, "committed") EXCEPT !.res = "succeeded"])
    <3> DEFINE next == [To(w, "committed") EXCEPT !.res = "succeeded"]
    <3> HIDE DEF next
    <3> QED BY <1>8, <2>1, GoKeeps DEF next
  <2>2. CASE Go(w, EndRun(w, "reconcile"))
    BY <1>2, <2>2, GoKeeps
  <2>3. CASE Record(w, "not_changed", EndRun(w, "skipped"), EndRun(w, "error"))
    BY <1>1, <1>2, <1>5, <2>3, RecordKeeps
  <2>4. CASE Go(w, To(w, "check"))
    BY <1>3, <1>4, <2>4, GoKeeps
  <2>5. CASE Put(w, [kind |-> "output", n |-> n, tok |-> inv.tok],
                 [To(w, "committed") EXCEPT !.res = "succeeded"], EndRun(w, "reconcile"))
    <3> DEFINE ok == [To(w, "committed") EXCEPT !.res = "succeeded"]
               c == [kind |-> "output", n |-> n, tok |-> inv.tok]
    <3>1. Put(w, c, ok, EndRun(w, "reconcile"))
      BY <2>5
    <3>2. c \in AeCommands
      BY <1>0, <1>1 DEF AeCommands
    <3> HIDE DEF c
    <3>3. ok \in SaneWorker /\ ok.pc # "provider"
      BY <1>8
    <3> HIDE DEF ok
    <3> QED BY <1>2, <3>1, <3>2, <3>3, PutKeeps
  <2> QED BY <1>6, <1>7, <1>10, <2>1, <2>2, <2>3, <2>4, <2>5 DEF CommitOutput
<1>11. CASE Committed(w)
  <2>1. CASE Go(w, EndRun(w, "reconcile"))
    BY <1>2, <2>1, GoKeeps
  <2>2. CASE At(w, "committed") /\ Record(w, "published", To(w, "acknowledge"), EndRun(w, "reconcile"))
    <3>1. To(w, "acknowledge") \in AeWorkerType /\ To(w, "acknowledge").pc = "acknowledge"
          /\ To(w, "acknowledge").n = n /\ To(w, "acknowledge").res = aeWorker[w].res
      BY StepNames, ToTyped
    <3>2. aeWorker[w].res = "succeeded"
      BY <1>0, <2>2 DEF At, Sane
    <3>3. To(w, "acknowledge") \in SaneWorker
      BY <1>1, <3>1, <3>2 DEF SaneWorker, Sane
    <3> QED BY <1>1, <1>2, <1>5, <2>2, <3>1, <3>3, RecordKeeps
  <2>3. CASE /\ At(w, "acknowledge")
             /\ Put(w, [kind |-> "ack"], EndRun(w, aeWorker[w].res), EndRun(w, "reconcile"))
    <3> DEFINE c == [kind |-> "ack"]
    <3>1. aeWorker[w].res \in {"skipped", "succeeded"}
      BY <1>0, <2>3 DEF At, Sane
    <3>2. c \in AeCommands
      BY PutTyped
    <3> HIDE DEF c
    <3> QED BY <1>2, <2>3, <3>1, <3>2, PutKeeps DEF c
  <2> QED BY <1>11, <2>1, <2>2, <2>3 DEF Committed
<1> QED BY <1>9, <1>10, <1>11

\* The run and then the invocation get the result (the end of ProcessPending).
LEMMA ResultKeeps ==
    ASSUME AeInv, NEW w \in AeWorkers, PutResult(w)
    PROVE  AeInv'
<1> DEFINE n == aeWorker[w].n
           inv == aeWorker[w].inv
           res == aeWorker[w].res
<1>0. /\ aeWorker[w] \in AeWorkerType /\ Sane(aeWorker[w]) /\ inv \in Invocations
      /\ inv.count \in 0..AeMaxAttempts /\ n \in 0..AeMaxAttempts
  BY DEF AeInv, AeTypeOK, AeWorkerType, Invocations
<1>1. n \in Runs
  BY <1>0 DEF PutResult, At, Sane, BeforeRun
<1>2. CASE /\ At(w, "put run")
           /\ \E s \in Results(w) :
                 Put(w, PutRun(n, IF s = "reconcile" THEN "running" ELSE s),
                     [To(w, "put invocation") EXCEPT !.res = s], Idle)
  <2>1. res \in RunResults
    BY <1>0, <1>2 DEF At, Sane
  <2>2. Results(w) \subseteq (RunResults \cup {"retryable"}) \ {"error"}
    BY <2>1 DEF Results, RunResults
  <2> PICK s \in (RunResults \cup {"retryable"}) \ {"error"} :
              Put(w, PutRun(n, IF s = "reconcile" THEN "running" ELSE s),
                  [To(w, "put invocation") EXCEPT !.res = s], Idle)
    BY <1>2, <2>2
  <2> DEFINE r == IF s = "reconcile" THEN "running" ELSE s
             c == PutRun(n, r)
             ok == [To(w, "put invocation") EXCEPT !.res = s]
  <2>3. Put(w, c, ok, Idle)
    OBVIOUS
  <2>4. r \in RunStates
    BY DEF RunResults, RunStates, OpenRun
  <2> HIDE DEF r
  <2>5. c \in AeCommands
    BY <1>1, <2>4, PutTyped
  <2> HIDE DEF c
  <2>6. ok \in SaneWorker /\ ok.pc # "provider"
    <3>1. "put invocation" \in AeSteps
      BY StepNames
    <3>2. s \in AeResults
      BY DEF RunResults, AeResults, TerminalAttempt
    <3>3. PICK y \in AeWorkerType : y = To(w, "put invocation") /\ y.pc = "put invocation" /\ y.n = n
      BY ZenonT(60), <3>1, ToTyped
    <3>4. LET x == [y EXCEPT !.res = s] IN
          x \in AeWorkerType /\ x.pc = "put invocation" /\ x.n = n /\ x.res = s
      BY <3>2, <3>3 DEF AeWorkerType
    <3>5. ok \in AeWorkerType /\ ok.pc = "put invocation" /\ ok.n = n /\ ok.res = s
      BY <3>3, <3>4
    <3> HIDE DEF ok
    <3> QED BY <1>1, <3>5 DEF SaneWorker, Sane
  <2> HIDE DEF ok
  <2> QED BY <2>3, <2>5, <2>6, NewTyped, PutKeeps
<1>3. CASE /\ At(w, "put invocation")
           /\ Put(w, PutInvocation(Touch([inv EXCEPT
                         !.status = CASE res = "reconcile" -> "retryable" [] res = "dropped" -> "skipped" [] OTHER -> res,
                         !.count = IF res = "dropped" THEN @ ELSE n])), Idle, Idle)
  <2> DEFINE s == CASE res = "reconcile" -> "retryable" [] res = "dropped" -> "skipped" [] OTHER -> res
             k == IF res = "dropped" THEN inv.count ELSE n
             new == Touch([inv EXCEPT !.status = s, !.count = k])
             c == PutInvocation(new)
  <2>1. Put(w, c, Idle, Idle)
    BY <1>3
  <2>2. s \in Statuses
    <3>1. res \in (RunResults \cup {"retryable"}) \ {"error"}
      BY <1>0, <1>3 DEF At, Sane
    <3> HIDE DEF res
    <3> QED BY <3>1 DEF RunResults, Statuses, TerminalInvocation
  <2>3. k \in 0..AeMaxAttempts
    BY <1>0
  <2> HIDE DEF s, k
  <2>4. new \in Invocations
    BY <1>0, <2>2, <2>3, TouchTyped
  <2> HIDE DEF new
  <2>5. c \in AeCommands
    BY <2>4, PutTyped
  <2> HIDE DEF c
  <2> QED BY <2>1, <2>5, NewTyped, PutKeeps
<1> QED BY <1>2, <1>3 DEF PutResult

\* Recovery of a publication (reconcileProviderStartedPublication).
LEMMA RecoverKeeps ==
    ASSUME AeInv, NEW w \in AeWorkers, Recover(w)
    PROVE  AeInv'
<1> DEFINE n == aeWorker[w].n
           inv == aeWorker[w].inv
           att == aeWorker[w].att
           end == CASE att.disp = "published" -> "succeeded" [] att.disp = "not_changed" -> "skipped"
                    [] OTHER -> "failed"
           found == [Step(att, att.state) EXCEPT !.disp = IF ReceiptFound THEN "published" ELSE "publication_failed"]
<1>0. /\ aeWorker[w] \in AeWorkerType /\ Sane(aeWorker[w]) /\ inv \in Invocations /\ att \in Attempts
      /\ inv.count \in 0..AeMaxAttempts /\ n \in 0..AeMaxAttempts
  BY DEF AeInv, AeTypeOK, AeWorkerType, Invocations
<1>1. n \in Runs
  BY <1>0 DEF Recover, At, Sane, BeforeRun
<1>2. \A pc \in {"recovery ack", "recovery run", "recovery end"} : To(w, pc) \in SaneWorker /\ To(w, pc).pc # "provider"
  BY <1>1, StepNames, PlainTo
<1>3. end \in {"succeeded", "skipped", "failed"}
  OBVIOUS
<1>4. CASE Go(w, Idle) \/ \E pc \in {"recovery ack", "recovery run", "recovery end"} : Go(w, To(w, pc))
  BY <1>2, <1>4, NewTyped, GoKeeps
<1>5. CASE \/ Put(w, PutAttempt(n, found), [To(w, "recovery ack") EXCEPT !.att = found], Idle)
           \/ Go(w, [To(w, "recovery ack") EXCEPT !.att = found])
  <2> DEFINE d == IF ReceiptFound THEN "published" ELSE "publication_failed"
  <2>1. d \in Dispositions
    BY DEF Dispositions, NotPublished
  <2> HIDE DEF d
  <2>2. [Step(att, att.state) EXCEPT !.disp = d] \in Attempts
    BY <1>0, <2>1, AttemptTyped
  <2> PICK a \in Attempts : a = found
    BY <2>2 DEF d
  <2> DEFINE ok == [To(w, "recovery ack") EXCEPT !.att = a]
             c == PutAttempt(n, a)
  <2>3. Put(w, c, ok, Idle) \/ Go(w, ok)
    BY <1>5
  <2> HIDE DEF found
  <2>4. ok \in SaneWorker /\ ok.pc = "recovery ack"
    <3>1. "recovery ack" \in PlainSteps
      BY StepNames
    <3> QED BY ZenonT(60), <1>1, <3>1, PlainAttempt
  <2> HIDE DEF ok
  <2>5. c \in AeCommands
    BY <1>1, PutTyped
  <2> HIDE DEF c
  <2>6. CASE Go(w, ok)
    BY <2>4, <2>6, GoKeeps
  <2>7. CASE Put(w, c, ok, Idle)
    BY <2>4, <2>5, <2>7, NewTyped, PutKeeps
  <2> QED BY <2>3, <2>6, <2>7
<1>6. CASE Put(w, [kind |-> "ack"], To(w, "recovery run"), Idle)
  <2> DEFINE c == [kind |-> "ack"]
  <2>1. c \in AeCommands
    BY PutTyped
  <2> HIDE DEF c
  <2> QED BY <1>2, <1>6, <2>1, NewTyped, PutKeeps DEF c
<1>7. CASE Put(w, PutRun(n, end), To(w, "recovery end"), Idle)
  <2> HIDE DEF end
  <2>1. PutRun(n, end) \in AeCommands
    BY <1>1, <1>3, PutTyped DEF RunStates
  <2> QED BY <1>2, <1>7, <2>1, NewTyped, PutKeeps
<1>8. CASE Put(w, PutInvocation(Touch([inv EXCEPT !.status = end, !.count = IF n > @ THEN n ELSE @])), Idle, Idle)
  <2> DEFINE k == IF n > inv.count THEN n ELSE inv.count
             new == Touch([inv EXCEPT !.status = end, !.count = k])
             c == PutInvocation(new)
  <2> HIDE DEF end
  <2>1. Put(w, c, Idle, Idle)
    BY <1>8
  <2>2. k \in 0..AeMaxAttempts
    BY <1>0
  <2> HIDE DEF k
  <2>3. end \in Statuses
    BY <1>3 DEF Statuses, TerminalInvocation
  <2>4. new \in Invocations
    BY <1>0, <2>2, <2>3, TouchTyped
  <2> HIDE DEF new
  <2>5. c \in AeCommands
    BY <2>4, PutTyped
  <2> HIDE DEF c
  <2> QED BY <2>1, <2>5, NewTyped, PutKeeps
<1>9. Recover(w) =>
         \/ Go(w, Idle) \/ \E pc \in {"recovery ack", "recovery run", "recovery end"} : Go(w, To(w, pc))
         \/ Put(w, PutAttempt(n, found), [To(w, "recovery ack") EXCEPT !.att = found], Idle)
         \/ Go(w, [To(w, "recovery ack") EXCEPT !.att = found])
         \/ Put(w, [kind |-> "ack"], To(w, "recovery run"), Idle)
         \/ Put(w, PutRun(n, end), To(w, "recovery end"), Idle)
         \/ Put(w, PutInvocation(Touch([inv EXCEPT !.status = end, !.count = IF n > @ THEN n ELSE @])), Idle, Idle)
  BY Zenon DEF Recover
<1> QED BY <1>4, <1>5, <1>6, <1>7, <1>8, <1>9

-----------------------------------------------------------------------------
(* Requests of the API, time, faults, and the whole.                       *)

\* A step that leaves the workers where they are and changes the records only
\* as commands do.
LEMMA OutsideKeeps ==
    ASSUME AeInv, aeStore' \in AeStoreType, \A n \in Runs : Past(n) => Past(n)',
           aeLate' \subseteq aeLate, aeRequest' \in [kind : {"unused", "done"}] \cup InvocationPuts,
           UNCHANGED <<aeWorker, aeToken, aeCalls, aeFaults>>
    PROVE  AeInv'
<1>1. AeTypeOK'
  BY DEF AeInv, AeTypeOK
<1>2. \A v \in AeWorkers : Sane(aeWorker[v])'
  BY DEF AeInv, Sane
<1>3. ProviderInv'
  BY ProviderKept
<1> QED BY <1>1, <1>2, <1>3 DEF AeInv

\* RetryInvocation and CancelInvocation write a state of the invocation.
LEMMA ResetTyped ==
    ASSUME aeStore.inv \in Invocations, NEW s \in {"pending", "cancelled"}
    PROVE  PutInvocation(Reset(s)) \in InvocationPuts
<1>1. PICK v \in Nat : v = aeStore.inv.ver + 1
  BY DEF Invocations
<1>2. s \in Statuses /\ 0 \in 0..AeMaxClaims /\ NoWorker \in AeWorkers \cup {NoWorker}
  BY AutomationAssumption DEF Statuses, TerminalInvocation
<1>3. [aeStore.inv EXCEPT !.lease = FALSE] \in Invocations
  BY DEF Invocations
<1>4. \A x \in Invocations :
         [x EXCEPT !.status = s, !.ver = v, !.tok = 0, !.proc = NoWorker, !.at = 0] \in Invocations
  BY <1>2 DEF Invocations, Statuses
<1>5. Reset(s) = [[aeStore.inv EXCEPT !.lease = FALSE] EXCEPT
                     !.status = s, !.ver = v, !.tok = 0, !.proc = NoWorker, !.at = 0]
  BY <1>1 DEF Reset, Invocations
<1>6. Reset(s) \in Invocations
  BY <1>3, <1>4, <1>5
<1> QED BY <1>6 DEF PutInvocation, InvocationPuts

\* What happens outside the workers: late commands, requests of the API and time.
LEMMA OutsideSteps ==
    ASSUME AeInv, LateApplied \/ RetryInvocation \/ CancelInvocation \/ RequestPut
                  \/ LeaseExpires \/ ReceiptExpires
    PROVE  AeInv'
<1>0. /\ aeStore \in AeStoreType /\ aeLate \subseteq AeCommands
      /\ aeRequest \in [kind : {"unused", "done"}] \cup InvocationPuts
      /\ aeStore.inv \in Invocations
  BY DEF AeInv, AeTypeOK, AeStoreType
<1>1. CASE LateApplied
  <2>1. PICK c \in aeLate : /\ aeLate' = aeLate \ {c}
                            /\ aeStore' = IF Accepted(c) THEN Applied(c) ELSE aeStore
                            /\ UNCHANGED <<aeWorker, aeToken, aeRequest, aeCalls, aeFaults>>
    BY <1>1 DEF LateApplied
  <2>2. c \in AeCommands
    BY <1>0
  <2>3. aeStore' \in AeStoreType /\ \A n \in Runs : Past(n) => Past(n)'
    BY <1>0, <2>1, <2>2, AppliedTyped DEF Past
  <2> QED BY <1>0, <2>1, <2>3, OutsideKeeps
<1>2. CASE RetryInvocation \/ CancelInvocation
  <2>1. /\ UNCHANGED <<aeStore, aeWorker, aeLate, aeToken, aeCalls, aeFaults>>
        /\ \E s \in {"pending", "cancelled"} : aeRequest' = PutInvocation(Reset(s))
    BY <1>2 DEF RetryInvocation, CancelInvocation
  <2>2. aeRequest' \in InvocationPuts
    BY <1>0, <2>1, ResetTyped
  <2> QED BY <1>0, <2>1, <2>2, OutsideKeeps DEF Past
<1>3. CASE RequestPut
  <2>1. /\ aeRequest.kind = "invocation" /\ aeRequest' = [kind |-> "done"]
        /\ aeStore' = IF Accepted(aeRequest) THEN Applied(aeRequest) ELSE aeStore
        /\ UNCHANGED <<aeWorker, aeLate, aeToken, aeCalls, aeFaults>>
    BY <1>3 DEF RequestPut
  <2>2. aeRequest \in AeCommands
    BY <1>0, <2>1 DEF AeCommands
  <2>3. aeStore' \in AeStoreType /\ \A n \in Runs : Past(n) => Past(n)'
    BY <1>0, <2>1, <2>2, AppliedTyped DEF Past
  <2>4. aeRequest' \in [kind : {"unused", "done"}]
    BY <2>1
  <2> QED BY <2>1, <2>3, <2>4, OutsideKeeps
<1>4. CASE LeaseExpires
  <2>1. /\ aeStore' = [aeStore EXCEPT !.inv.lease = FALSE]
        /\ UNCHANGED <<aeWorker, aeLate, aeToken, aeRequest, aeCalls, aeFaults>>
    BY <1>4 DEF LeaseExpires
  <2>2. PICK i \in Invocations : i = [aeStore.inv EXCEPT !.lease = FALSE]
    BY <1>0 DEF Invocations
  <2>3. aeStore' = [aeStore EXCEPT !.inv = i]
    BY <1>0, <2>1, <2>2 DEF AeStoreType
  <2>4. aeStore' \in AeStoreType /\ aeStore'.att = aeStore.att
    BY <1>0, <2>3 DEF AeStoreType
  <2> QED BY <1>0, <2>1, <2>4, OutsideKeeps DEF Past
<1>5. CASE ReceiptExpires
  <2>1. /\ aeStore' = [aeStore EXCEPT !.receipt = "expired"]
        /\ UNCHANGED <<aeWorker, aeLate, aeToken, aeRequest, aeCalls, aeFaults>>
    BY <1>5 DEF ReceiptExpires
  <2>2. aeStore' \in AeStoreType /\ aeStore'.att = aeStore.att
    BY <1>0, <2>1 DEF AeStoreType
  <2> QED BY <1>0, <2>1, <2>2, OutsideKeeps DEF Past
<1> QED BY <1>1, <1>2, <1>3, <1>4, <1>5

\* A worker dies; its successor is another worker.
LEMMA DiesKeeps ==
    ASSUME AeInv, NEW w \in AeWorkers, Dies(w)
    PROVE  AeInv'
<1> DEFINE next == [Idle EXCEPT !.pc = "dead"]
<1>1. next \in AeWorkerType /\ next.pc = "dead" /\ Sane(next)
  <2>1. next \in SaneWorker
    BY NewTyped
  <2>2. next.pc = "dead"
    BY DEF Idle
  <2> HIDE DEF next
  <2> QED BY <2>1, <2>2 DEF SaneWorker
<1>2. /\ aeWorker' = [aeWorker EXCEPT ![w] = next] /\ aeFaults < AeMaxFaults /\ aeFaults' = aeFaults + 1
      /\ UNCHANGED <<aeStore, aeLate, aeToken, aeRequest, aeCalls>>
  BY DEF Dies
<1> HIDE DEF next
<1>3. aeWorker \in [AeWorkers -> AeWorkerType] /\ aeFaults \in 0..AeMaxFaults /\ AeMaxFaults \in Nat
  BY AutomationAssumption DEF AeInv, AeTypeOK
<1>4. aeWorker' \in [AeWorkers -> AeWorkerType] /\ \A v \in AeWorkers : aeWorker'[v] = IF v = w THEN next ELSE aeWorker[v]
  BY <1>1, <1>2, <1>3
<1>5. aeFaults' \in 0..AeMaxFaults
  BY <1>2, <1>3
<1>6. AeTypeOK'
  BY <1>2, <1>4, <1>5 DEF AeInv, AeTypeOK
<1>7. \A v \in AeWorkers : Sane(aeWorker[v])'
  BY ZenonT(60), <1>1, <1>4 DEF AeInv, Sane
<1>8. ProviderInv'
  BY <1>1, <1>2, <1>4, ProviderKept DEF Past
<1> QED BY <1>6, <1>7, <1>8 DEF AeInv

\* The invariant holds of a new invocation.
LEMMA AutomationStarts == AeInit => AeInv
<1> SUFFICES ASSUME AeInit PROVE AeInv
  OBVIOUS
<1>1. NewInvocation \in Invocations /\ NoAttempt \in Attempts /\ Idle \in SaneWorker /\ Idle.pc = "idle"
  BY NewTyped
<1>2. "none" \in RunStates
  BY DEF RunStates, OpenRun
<1>3. aeStore \in AeStoreType
  BY <1>1, <1>2 DEF AeInit, AeStoreType
<1>4. Idle \in AeWorkerType /\ Sane(Idle)
  BY <1>1 DEF SaneWorker
<1>5. AeTypeOK
  BY <1>3, <1>4, AutomationAssumption DEF AeInit, AeTypeOK
<1>6. \A w \in AeWorkers : Sane(aeWorker[w])
  BY <1>4 DEF AeInit
<1>7. ProviderInv
  BY <1>1 DEF AeInit, ProviderInv, At
<1> QED BY <1>5, <1>6, <1>7 DEF AeInv

\* Every step of a worker and everything outside keeps the invariant.
LEMMA AutomationStep == AeInv /\ [AeNext]_aeVars => AeInv'
<1> SUFFICES ASSUME AeInv, [AeNext]_aeVars PROVE AeInv'
  OBVIOUS
<1>1. ASSUME NEW w \in AeWorkers, WorkerStep(w)
      PROVE  AeInv'
  BY <1>1, ClaimKeeps, ClaimedKeeps, UnresolvedKeeps, BeginKeeps, AttemptKeeps, ProviderKeeps, PublishKeeps,
     ResultKeeps, RecoverKeeps DEF WorkerStep
<1>2. ASSUME NEW w \in AeWorkers, Dies(w)
      PROVE  AeInv'
  BY <1>2, DiesKeeps
<1>3. CASE LateApplied \/ RetryInvocation \/ CancelInvocation \/ RequestPut \/ LeaseExpires \/ ReceiptExpires
  BY <1>3, OutsideSteps
<1>4. CASE UNCHANGED aeVars
  <2>1. UNCHANGED <<aeStore, aeWorker, aeLate, aeToken, aeRequest, aeCalls, aeFaults>>
    BY <1>4 DEF aeVars
  <2> QED BY <2>1, OutsideKeeps DEF Past, AeInv, AeTypeOK
<1> QED BY <1>1, <1>2, <1>3, <1>4 DEF AeNext

\* The invariant holds in every state of every behaviour.
THEOREM AutomationInvariant == AeSpec => []AeInv
BY AutomationStarts, AutomationStep, PTL DEF AeSpec

\* AeTypeOK: whatever workers, late commands, API requests and crashes do, the
\* records, the workers' copies and the commands keep their shape, so that no
\* run beyond maxAttempts and no state that does not exist is ever written.
THEOREM AutomationTypeCorrect == AeSpec => []AeTypeOK
<1>1. AeInv => AeTypeOK
  BY DEF AeInv
<1> QED BY <1>1, AutomationInvariant, PTL

\* ProviderOncePerAttempt: for any number of workers, claims and faults, the
\* provider is called at most once for an attempt (beginProcedureInference-
\* Attempt, startProcedureInferenceAttempt, the record version of the attempt).
THEOREM ProviderCalledOnce == AeSpec => []ProviderOncePerAttempt
<1>1. AeInv => ProviderOncePerAttempt
  BY DEF AeInv, ProviderInv, ProviderOncePerAttempt
<1> QED BY <1>1, AutomationInvariant, PTL

-----------------------------------------------------------------------------
(* The copies of the invocation and the claims on it.                      *)

\* The commands that may still be applied, with that of an API request.
\* Commands that may still be applied, and the outputs among them.
Flying == aeLate \cup (IF aeRequest.kind = "invocation" THEN {aeRequest} ELSE {})
Outputs == {c \in aeLate : c.kind = "output"}

\* The record of the invocation, what workers know of it, and what they or a
\* request would write.
Copies ==
    {aeStore.inv} \cup {aeWorker[w].inv : w \in AeWorkers}
    \cup {c.inv : c \in {d \in Flying : d.kind = "invocation"}}

\* The record has gone past copy x: writing it would be refused for ever.
Beaten(x) ==
    \/ x.ver < aeStore.inv.ver
    \/ x.ver = aeStore.inv.ver /\ aeStore.inv.tok # 0 /\ aeStore.inv.tok # x.tok

\* Claim t will never be the current one again; claim t is, or has been, current.
Fenced(t) == \A x \in Copies : x.tok = t => Beaten(x)
PassedOver(t) == t # 0 /\ (aeStore.inv.tok = t \/ Fenced(t))

\* The steps of a worker without a claim, with one it has not written yet, and
\* with one that was accepted.
Claimless == {"idle", "dead", "listed", "claim", "recover"}
Claiming == {"put claim", "put recovery claim"}
Recovering == {"recovered", "recovery ack", "recovery run", "recovery end"}
Preparing == {"begin run", "authorize", "refresh", "start", "provider", "complete"}
Publishing == {"publish", "check", "probe", "commit"}
Ending == {"put run", "put invocation"}
Executing == {"execute", "begin", "no answer", "committed", "acknowledge"} \cup Preparing \cup Publishing \cup Ending

\* A claim has one version and one worker.
TokenInv ==
    /\ \A x \in Copies : x.tok <= aeToken
    /\ \A x, y \in Copies : x.tok = y.tok /\ x.tok # 0 => x.ver = y.ver
    /\ \A c \in Outputs : c.tok <= aeToken /\ PassedOver(c.tok)
    /\ \A w, v \in AeWorkers : aeWorker[w].inv.tok = aeWorker[v].inv.tok /\ aeWorker[w].inv.tok # 0 => w = v

\* A worker that works under a claim had it accepted, and is done when an output
\* with it may still be applied.
ClaimOK(w) ==
    LET x == aeWorker[w] IN
    /\ IF x.pc \in Claimless THEN x.inv = NewInvocation ELSE x.inv.tok # 0
    /\ x.pc \in Claiming => /\ aeStore.inv.tok # x.inv.tok
                            /\ \A c \in Flying : c.kind = "invocation" => c.inv.tok # x.inv.tok
    /\ x.pc \notin Claimless \cup Claiming => PassedOver(x.inv.tok)
    /\ \A c \in Outputs : c.tok = x.inv.tok => x.pc \in Ending

\* The inductive invariant of the claims.
ClaimInv == TokenInv /\ \A w \in AeWorkers : ClaimOK(w)

\* What becomes of the record of the invocation.
Follows(old, new) ==
    \/ old.ver < new.ver
    \/ old.ver = new.ver /\ (old.tok = 0 \/ new.tok = old.tok)

\* A copy is made from another one of the same claim, with no smaller count.
MadeFrom(y, x) == y.tok = x.tok /\ y.ver = x.ver /\ x.count <= y.count

\* Every copy after a step is of no claim, of a new one, or made from a copy.
Descend == \A y \in Copies' : y.tok = 0 \/ y.tok > aeToken \/ \E x \in Copies : MadeFrom(y, x)

\* Copies are states of the invocation.
LEMMA CopiesTyped == AeInv => Copies \subseteq Invocations /\ aeStore.inv \in Copies /\ aeToken \in Nat
<1> SUFFICES ASSUME AeInv PROVE Copies \subseteq Invocations /\ aeStore.inv \in Copies /\ aeToken \in Nat
  OBVIOUS
<1>1. aeStore.inv \in Invocations /\ \A w \in AeWorkers : aeWorker[w].inv \in Invocations
  BY DEF AeInv, AeTypeOK, AeStoreType, AeWorkerType
<1>2. \A c \in AeCommands : c.kind = "invocation" => c.inv \in Invocations
  BY DEF AeCommands, InvocationPuts
<1>3. \A c \in Flying : c \in AeCommands
  BY DEF Flying, AeInv, AeTypeOK, AeCommands
<1>4. aeToken \in Nat
  BY AutomationAssumption DEF AeInv, AeTypeOK
<1> QED BY <1>1, <1>2, <1>3, <1>4 DEF Copies

\* A copy that is behind stays behind, and so does every copy made from it; what
\* was the current claim is fenced when it no longer is.
LEMMA FencesHold ==
    ASSUME AeInv, AeInv', TokenInv, Follows(aeStore.inv, aeStore'.inv), Descend
    PROVE  /\ \A x \in Invocations : Beaten(x) => Beaten(x)'
           /\ \A t \in 1..aeToken : Fenced(t) => Fenced(t)' /\ aeStore.inv.tok # t /\ aeStore'.inv.tok # t
           /\ \A t \in 1..aeToken : PassedOver(t) => PassedOver(t)'
<1>1. Copies \subseteq Invocations /\ aeStore.inv \in Copies /\ aeToken \in Nat
  BY CopiesTyped
<1>2. (Copies \subseteq Invocations /\ aeStore.inv \in Copies)'
  BY CopiesTyped, PTL
<1>3. \A x \in Invocations : Beaten(x) => Beaten(x)'
  BY <1>1, <1>2 DEF Beaten, Follows, Invocations
<1>4. \A x, y \in Invocations : MadeFrom(y, x) /\ Beaten(x) => Beaten(y)
  BY DEF MadeFrom, Beaten
<1>5. \A t \in 1..aeToken : Fenced(t) => Fenced(t)'
  <2> SUFFICES ASSUME NEW t \in 1..aeToken, Fenced(t), NEW y \in Copies', y.tok = t PROVE Beaten(y)'
    BY DEF Fenced
  <2>1. PICK x \in Copies : MadeFrom(y, x)
    BY <1>1 DEF Descend
  <2> QED BY <1>1, <1>2, <1>3, <1>4, <2>1 DEF Fenced, MadeFrom
<1>6. \A t \in 1..aeToken : Fenced(t) => aeStore.inv.tok # t /\ aeStore'.inv.tok # t
  BY <1>1, <1>2, <1>5 DEF Fenced, Beaten, Invocations
<1>7. \A t \in 1..aeToken : aeStore.inv.tok = t => PassedOver(t)'
  <2> SUFFICES ASSUME NEW t \in 1..aeToken, aeStore.inv.tok = t, aeStore'.inv.tok # t
               PROVE  Fenced(t)'
    BY <1>1 DEF PassedOver
  <2>1. aeStore.inv.ver < aeStore'.inv.ver
    BY <1>1 DEF Follows
  <2>2. \A y \in Copies' : y.tok = t => y.ver = aeStore.inv.ver
    BY <1>1 DEF Descend, MadeFrom, TokenInv
  <2> QED BY <1>1, <1>2, <2>1, <2>2 DEF Fenced, Beaten, Invocations
<1> QED BY <1>3, <1>5, <1>6, <1>7 DEF PassedOver

-----------------------------------------------------------------------------
(* What is recorded of a publication.                                      *)

\* The graph has been changed for the invocation.
SomeOutput == \E m \in Runs : aeStore.out[m] > 0

\* Run n will never have an output: its attempt is over, and whoever publishes
\* it (but for the workers in V) has lost the claim.
Closed(n, V) ==
    /\ aeStore.out[n] = 0 /\ aeStore.att[n].state \in TerminalAttempt
    /\ \A w \in AeWorkers \ V : aeWorker[w].pc \in Publishing /\ aeWorker[w].n = n => Fenced(aeWorker[w].inv.tok)
    /\ \A c \in Outputs : c.n = n => Fenced(c.tok)

\* Record a of the attempt of run n says what happened.
AttemptOK(n, a, V) ==
    /\ a.state \notin TerminalAttempt => a.disp = "none"
    /\ a.disp \in NotPublished => ~ReceiptKept \/ Closed(n, V)
    /\ a.disp = "published" => SomeOutput

\* A command that may be applied, now or later.
Legal(c, V) ==
    /\ c.kind = "invocation" => (c.inv.status = "succeeded" => SomeOutput)
    /\ c.kind = "run" => (c.status = "succeeded" => SomeOutput)
    /\ c.kind = "attempt" => AttemptOK(c.n, c.att, V)
    /\ c.kind = "output" => aeStore.att[c.n].state = "succeeded"

\* The records of the attempts, the runs and the invocation say what happened.
RecordsOK ==
    /\ \A n \in Runs : /\ AttemptOK(n, aeStore.att[n], {})
                       /\ aeStore.out[n] > 0 => aeStore.att[n].state = "succeeded"
                       /\ aeStore.run[n] = "succeeded" => SomeOutput
    /\ aeStore.inv.status = "succeeded" => SomeOutput
    /\ aeStore.receipt = "none" <=> ~SomeOutput

\* What worker x knows is so, and what it is about to record will be.
WorkerOK(x) ==
    /\ x.inv.status # "succeeded"
    /\ x.pc \in Publishing => /\ aeStore.att[x.n].state = "succeeded" /\ aeStore.out[x.n] = 0
                              /\ \A c \in Outputs : c.n # x.n
    /\ x.pc = "provider" \/ (x.pc = "complete" /\ x.res = "succeeded") =>
          /\ x.att.state = "started"
          /\ \/ aeStore.att[x.n] = x.att
             \/ aeStore.att[x.n].state \in TerminalAttempt /\ x.att.rec < aeStore.att[x.n].rec
    /\ x.pc \in Preparing => /\ x.att.disp = "none" /\ x.att.state \notin TerminalAttempt
                             /\ aeStore.att[x.n].state # "none"
    /\ x.pc \in {"committed", "acknowledge"} \/ (x.pc \in Ending /\ x.res = "succeeded") => SomeOutput
    /\ x.pc \in {"recover", "put recovery claim"} \cup Recovering =>
          /\ x.att.state = "succeeded" /\ aeStore.att[x.n].state = "succeeded"
          /\ x.att.disp = "published" => SomeOutput
    /\ x.pc \in {"begin", "no answer"} \cup Preparing /\ aeStore.inv.tok = x.inv.tok =>
          ~ReceiptKept \/ aeStore.out[x.n] = 0
    /\ x.pc \in Executing => x.n = x.inv.count + 1
    /\ x.pc = "put early run" => x.n = x.inv.count

\* At most one worker publishes a run.
OnePublisher ==
    \A w, v \in AeWorkers :
        aeWorker[w].pc \in Publishing /\ aeWorker[v].pc \in Publishing /\ aeWorker[w].n = aeWorker[v].n => w = v

\* The inductive invariant of the outcomes: the records are true, whatever may be
\* written is true and will be, and nobody publishes a run beside its worker.
OutcomeInv ==
    /\ RecordsOK
    /\ \A c \in Flying : Legal(c, {})
    /\ \A w \in AeWorkers : WorkerOK(aeWorker[w])
    /\ OnePublisher

\* The records change as commands change them.
Drift ==
    /\ Follows(aeStore.inv, aeStore'.inv)
    /\ \A n \in Runs : /\ aeStore.out[n] <= aeStore'.out[n]
                       /\ \/ aeStore'.att[n] = aeStore.att[n]
                          \/ /\ AllowedTransition(aeStore.att[n].state, aeStore'.att[n].state)
                             /\ aeStore'.att[n].rec = aeStore.att[n].rec + 1
    /\ SomeOutput => SomeOutput'
    /\ ~ReceiptKept => ~ReceiptKept'

\* Command c is applied, or nothing is.
Writes(c) == aeStore' = aeStore \/ (Accepted(c) /\ aeStore' = Applied(c))

\* An output is added to run n.
Adds(c, n) == c.kind = "output" /\ c.n = n /\ FencePasses(aeStore.inv, c.tok) /\ ~ReceiptFound

\* What a command makes of the records, field by field.
LEMMA CommandEffect ==
    ASSUME aeStore \in AeStoreType, NEW c \in AeCommands, Writes(c)
    PROVE  /\ \/ aeStore'.inv = aeStore.inv
              \/ c.kind = "invocation" /\ aeStore'.inv = c.inv /\ ~Stale(aeStore.inv, c.inv)
           /\ \A n \in Runs : \/ aeStore'.run[n] = aeStore.run[n]
                              \/ c.kind = "run" /\ c.n = n /\ aeStore'.run[n] = c.status
           /\ \A n \in Runs : \/ aeStore'.att[n] = aeStore.att[n]
                              \/ /\ c.kind = "attempt" /\ c.n = n /\ aeStore'.att[n] = c.att
                                 /\ AttemptAccepted(aeStore.att[n], c.att)
           /\ \/ UNCHANGED <<aeStore.out, aeStore.receipt>>
              \/ /\ c.kind = "output" /\ Adds(c, c.n) /\ c.n \in Runs /\ aeStore'.receipt = "retained"
                 /\ \A n \in Runs : aeStore'.out[n] = IF n = c.n THEN aeStore.out[n] + 1 ELSE aeStore.out[n]
              \/ aeStore.receipt = "retained" /\ aeStore'.receipt = "released" /\ UNCHANGED aeStore.out
<1>1. CASE aeStore' = aeStore
  BY <1>1
<1>2. CASE Accepted(c) /\ aeStore' = Applied(c)
  <2>1. CASE c \in InvocationPuts
    BY <1>2, <2>1 DEF Accepted, Applied, InvocationPuts, AeStoreType
  <2>2. CASE c \in [kind : {"run"}, n : Runs, status : RunStates]
    BY <1>2, <2>2 DEF Accepted, Applied, AeStoreType
  <2>3. CASE c \in [kind : {"attempt"}, n : Runs, att : Attempts]
    BY <1>2, <2>3 DEF Accepted, Applied, AeStoreType
  <2>4. CASE c \in [kind : {"output"}, n : Runs, tok : 0..AeMaxClaims]
    <3>1. c.kind = "output" /\ c.n \in Runs /\ FencePasses(aeStore.inv, c.tok)
      BY <1>2, <2>4 DEF Accepted
    <3>2. CASE ReceiptFound
      BY <1>2, <3>1, <3>2 DEF Applied
    <3>3. CASE ~ReceiptFound
      <4>1. aeStore' = [aeStore EXCEPT !.out[c.n] = @ + 1, !.receipt = "retained"]
        BY <1>2, <3>1, <3>3 DEF Applied
      <4> QED BY <3>1, <3>3, <4>1 DEF Adds, AeStoreType
    <3> QED BY <3>2, <3>3
  <2>5. CASE c \in [kind : {"ack"}]
    <3>1. c.kind = "ack"
      BY <2>5
    <3>2. aeStore' = IF aeStore.receipt = "retained" THEN [aeStore EXCEPT !.receipt = "released"] ELSE aeStore
      BY <1>2, <3>1 DEF Applied
    <3> QED BY <3>2 DEF AeStoreType
  <2> QED BY <2>1, <2>2, <2>3, <2>4, <2>5 DEF AeCommands
<1> QED BY <1>1, <1>2 DEF Writes

\* A command lets the records drift.
LEMMA CommandDrifts ==
    ASSUME AeInv, RecordsOK, NEW c \in AeCommands, Writes(c)
    PROVE  /\ Drift
           /\ \A n \in Runs : aeStore'.out[n] # aeStore.out[n] => Adds(c, n)
           /\ (aeStore'.receipt = "none" <=> ~SomeOutput')
<1>0. aeStore \in AeStoreType /\ aeStore.out \in [Runs -> Nat] /\ aeStore.inv \in Invocations
      /\ \A d \in AeCommands : d.kind = "invocation" => d.inv \in Invocations
  BY DEF AeInv, AeTypeOK, AeStoreType, AeCommands, InvocationPuts
<1>1. Follows(aeStore.inv, aeStore'.inv)
  BY <1>0, CommandEffect DEF Follows, Stale, Invocations
<1>2. \A n \in Runs : \/ aeStore'.att[n] = aeStore.att[n]
                      \/ /\ AllowedTransition(aeStore.att[n].state, aeStore'.att[n].state)
                         /\ aeStore'.att[n].rec = aeStore.att[n].rec + 1
  BY <1>0, CommandEffect DEF AttemptAccepted
<1>3. \A n \in Runs : aeStore.out[n] <= aeStore'.out[n] /\ (aeStore'.out[n] # aeStore.out[n] => Adds(c, n))
  BY <1>0, CommandEffect
<1>4. SomeOutput => SomeOutput'
  BY <1>0, <1>3, CommandEffect DEF SomeOutput
<1>5. AppliedAgain => AppliedAgain'
  BY <1>0, <1>3, CommandEffect DEF AppliedAgain
<1>6. CASE UNCHANGED <<aeStore.out, aeStore.receipt>>
  BY <1>1, <1>2, <1>3, <1>4, <1>5, <1>6 DEF Drift, RecordsOK, ReceiptKept, SomeOutput
<1>7. CASE /\ c.kind = "output" /\ Adds(c, c.n) /\ c.n \in Runs /\ aeStore'.receipt = "retained"
           /\ \A n \in Runs : aeStore'.out[n] = IF n = c.n THEN aeStore.out[n] + 1 ELSE aeStore.out[n]
  <2>1. SomeOutput'
    BY <1>0, <1>7 DEF SomeOutput
  <2>2. aeStore.receipt = "expired" => AppliedAgain'
    <3>1. aeStore.receipt = "expired" => SomeOutput
      BY DEF RecordsOK
    <3> QED BY <1>0, <1>7, <3>1 DEF SomeOutput, AppliedAgain
  <2> QED BY <1>1, <1>2, <1>3, <1>5, <1>7, <2>1, <2>2 DEF Drift, ReceiptKept
<1>8. CASE aeStore.receipt = "retained" /\ aeStore'.receipt = "released" /\ UNCHANGED aeStore.out
  BY <1>1, <1>2, <1>3, <1>4, <1>5, <1>8 DEF Drift, RecordsOK, ReceiptKept, SomeOutput
<1> QED BY <1>0, <1>6, <1>7, <1>8, CommandEffect

\* What a worker does with its place and its claim, from record x to record y: it
\* drops the claim or keeps it, and starts to publish only what has just ended.
Moves(x, y) ==
    /\ y.pc \in Claimless => y.inv = NewInvocation
    /\ y.pc \notin Claimless => /\ x.pc \notin Claimless /\ y.pc \notin Claiming
                                /\ MadeFrom(y.inv, x.inv)
    /\ x.pc \in Ending => y.pc \in Ending \cup Claimless
    /\ y.pc \in Publishing => /\ y.n = x.n
                              /\ x.pc \in Publishing \/ aeStore.att[x.n].state = "started"

\* The attempt of run n ended before the provider was called.
Shut(n) == aeStore.att[n].state \in {"failed", "denied"}

\* The steps of a worker that does not execute the invocation.
Quiet == {"idle", "dead", "listed", "recover", "put recovery claim"} \cup Recovering

\* Where a worker goes on to another run, and what it takes along of its claim.
Counts(x, y) ==
    /\ y.pc = "claimed" => x.pc = "put claim"
    /\ y.pc = "put early run" => x.pc = "claimed" /\ y.n = x.inv.count + 1 /\ Shut(y.n)
    /\ y.pc = "execute" => \/ x.pc = "claimed" /\ y.n = x.inv.count + 1
                           \/ x.pc = "put early run" /\ y.n = x.n + 1
    /\ y.pc = "begin" => x.pc = "execute" /\ y.n = x.n /\ ~ReceiptFound
    /\ y.pc \notin Quiet => x.pc \notin Quiet \/ (x.pc = "listed" /\ ~Recoverable)
    /\ y.pc \notin Claimless \cup {"put early run"} => y.inv.count = x.inv.count /\ y.inv.status = x.inv.status

\* Command c is one that a worker sends from record x and goes on as y.
Sends(x, y, c) ==
    /\ c.kind = "invocation" => /\ x.pc \notin Claimless /\ MadeFrom(c.inv, x.inv)
                                /\ y.pc \notin Claimless => c.inv.count <= y.inv.count
                                /\ x.pc \in Ending => c.inv.status # "running"
    /\ c.kind = "output" => /\ x.pc = "commit" /\ c.n = x.n /\ c.tok = x.inv.tok /\ y.pc \notin Publishing
                            /\ c \in aeLate' => y.pc \in Ending
    /\ c.kind = "attempt" => c.n = x.n /\ (aeStore.att[x.n].state # "none" \/ x.pc = "begin")

\* Whom Legal need not ask, when worker w goes on as y.
Leaving(w, y) == IF y.pc \in Publishing THEN {} ELSE {w}

\* Worker w goes on as y, with command c applied, in flight, or dropped.
WorkerMoves(w, y, c) ==
    /\ aeWorker' = [aeWorker EXCEPT ![w] = y]
    /\ Writes(c) /\ aeLate' \in {aeLate, aeLate \cup {c}}
    /\ UNCHANGED <<aeToken, aeRequest>>
    /\ Moves(aeWorker[w], y) /\ Counts(aeWorker[w], y) /\ Sends(aeWorker[w], y, c)
    /\ aeWorker[w].pc \in Claiming /\ y.pc \notin Claimless => aeStore'.inv.tok = y.inv.tok
    /\ Legal(c, Leaving(w, y))
    /\ WorkerOK(y)'

\* A copy is made from itself, and from what its original was made from.
LEMMA MadeFromTyped ==
    /\ \A x \in Invocations : MadeFrom(x, x)
    /\ \A x, y, z \in Invocations : MadeFrom(z, y) /\ MadeFrom(y, x) => MadeFrom(z, x)
BY DEF MadeFrom, Invocations

\* Where the copies after a worker's step come from.
LEMMA WorkerDescends ==
    ASSUME AeInv, AeInv', ClaimInv, NEW w \in AeWorkers, NEW y \in AeWorkerType, NEW c \in AeCommands,
           WorkerMoves(w, y, c)
    PROVE  /\ Descend
           /\ \A z \in Copies' : z \in Copies \/ z = y.inv \/ (c.kind = "invocation" /\ z = c.inv)
           /\ \A v \in AeWorkers : aeWorker'[v] = IF v = w THEN y ELSE aeWorker[v]
           /\ \A d \in Flying' : d \in Flying \/ d = c
           /\ \A d \in Outputs' : d \in Outputs \/ (d = c /\ d \in aeLate' /\ d.kind = "output")
           /\ Follows(aeStore.inv, aeStore'.inv)
<1>0. aeStore \in AeStoreType /\ aeWorker \in [AeWorkers -> AeWorkerType]
      /\ Copies \subseteq Invocations /\ aeStore.inv \in Copies /\ aeToken \in Nat
      /\ \A d \in AeCommands : d.kind = "invocation" => d.inv \in Invocations
  BY CopiesTyped DEF AeInv, AeTypeOK, AeCommands, InvocationPuts
<1>1. (Copies \subseteq Invocations /\ aeStore.inv \in Copies /\ aeToken \in Nat)'
  BY CopiesTyped, PTL
<1>2. \A v \in AeWorkers : aeWorker'[v] = IF v = w THEN y ELSE aeWorker[v]
  BY <1>0 DEF WorkerMoves
<1>3. \A d \in Flying' : d \in Flying \/ d = c
  BY DEF WorkerMoves, Flying
<1>4. \A d \in Outputs' : d \in Outputs \/ (d = c /\ d \in aeLate' /\ d.kind = "output")
  BY DEF WorkerMoves, Outputs
<1>5. aeStore'.inv = aeStore.inv \/ (c.kind = "invocation" /\ aeStore'.inv = c.inv /\ ~Stale(aeStore.inv, c.inv))
  BY <1>0, CommandEffect DEF WorkerMoves
<1>6. \A z \in Copies' : z \in Copies \/ z = y.inv \/ (c.kind = "invocation" /\ z = c.inv)
  <2> SUFFICES ASSUME NEW z \in Copies' PROVE z \in Copies \/ z = y.inv \/ (c.kind = "invocation" /\ z = c.inv)
    OBVIOUS
  <2>1. CASE z = aeStore'.inv
    BY <1>0, <1>5, <2>1
  <2>2. CASE \E v \in AeWorkers : z = aeWorker'[v].inv
    BY <1>2, <2>2 DEF Copies
  <2>3. CASE \E d \in Flying' : d.kind = "invocation" /\ z = d.inv
    BY <1>3, <2>3 DEF Copies
  <2> QED BY <2>1, <2>2, <2>3 DEF Copies
<1>7. aeWorker[w].inv \in Copies /\ aeWorker[w].inv \in Invocations
  BY <1>0 DEF Copies
<1>8. c.kind = "invocation" => MadeFrom(c.inv, aeWorker[w].inv)
  BY DEF WorkerMoves, Sends
<1>9. y.inv.tok = 0 \/ MadeFrom(y.inv, aeWorker[w].inv)
  BY DEF WorkerMoves, Moves, NewInvocation
<1>10. Descend
  BY <1>0, <1>6, <1>7, <1>8, <1>9, MadeFromTyped DEF Descend
<1>11. Follows(aeStore.inv, aeStore'.inv)
  BY <1>0, <1>5 DEF Follows, Stale, Invocations
<1> QED BY <1>2, <1>3, <1>4, <1>6, <1>10, <1>11

\* The claims after a worker's step.
LEMMA WorkerKeepsClaims ==
    ASSUME AeInv, AeInv', ClaimInv, NEW w \in AeWorkers, NEW y \in AeWorkerType, NEW c \in AeCommands,
           WorkerMoves(w, y, c)
    PROVE  ClaimInv'
<1> DEFINE x == aeWorker[w]
<1>0. /\ aeStore \in AeStoreType /\ aeWorker \in [AeWorkers -> AeWorkerType]
      /\ Copies \subseteq Invocations /\ aeStore.inv \in Copies /\ aeToken \in Nat
      /\ x.inv \in Copies /\ x.inv \in Invocations
      /\ \A v \in AeWorkers : aeWorker[v].inv \in Copies /\ aeWorker[v].inv.tok \in Nat
  <2>1. aeWorker \in [AeWorkers -> AeWorkerType]
    BY DEF AeInv, AeTypeOK
  <2>2. \A v \in AeWorkers : aeWorker[v].inv \in Copies
    BY DEF Copies
  <2> QED BY <2>1, <2>2, CopiesTyped DEF AeInv, AeTypeOK, Invocations
<1>1. /\ Descend /\ Follows(aeStore.inv, aeStore'.inv)
      /\ \A z \in Copies' : z \in Copies \/ z = y.inv \/ (c.kind = "invocation" /\ z = c.inv)
      /\ \A v \in AeWorkers : aeWorker'[v] = IF v = w THEN y ELSE aeWorker[v]
      /\ \A d \in Flying' : d \in Flying \/ d = c
      /\ \A d \in Outputs' : d \in Outputs \/ (d = c /\ d \in aeLate' /\ d.kind = "output")
  BY WorkerDescends
<1>2. (Copies \subseteq Invocations /\ aeStore.inv \in Copies /\ aeToken \in Nat)'
  BY CopiesTyped, PTL
<1>3. TokenInv /\ aeToken' = aeToken /\ Moves(x, y) /\ Sends(x, y, c)
  BY DEF WorkerMoves, ClaimInv
<1>4. /\ \A t \in 1..aeToken : PassedOver(t) => PassedOver(t)'
  BY <1>1, <1>3, FencesHold
<1>5. \A z \in Copies' : z.tok # 0 => \E u \in Copies : MadeFrom(z, u)
  <2>1. \A z \in Copies' : z.tok \in Nat /\ (z \in Copies => MadeFrom(z, z))
    BY <1>2, <1>0, MadeFromTyped DEF Invocations
  <2>2. c.kind = "invocation" => MadeFrom(c.inv, x.inv)
    BY <1>3 DEF Sends
  <2>3. y.inv.tok = 0 \/ MadeFrom(y.inv, x.inv)
    BY <1>3 DEF Moves, NewInvocation
  <2> QED BY <1>0, <1>1, <2>1, <2>2, <2>3
<1>6. \A z \in Copies' : z.tok <= aeToken
  BY <1>0, <1>2, <1>3, <1>5 DEF TokenInv, MadeFrom, Invocations
<1>7. \A z, u \in Copies' : z.tok = u.tok /\ z.tok # 0 => z.ver = u.ver
  BY <1>3, <1>5 DEF TokenInv, MadeFrom
<1>8. \A v \in AeWorkers : aeWorker[v].inv.tok <= aeToken
  BY <1>0, <1>3 DEF TokenInv
<1>9. c.kind = "output" => x.pc = "commit" /\ c.tok = x.inv.tok /\ PassedOver(c.tok) /\ c.tok \in 1..aeToken
  <2>1. ASSUME c.kind = "output" PROVE x.pc = "commit" /\ c.tok = x.inv.tok /\ PassedOver(c.tok)
    BY <2>1, <1>3 DEF Sends, ClaimInv, ClaimOK, Claimless, Claiming
  <2> QED BY <2>1, <1>0, <1>8 DEF PassedOver
<1>10. \A d \in Outputs : d.tok \in 1..aeToken /\ PassedOver(d.tok)
  <2>1. \A d \in Outputs : d.tok \in Nat
    BY DEF Outputs, AeInv, AeTypeOK, AeCommands, InvocationPuts
  <2> QED BY <1>0, <1>3, <2>1 DEF TokenInv, PassedOver
<1>11. \A d \in Outputs' : d.tok <= aeToken' /\ PassedOver(d.tok)'
  BY <1>0, <1>1, <1>3, <1>4, <1>9, <1>10
<1>12. y.inv.tok = 0 \/ y.inv.tok = x.inv.tok
  BY <1>3 DEF Moves, NewInvocation, MadeFrom
<1>13. \A v \in AeWorkers : v # w => aeWorker[v].inv.tok # x.inv.tok \/ x.inv.tok = 0
  BY <1>3 DEF TokenInv
<1>14. TokenInv'
  <2>1. \A v, u \in AeWorkers : aeWorker'[v].inv.tok = aeWorker'[u].inv.tok /\ aeWorker'[v].inv.tok # 0 => v = u
    BY <1>1, <1>3, <1>12 DEF TokenInv
  <2> QED BY <1>3, <1>6, <1>7, <1>11, <2>1 DEF TokenInv
<1>15. aeStore'.inv = aeStore.inv \/ (c.kind = "invocation" /\ aeStore'.inv = c.inv)
  BY <1>0, CommandEffect DEF WorkerMoves
<1>16. c.kind = "invocation" => c.inv.tok = x.inv.tok /\ x.inv.tok # 0
  BY <1>3 DEF Sends, MadeFrom, ClaimInv, ClaimOK
<1>17. ASSUME NEW v \in AeWorkers, v # w
       PROVE  ClaimOK(v)'
  <2> DEFINE z == aeWorker[v]
  <2>1. aeWorker'[v] = z /\ ClaimOK(v)
    BY <1>1, <1>17 DEF ClaimInv
  <2>2. IF z.pc \in Claimless THEN z.inv = NewInvocation ELSE z.inv.tok # 0
    BY <2>1 DEF ClaimOK
  <2>3. z.pc \in Claiming => /\ aeStore'.inv.tok # z.inv.tok
                             /\ \A d \in Flying' : d.kind = "invocation" => d.inv.tok # z.inv.tok
    BY <1>1, <1>13, <1>15, <1>16, <1>17, <2>1 DEF ClaimOK
  <2>4. z.pc \notin Claimless \cup Claiming => PassedOver(z.inv.tok)'
    <3>1. z.inv.tok # 0 => z.inv.tok \in 1..aeToken
      BY <1>0, <1>8
    <3> QED BY <2>1, <3>1, <1>4 DEF ClaimOK, PassedOver
  <2>5. \A d \in Outputs' : d.tok = z.inv.tok => z.pc \in Ending
    BY <1>1, <1>9, <1>13, <1>17, <2>1 DEF ClaimOK
  <2> QED BY <2>1, <2>2, <2>3, <2>4, <2>5 DEF ClaimOK
<1>18. ClaimOK(w)'
  <2>1. aeWorker'[w] = y /\ ClaimOK(w)
    BY <1>1 DEF ClaimInv
  <2>2. IF y.pc \in Claimless THEN y.inv = NewInvocation ELSE y.inv.tok # 0 /\ y.pc \notin Claiming /\ y.inv.tok = x.inv.tok
    BY <2>1, <1>3 DEF Moves, ClaimOK, MadeFrom
  <2>3. y.pc \notin Claimless \cup Claiming => PassedOver(y.inv.tok)'
    <3>1. ASSUME y.pc \notin Claimless PROVE PassedOver(y.inv.tok)'
      <4>1. x.pc \notin Claimless /\ y.inv.tok = x.inv.tok /\ x.inv.tok \in 1..aeToken
        BY <3>1, <2>2, <1>0, <1>3, <1>8 DEF Moves
      <4>2. CASE x.pc \in Claiming
        BY <4>1, <4>2, <3>1 DEF WorkerMoves, PassedOver
      <4>3. CASE x.pc \notin Claiming
        BY <4>1, <4>3, <2>1, <1>4 DEF ClaimOK
      <4> QED BY <4>2, <4>3
    <3> QED BY <3>1
  <2>4. \A d \in Outputs' : d.tok = y.inv.tok => y.pc \in Ending
    <3> SUFFICES ASSUME NEW d \in Outputs', d.tok = y.inv.tok PROVE y.pc \in Ending
      OBVIOUS
    <3>1. d.tok # 0
      BY <1>11 DEF PassedOver
    <3>2. y.pc \notin Claimless /\ d.tok = x.inv.tok
      BY <3>1, <2>2 DEF NewInvocation
    <3>3. CASE d \in Outputs
      BY <3>2, <3>3, <2>1, <1>3 DEF ClaimOK, Moves
    <3>4. CASE d = c /\ d \in aeLate' /\ d.kind = "output"
      BY <3>4, <1>3 DEF Sends
    <3> QED BY <3>3, <3>4, <1>1
  <2>5. y.pc \notin Claiming
    BY <1>3 DEF Moves, Claimless, Claiming
  <2> QED BY <2>1, <2>2, <2>3, <2>4, <2>5 DEF ClaimOK
<1> QED BY <1>14, <1>17, <1>18 DEF ClaimInv

\* An attempt that is over stays as it is, but for its publication.
LEMMA AttemptsDrift ==
    ASSUME AeInv, AeInv', Drift, NEW n \in Runs
    PROVE  /\ aeStore.att[n].state \in TerminalAttempt =>
                 aeStore'.att[n].state = aeStore.att[n].state /\ aeStore.att[n].rec <= aeStore'.att[n].rec
           /\ aeStore.att[n].state # "none" => aeStore'.att[n].state # "none"
           /\ aeStore.att[n].state = "started" =>
                 \/ aeStore'.att[n] = aeStore.att[n]
                 \/ aeStore'.att[n].state \in TerminalAttempt /\ aeStore.att[n].rec < aeStore'.att[n].rec
           /\ aeStore.att[n].rec \in Nat /\ aeStore'.att[n].rec \in Nat
           /\ aeStore.out[n] \in Nat /\ aeStore'.out[n] \in Nat
<1>1. aeStore.att[n] \in Attempts /\ aeStore'.att[n] \in Attempts /\ aeStore.out[n] \in Nat /\ aeStore'.out[n] \in Nat
  BY DEF AeInv, AeTypeOK, AeStoreType
<1>2. aeStore.att[n].rec \in Nat /\ aeStore'.att[n].rec \in Nat
  BY <1>1 DEF Attempts
<1>3. \/ aeStore'.att[n] = aeStore.att[n]
      \/ /\ AllowedTransition(aeStore.att[n].state, aeStore'.att[n].state)
         /\ aeStore'.att[n].rec = aeStore.att[n].rec + 1
  BY DEF Drift
<1> QED BY <1>1, <1>2, <1>3 DEF AllowedTransition, TerminalAttempt, Attempts

\* A closed run stays closed.
LEMMA ClosedKept ==
    ASSUME AeInv, AeInv', ClaimInv, Drift, Descend, NEW n \in Runs, NEW V, Closed(n, V),
           aeStore'.out[n] = aeStore.out[n],
           \A c \in Outputs' : c.n = n => c \in Outputs \/ (c.tok \in 1..aeToken /\ Fenced(c.tok)),
           \A v \in AeWorkers : aeWorker'[v].pc \in Publishing /\ aeWorker'[v].n = n =>
              /\ v \notin V /\ aeWorker[v].pc \in Publishing /\ aeWorker[v].n = n
              /\ aeWorker'[v].inv.tok = aeWorker[v].inv.tok
    PROVE  Closed(n, {})'
<1>1. Copies \subseteq Invocations /\ aeToken \in Nat /\ TokenInv
  BY CopiesTyped DEF ClaimInv
<1>2. \A t \in 1..aeToken : Fenced(t) => Fenced(t)'
  BY <1>1, FencesHold DEF Drift
<1>3. aeStore'.out[n] = 0 /\ aeStore'.att[n].state \in TerminalAttempt
  BY AttemptsDrift DEF Closed
<1>4. \A v \in AeWorkers : aeWorker[v].pc \in Publishing => aeWorker[v].inv.tok \in 1..aeToken
  <2>1. \A v \in AeWorkers : aeWorker[v].inv \in Copies
    BY DEF Copies
  <2>2. \A v \in AeWorkers : aeWorker[v].inv.tok \in Nat /\ aeWorker[v].inv.tok <= aeToken
    BY <1>1, <2>1 DEF TokenInv, Invocations
  <2>3. \A v \in AeWorkers : aeWorker[v].pc \in Publishing => aeWorker[v].inv.tok # 0
    BY DEF ClaimInv, ClaimOK, Publishing, Claimless
  <2> QED BY <1>1, <2>2, <2>3
<1>5. \A c \in Outputs : c.tok \in 1..aeToken
  <2>1. \A c \in Outputs : c.tok \in Nat
    BY DEF Outputs, AeInv, AeTypeOK, AeCommands, InvocationPuts
  <2> QED BY <1>1, <2>1 DEF TokenInv, PassedOver
<1>6. ASSUME NEW v \in AeWorkers, aeWorker'[v].pc \in Publishing, aeWorker'[v].n = n
      PROVE  Fenced(aeWorker[v].inv.tok)'
  <2> PICK t : t = aeWorker[v].inv.tok
    OBVIOUS
  <2>1. v \notin V /\ aeWorker[v].pc \in Publishing /\ aeWorker[v].n = n /\ aeWorker'[v].inv.tok = t
    BY <1>6
  <2>2. t \in 1..aeToken /\ Fenced(t)
    BY <1>4, <2>1 DEF Closed
  <2>3. Fenced(t)'
    BY <1>2, <2>2
  <2> QED BY <2>1, <2>3 DEF Fenced
<1>7. ASSUME NEW c \in Outputs', c.n = n
      PROVE  Fenced(c.tok)'
  <2>1. c.tok \in 1..aeToken /\ Fenced(c.tok)
    BY <1>5, <1>7 DEF Closed
  <2> QED BY <1>2, <2>1
<1> QED BY <1>3, <1>6, <1>7 DEF Closed

\* What is right to record of an attempt stays right.
LEMMA AttemptKept ==
    ASSUME AeInv, AeInv', Drift, NEW n \in Runs, NEW a, NEW V, AttemptOK(n, a, V),
           Closed(n, V) => Closed(n, {})'
    PROVE  AttemptOK(n, a, {})'
BY DEF AttemptOK, Drift

\* Records of an attempt are ordered.
LEMMA LessTrans == \A a, b, d \in Nat : a < b /\ b <= d => a < d
OBVIOUS

\* What a worker knows stays so.
LEMMA WorkerKept ==
    ASSUME AeInv, AeInv', ClaimInv, Drift, Descend, NEW z \in AeWorkerType, Sane(z), WorkerOK(z),
           z.pc \in Publishing => /\ aeStore'.out[z.n] = aeStore.out[z.n]
                                  /\ \A c \in Outputs' : c.n = z.n => c \in Outputs,
           z.pc \in {"begin", "no answer"} \cup Preparing =>
              /\ z.inv.tok \in 1..aeToken /\ PassedOver(z.inv.tok)
              /\ aeStore.inv.tok = z.inv.tok => aeStore'.out[z.n] = aeStore.out[z.n]
    PROVE  WorkerOK(z)'
<1>1. z.pc \notin BeforeRun => z.n \in Runs
  BY DEF Sane
<1>2. SomeOutput => SomeOutput'
  BY DEF Drift
<1>3. z.pc \in Publishing => /\ aeStore'.att[z.n].state = "succeeded" /\ aeStore'.out[z.n] = 0
                             /\ \A c \in Outputs' : c.n # z.n
  <2> SUFFICES ASSUME z.pc \in Publishing PROVE aeStore'.att[z.n].state = "succeeded"
    BY DEF WorkerOK
  <2>1. z.n \in Runs /\ aeStore.att[z.n].state = "succeeded"
    BY <1>1 DEF WorkerOK, Publishing, BeforeRun
  <2> QED BY <2>1, AttemptsDrift DEF TerminalAttempt
<1>4. z.pc = "provider" \/ (z.pc = "complete" /\ z.res = "succeeded") =>
          /\ z.att.state = "started"
          /\ \/ aeStore'.att[z.n] = z.att
             \/ aeStore'.att[z.n].state \in TerminalAttempt /\ z.att.rec < aeStore'.att[z.n].rec
  <2> SUFFICES ASSUME z.pc = "provider" \/ (z.pc = "complete" /\ z.res = "succeeded")
               PROVE  \/ aeStore'.att[z.n] = z.att
                      \/ aeStore'.att[z.n].state \in TerminalAttempt /\ z.att.rec < aeStore'.att[z.n].rec
    BY DEF WorkerOK
  <2>1. z.n \in Runs /\ z.att.rec \in Nat
    BY <1>1 DEF BeforeRun, AeWorkerType, Attempts
  <2>0. PICK n \in Runs : n = z.n
    BY <2>1
  <2>2. z.att.state = "started" /\ (\/ aeStore.att[n] = z.att
                                    \/ aeStore.att[n].state \in TerminalAttempt /\ z.att.rec < aeStore.att[n].rec)
    BY <2>0 DEF WorkerOK
  <2>3. /\ aeStore.att[n].state \in TerminalAttempt =>
              aeStore'.att[n].state = aeStore.att[n].state /\ aeStore.att[n].rec <= aeStore'.att[n].rec
        /\ aeStore.att[n].state = "started" =>
              \/ aeStore'.att[n] = aeStore.att[n]
              \/ aeStore'.att[n].state \in TerminalAttempt /\ aeStore.att[n].rec < aeStore'.att[n].rec
        /\ aeStore.att[n].rec \in Nat /\ aeStore'.att[n].rec \in Nat
    BY AttemptsDrift
  <2>4. \/ aeStore'.att[n] = z.att
        \/ aeStore'.att[n].state \in TerminalAttempt /\ z.att.rec < aeStore'.att[n].rec
    <3>1. CASE aeStore.att[n] = z.att
      BY <2>2, <2>3, <3>1
    <3>2. CASE aeStore.att[n].state \in TerminalAttempt /\ z.att.rec < aeStore.att[n].rec
      <4> DEFINE i == z.att.rec  j == aeStore.att[n].rec  k == aeStore'.att[n].rec
      <4>1. aeStore.att[n].state \in TerminalAttempt /\ i < j
        BY <3>2
      <4>2. aeStore'.att[n].state \in TerminalAttempt
        BY <2>3, <4>1
      <4>3. i \in Nat /\ j \in Nat /\ k \in Nat /\ j <= k
        BY <2>1, <2>3, <4>1
      <4>4. i < k
        BY <4>1, <4>3, LessTrans
      <4> QED BY <4>2, <4>4
    <3> QED BY <2>2, <3>1, <3>2
  <2> QED BY <2>0, <2>4
<1>5. z.pc \in Preparing => /\ z.att.disp = "none" /\ z.att.state \notin TerminalAttempt
                            /\ aeStore'.att[z.n].state # "none"
  <2>1. z.pc \in Preparing => z.n \in Runs
    BY <1>1 DEF Preparing, BeforeRun
  <2> QED BY <2>1, AttemptsDrift DEF WorkerOK
<1>6. z.pc \in {"recover", "put recovery claim"} \cup Recovering =>
          /\ z.att.state = "succeeded" /\ aeStore'.att[z.n].state = "succeeded"
          /\ z.att.disp = "published" => SomeOutput'
  <2>1. z.pc \in {"recover", "put recovery claim"} \cup Recovering => z.n \in Runs
    BY <1>1 DEF Recovering, BeforeRun
  <2> QED BY <1>2, <2>1, AttemptsDrift DEF WorkerOK, TerminalAttempt
<1>7. z.pc \in {"begin", "no answer"} \cup Preparing /\ aeStore'.inv.tok = z.inv.tok =>
          ~ReceiptKept' \/ aeStore'.out[z.n] = 0
  <2> SUFFICES ASSUME z.pc \in {"begin", "no answer"} \cup Preparing, aeStore'.inv.tok = z.inv.tok
               PROVE  ~ReceiptKept' \/ aeStore'.out[z.n] = 0
    OBVIOUS
  <2>1. aeStore.inv.tok = z.inv.tok
    BY FencesHold DEF Drift, ClaimInv, PassedOver
  <2> QED BY <2>1 DEF WorkerOK, Drift
<1> QED BY <1>2, <1>3, <1>4, <1>5, <1>6, <1>7 DEF WorkerOK

\* What is known after a worker's step of who publishes and what is committed.
LEMMA WorkerCommits ==
    ASSUME AeInv, AeInv', ClaimInv, OutcomeInv, NEW w \in AeWorkers, NEW y \in AeWorkerType, NEW c \in AeCommands,
           WorkerMoves(w, y, c)
    PROVE  /\ Drift /\ Descend
           /\ aeToken' = aeToken
           /\ \A v \in AeWorkers : aeWorker'[v] = IF v = w THEN y ELSE aeWorker[v]
           /\ \A d \in Flying' : d \in Flying \/ d = c
           /\ c.kind = "output" => /\ aeWorker[w].pc = "commit" /\ c.n = aeWorker[w].n /\ c.tok = aeWorker[w].inv.tok
                                   /\ c.n \in Runs /\ c.tok \in 1..aeToken
           /\ \A n \in Runs : aeStore'.out[n] # aeStore.out[n] =>
                 c.kind = "output" /\ c.n = n /\ aeStore.inv.tok = c.tok
           /\ \A d \in Outputs' : d \in Outputs \/ (d = c /\ c.kind = "output")
           /\ \A v \in AeWorkers : aeWorker'[v].pc \in Publishing =>
                 /\ aeWorker'[v].n = aeWorker[v].n /\ aeWorker'[v].inv.tok = aeWorker[v].inv.tok
                 /\ aeWorker[v].pc \in Publishing \/ (v = w /\ aeStore.att[aeWorker[v].n].state = "started")
           /\ (aeStore'.receipt = "none" <=> ~SomeOutput')
<1> DEFINE x == aeWorker[w]
<1>1. /\ Descend /\ Follows(aeStore.inv, aeStore'.inv)
      /\ \A v \in AeWorkers : aeWorker'[v] = IF v = w THEN y ELSE aeWorker[v]
      /\ \A d \in Flying' : d \in Flying \/ d = c
      /\ \A d \in Outputs' : d \in Outputs \/ (d = c /\ d \in aeLate' /\ d.kind = "output")
  BY WorkerDescends
<1>2. /\ Drift
      /\ \A n \in Runs : aeStore'.out[n] # aeStore.out[n] => Adds(c, n)
      /\ (aeStore'.receipt = "none" <=> ~SomeOutput')
  BY CommandDrifts DEF OutcomeInv, WorkerMoves
<1>3. c.kind = "output" => x.pc = "commit" /\ c.n = x.n /\ c.tok = x.inv.tok
  BY DEF WorkerMoves, Sends
<1>4. c.kind = "output" => c.n \in Runs
  BY DEF AeCommands, InvocationPuts
<1>5. x.pc = "commit" => x.inv.tok \in 1..aeToken
  <2>1. x.inv \in Copies
    BY DEF Copies
  <2>2. x.inv.tok \in Nat /\ aeToken \in Nat /\ x.inv.tok <= aeToken
    BY <2>1, CopiesTyped DEF ClaimInv, TokenInv, Invocations
  <2>3. x.pc = "commit" => x.inv.tok # 0
    BY DEF ClaimInv, ClaimOK, Claimless
  <2> QED BY <2>2, <2>3
<1>6. \A n \in Runs : Adds(c, n) => c.kind = "output" /\ c.n = n /\ aeStore.inv.tok = c.tok
  BY DEF Adds, FencePasses
<1>7. y.pc \in Publishing => /\ y.n = x.n /\ y.inv.tok = x.inv.tok
                             /\ x.pc \in Publishing \/ aeStore.att[x.n].state = "started"
  <2>1. y.pc \in Publishing => y.pc \notin Claimless
    BY DEF Publishing, Claimless
  <2> QED BY <2>1 DEF WorkerMoves, Moves, MadeFrom
<1>8. aeToken' = aeToken
  BY DEF WorkerMoves
<1> QED BY <1>1, <1>2, <1>3, <1>4, <1>5, <1>6, <1>7, <1>8

\* A run that is closed stays so when another worker moves, and so does one that
\* is closed but for the worker that moves and no longer publishes.
LEMMA WorkerCloses ==
    ASSUME AeInv, AeInv', ClaimInv, OutcomeInv, NEW w \in AeWorkers, NEW y \in AeWorkerType, NEW c \in AeCommands,
           WorkerMoves(w, y, c), NEW n \in Runs, NEW V, Closed(n, V),
           V = {} \/ (V = Leaving(w, y) /\ c.kind # "output")
    PROVE  Closed(n, {})'
<1> DEFINE x == aeWorker[w]
<1>1. /\ Drift /\ Descend
      /\ \A v \in AeWorkers : aeWorker'[v] = IF v = w THEN y ELSE aeWorker[v]
      /\ c.kind = "output" => x.pc = "commit" /\ c.n = x.n /\ c.tok = x.inv.tok /\ c.n \in Runs /\ c.tok \in 1..aeToken
      /\ \A m \in Runs : aeStore'.out[m] # aeStore.out[m] => c.kind = "output" /\ c.n = m /\ aeStore.inv.tok = c.tok
      /\ \A d \in Outputs' : d \in Outputs \/ (d = c /\ c.kind = "output")
      /\ \A v \in AeWorkers : aeWorker'[v].pc \in Publishing =>
            /\ aeWorker'[v].n = aeWorker[v].n /\ aeWorker'[v].inv.tok = aeWorker[v].inv.tok
            /\ aeWorker[v].pc \in Publishing \/ (v = w /\ aeStore.att[aeWorker[v].n].state = "started")
  BY WorkerCommits
<1>2. c.kind = "output" /\ c.n = n => Fenced(c.tok) /\ c.tok \in 1..aeToken
  BY <1>1 DEF Closed, Publishing
<1>3. \A t \in 1..aeToken : Fenced(t) => aeStore.inv.tok # t
  BY <1>1, FencesHold DEF Drift, ClaimInv
<1>4. aeStore'.out[n] = aeStore.out[n]
  BY <1>1, <1>2, <1>3
<1>5. \A d \in Outputs' : d.n = n => d \in Outputs \/ (d.tok \in 1..aeToken /\ Fenced(d.tok))
  BY <1>1, <1>2
<1>6. ASSUME NEW v \in AeWorkers, aeWorker'[v].pc \in Publishing, aeWorker'[v].n = n
      PROVE  /\ v \notin V /\ aeWorker[v].pc \in Publishing /\ aeWorker[v].n = n
             /\ aeWorker'[v].inv.tok = aeWorker[v].inv.tok
  <2>1. aeStore.att[n].state # "started"
    BY DEF Closed, TerminalAttempt
  <2>2. v \notin V
    BY <1>1, <1>6 DEF Leaving
  <2> QED BY <1>1, <1>6, <2>1, <2>2
<1> HIDE DEF x
<1> QED BY <1>1, <1>4, <1>5, <1>6, ClosedKept

\* The outcome after a worker's step.
LEMMA WorkerKeepsOutcome ==
    ASSUME AeInv, AeInv', ClaimInv, OutcomeInv, NEW w \in AeWorkers, NEW y \in AeWorkerType, NEW c \in AeCommands,
           WorkerMoves(w, y, c)
    PROVE  OutcomeInv'
<1> DEFINE x == aeWorker[w]
<1>1. /\ Drift /\ Descend
      /\ \A v \in AeWorkers : aeWorker'[v] = IF v = w THEN y ELSE aeWorker[v]
      /\ \A d \in Flying' : d \in Flying \/ d = c
      /\ c.kind = "output" => x.pc = "commit" /\ c.n = x.n /\ c.tok = x.inv.tok /\ c.n \in Runs /\ c.tok \in 1..aeToken
      /\ \A m \in Runs : aeStore'.out[m] # aeStore.out[m] => c.kind = "output" /\ c.n = m /\ aeStore.inv.tok = c.tok
      /\ \A d \in Outputs' : d \in Outputs \/ (d = c /\ c.kind = "output")
      /\ \A v \in AeWorkers : aeWorker'[v].pc \in Publishing =>
            /\ aeWorker'[v].n = aeWorker[v].n /\ aeWorker'[v].inv.tok = aeWorker[v].inv.tok
            /\ aeWorker[v].pc \in Publishing \/ (v = w /\ aeStore.att[aeWorker[v].n].state = "started")
      /\ (aeStore'.receipt = "none" <=> ~SomeOutput')
  BY WorkerCommits
<1>2. /\ RecordsOK /\ OnePublisher /\ Legal(c, Leaving(w, y)) /\ WorkerOK(y)'
      /\ \A d \in Flying : Legal(d, {})
      /\ \A v \in AeWorkers : WorkerOK(aeWorker[v])
  BY DEF OutcomeInv, WorkerMoves
<1>3. /\ aeStore \in AeStoreType /\ aeWorker \in [AeWorkers -> AeWorkerType]
      /\ \A d \in Flying : d \in AeCommands
      /\ \A d \in AeCommands : d.kind \in {"attempt", "run", "output"} => d.n \in Runs
      /\ \A v \in AeWorkers : Sane(aeWorker[v])
  BY DEF Flying, AeInv, AeTypeOK, AeCommands, InvocationPuts
<1>4. SomeOutput => SomeOutput'
  BY <1>1 DEF Drift
<1>5. ASSUME NEW n \in Runs, NEW a, AttemptOK(n, a, {})
      PROVE  AttemptOK(n, a, {})'
  <2>1. Closed(n, {}) => Closed(n, {})'
    BY WorkerCloses
  <2> QED BY <1>1, <1>5, <2>1, AttemptKept
<1>6. c.kind = "attempt" => AttemptOK(c.n, c.att, {})'
  <2> SUFFICES ASSUME c.kind = "attempt" PROVE AttemptOK(c.n, c.att, {})'
    OBVIOUS
  <2>1. c.n \in Runs /\ AttemptOK(c.n, c.att, Leaving(w, y))
    BY <1>2, <1>3 DEF Legal
  <2> PICK n \in Runs : n = c.n
    BY <2>1
  <2> PICK V : V = Leaving(w, y)
    OBVIOUS
  <2>2. Closed(n, V) => Closed(n, {})'
    BY WorkerCloses
  <2> QED BY <1>1, <2>1, <2>2, AttemptKept
<1>7. ASSUME NEW n \in Runs, aeStore.att[n].state = "succeeded" PROVE aeStore'.att[n].state = "succeeded"
  BY <1>1, <1>7, AttemptsDrift DEF TerminalAttempt
<1>8. ASSUME NEW n \in Runs PROVE AttemptOK(n, aeStore.att[n], {})'
  <2>1. AttemptOK(n, aeStore.att[n], {})
    BY <1>2 DEF RecordsOK
  <2>2. aeStore'.att[n] = aeStore.att[n] \/ (c.kind = "attempt" /\ c.n = n /\ aeStore'.att[n] = c.att)
    BY <1>3, CommandEffect DEF WorkerMoves
  <2>3. PICK a : a = aeStore'.att[n]
    OBVIOUS
  <2>4. AttemptOK(n, a, {})'
    BY <1>5, <1>6, <2>1, <2>2, <2>3
  <2> QED BY <2>3, <2>4 DEF AttemptOK
<1>9. \A n \in Runs : aeStore'.out[n] > 0 => aeStore'.att[n].state = "succeeded"
  <2> SUFFICES ASSUME NEW n \in Runs, aeStore'.out[n] > 0 PROVE aeStore'.att[n].state = "succeeded"
    OBVIOUS
  <2>1. CASE aeStore'.out[n] = aeStore.out[n]
    BY <2>1, <1>2, <1>7 DEF RecordsOK
  <2>2. CASE aeStore'.out[n] # aeStore.out[n]
    <3>1. x.pc \in Publishing /\ x.n = n
      BY <2>2, <1>1 DEF Publishing
    <3> QED BY <3>1, <1>2, <1>7 DEF WorkerOK
  <2> QED BY <2>1, <2>2
<1>10. RecordsOK'
  <2>1. \A n \in Runs : aeStore'.run[n] = "succeeded" => SomeOutput'
    <3>1. \A n \in Runs : aeStore'.run[n] = aeStore.run[n] \/ (c.kind = "run" /\ aeStore'.run[n] = c.status)
      BY <1>3, CommandEffect DEF WorkerMoves
    <3> QED BY <3>1, <1>2, <1>4 DEF RecordsOK, Legal
  <2>2. aeStore'.inv.status = "succeeded" => SomeOutput'
    <3>1. aeStore'.inv = aeStore.inv \/ (c.kind = "invocation" /\ aeStore'.inv = c.inv)
      BY <1>3, CommandEffect DEF WorkerMoves
    <3> QED BY <3>1, <1>2, <1>4 DEF RecordsOK, Legal
  <2> QED BY <1>1, <1>8, <1>9, <2>1, <2>2 DEF RecordsOK
<1>11. ASSUME NEW d \in Flying' PROVE Legal(d, {})'
  <2>1. d.kind \in {"invocation", "run"} => Legal(d, {})'
    BY <1>1, <1>2, <1>4 DEF Legal
  <2>2. CASE d.kind = "attempt"
    <3>1. AttemptOK(d.n, d.att, {})'
      <4>1. CASE d = c
        BY <4>1, <2>2, <1>6
      <4>2. CASE d \in Flying
        <5>1. d.n \in Runs /\ AttemptOK(d.n, d.att, {})
          BY <4>2, <2>2, <1>2, <1>3 DEF Legal
        <5> QED BY <5>1, <1>5
      <4> QED BY <4>1, <4>2, <1>1
    <3> QED BY <3>1, <2>2 DEF Legal
  <2>3. CASE d.kind = "output"
    <3>1. d.n \in Runs /\ aeStore.att[d.n].state = "succeeded"
      BY <2>3, <1>1, <1>2, <1>3 DEF Legal
    <3> QED BY <3>1, <2>3, <1>7 DEF Legal
  <2>4. CASE d.kind \notin {"invocation", "run", "attempt", "output"}
    BY <2>4 DEF Legal
  <2> QED BY <2>1, <2>2, <2>3, <2>4
<1>12. ASSUME NEW v \in AeWorkers, v # w PROVE WorkerOK(aeWorker[v])'
  <2>1. PICK z \in AeWorkerType : z = aeWorker[v]
    BY <1>3
  <2>2. Sane(z) /\ WorkerOK(z) /\ aeWorker'[v] = z
    BY <2>1, <1>1, <1>2, <1>3, <1>12
  <2>3. x.pc = "commit" /\ z.pc \in Publishing => x.n # z.n
    BY <2>1, <1>2, <1>12 DEF OnePublisher, Publishing
  <2>4. z.pc \in Publishing => /\ aeStore'.out[z.n] = aeStore.out[z.n]
                               /\ \A d \in Outputs' : d.n = z.n => d \in Outputs
    <3>1. z.pc \in Publishing => z.n \in Runs
      BY <2>2 DEF Sane, Publishing, BeforeRun
    <3> QED BY <3>1, <2>3, <1>1
  <2>5. z.inv \in Copies
    BY <2>1 DEF Copies
  <2>6. z.inv.tok # 0 => z.inv.tok \in 1..aeToken
    BY <2>5, CopiesTyped DEF ClaimInv, TokenInv, Invocations
  <2>7. z.pc \in {"begin", "no answer"} \cup Preparing =>
           /\ z.inv.tok \in 1..aeToken /\ PassedOver(z.inv.tok)
           /\ aeStore.inv.tok = z.inv.tok => aeStore'.out[z.n] = aeStore.out[z.n]
    <3> SUFFICES ASSUME z.pc \in {"begin", "no answer"} \cup Preparing
                 PROVE  /\ z.inv.tok \in 1..aeToken /\ PassedOver(z.inv.tok)
                        /\ aeStore.inv.tok = z.inv.tok => aeStore'.out[z.n] = aeStore.out[z.n]
      OBVIOUS
    <3>1. z.pc \notin Claimless \cup Claiming /\ z.n \in Runs
      BY <2>1, <2>2 DEF Preparing, Claimless, Claiming, Sane, BeforeRun
    <3>3. PassedOver(z.inv.tok) /\ z.inv.tok # 0
      BY <3>1, <2>1 DEF ClaimInv, ClaimOK, PassedOver
    <3>4. z.inv.tok # x.inv.tok
      BY <3>3, <2>1, <1>12 DEF ClaimInv, TokenInv
    <3>5. z.inv.tok \in 1..aeToken
      BY <3>3, <2>6
    <3>6. aeStore.inv.tok = z.inv.tok => aeStore'.out[z.n] = aeStore.out[z.n]
      BY <3>1, <3>4, <1>1
    <3> QED BY <3>3, <3>5, <3>6
  <2>8. WorkerOK(z)'
    <3> HIDE DEF x
    <3> QED BY <2>2, <2>4, <2>7, <1>1, WorkerKept
  <2> QED BY <2>2, <2>8 DEF WorkerOK
<1>13. WorkerOK(aeWorker[w])'
  <2>1. aeWorker'[w] = y /\ WorkerOK(y)'
    BY <1>1, <1>2
  <2> QED BY <2>1 DEF WorkerOK
<1>14. OnePublisher'
  <2> SUFFICES ASSUME NEW u \in AeWorkers, NEW v \in AeWorkers,
                      aeWorker'[u].pc \in Publishing, aeWorker'[v].pc \in Publishing, aeWorker'[u].n = aeWorker'[v].n
               PROVE  u = v
    BY DEF OnePublisher
  <2>1. aeWorker[u].n = aeWorker[v].n
    BY <1>1
  <2>2. \A z \in AeWorkers : aeWorker[z].pc \in Publishing => aeStore.att[aeWorker[z].n].state = "succeeded"
    BY <1>2 DEF WorkerOK
  <2> QED BY <2>1, <2>2, <1>1, <1>2 DEF OnePublisher
<1> QED BY <1>10, <1>11, <1>12, <1>13, <1>14 DEF OutcomeInv

\* Workers stay where they are, and the records change as commands in flight,
\* API requests or time change them.
RecordsMove ==
    /\ UNCHANGED <<aeWorker, aeToken>>
    /\ Drift
    /\ \A y \in Copies' : y.tok = 0 \/ \E x \in Copies : MadeFrom(y, x)
    /\ aeStore'.inv.tok = aeStore.inv.tok \/ \E d \in Flying : d.kind = "invocation" /\ aeStore'.inv.tok = d.inv.tok
    /\ \A d \in Outputs' : d \in Outputs
    /\ \A d \in Flying' : d \in Flying \/ (d.kind = "invocation" /\ d.inv.tok = 0 /\ d.inv.status # "succeeded")
    /\ \A n \in Runs : aeStore'.out[n] # aeStore.out[n] => \E c \in Outputs : c.n = n /\ aeStore.inv.tok = c.tok
    /\ \A n \in Runs : aeStore'.att[n] = aeStore.att[n] \/ AttemptOK(n, aeStore'.att[n], {})
    /\ \A n \in Runs : aeStore'.run[n] = "succeeded" => aeStore.run[n] = "succeeded" \/ SomeOutput
    /\ aeStore'.inv.status = "succeeded" => aeStore.inv.status = "succeeded" \/ SomeOutput
    /\ (aeStore'.receipt = "none" <=> ~SomeOutput')

\* The claims after such a step.
LEMMA RecordsKeepClaims ==
    ASSUME AeInv, AeInv', ClaimInv, RecordsMove
    PROVE  ClaimInv' /\ Descend
<1>0. /\ Copies \subseteq Invocations /\ aeToken \in Nat /\ TokenInv
      /\ \A v \in AeWorkers : aeWorker[v].inv \in Copies
  BY CopiesTyped DEF ClaimInv, Copies
<1>1. (Copies \subseteq Invocations /\ aeToken \in Nat)'
  BY CopiesTyped, PTL
<1>2. Descend /\ Follows(aeStore.inv, aeStore'.inv) /\ aeToken' = aeToken /\ aeWorker' = aeWorker
  BY DEF RecordsMove, Descend, Drift
<1>3. \A t \in 1..aeToken : PassedOver(t) => PassedOver(t)'
  BY <1>0, <1>2, FencesHold
<1>4. \A y \in Copies' : y.tok # 0 => \E x \in Copies : MadeFrom(y, x)
  BY DEF RecordsMove
<1>5. \A y \in Copies' : y.tok <= aeToken
  BY <1>0, <1>1, <1>4 DEF TokenInv, MadeFrom, Invocations
<1>6. \A z, u \in Copies' : z.tok = u.tok /\ z.tok # 0 => z.ver = u.ver
  BY <1>0, <1>4 DEF TokenInv, MadeFrom
<1>7. \A c \in Outputs : c.tok \in 1..aeToken /\ PassedOver(c.tok)
  <2>1. \A c \in Outputs : c.tok \in Nat
    BY DEF Outputs, AeInv, AeTypeOK, AeCommands, InvocationPuts
  <2> QED BY <2>1, <1>0 DEF TokenInv, PassedOver
<1>8. \A c \in Outputs' : c.tok <= aeToken' /\ PassedOver(c.tok)'
  <2> SUFFICES ASSUME NEW c \in Outputs' PROVE c.tok <= aeToken' /\ PassedOver(c.tok)'
    OBVIOUS
  <2>1. c.tok \in 1..aeToken /\ PassedOver(c.tok)
    BY <1>7 DEF RecordsMove
  <2> QED BY <2>1, <1>0, <1>2, <1>3
<1>9. TokenInv'
  BY <1>0, <1>2, <1>5, <1>6, <1>8 DEF TokenInv
<1>10. ASSUME NEW v \in AeWorkers PROVE ClaimOK(v)'
  <2>1. PICK z : z = aeWorker[v]
    OBVIOUS
  <2>2. aeWorker'[v] = z /\ ClaimOK(v)
    BY <2>1, <1>2 DEF ClaimInv
  <2>3. IF z.pc \in Claimless THEN z.inv = NewInvocation ELSE z.inv.tok # 0
    BY <2>1, <2>2 DEF ClaimOK
  <2>4. z.pc \in Claiming => z.pc \notin Claimless
    BY DEF Claiming, Claimless
  <2>5. z.pc \in Claiming => /\ aeStore'.inv.tok # z.inv.tok
                             /\ \A d \in Flying' : d.kind = "invocation" => d.inv.tok # z.inv.tok
    BY <2>1, <2>2, <2>3, <2>4 DEF ClaimOK, RecordsMove
  <2>6. z.inv.tok # 0 => z.inv.tok \in 1..aeToken
    <3>1. z.inv \in Copies
      BY <2>1, <1>0
    <3> QED BY <3>1, <1>0 DEF TokenInv, Invocations
  <2>7. z.pc \notin Claimless \cup Claiming => PassedOver(z.inv.tok)'
    <3>1. z.pc \notin Claimless \cup Claiming => PassedOver(z.inv.tok) /\ z.inv.tok # 0
      BY <2>1, <2>2, <2>3 DEF ClaimOK
    <3> QED BY <3>1, <2>6, <1>3
  <2>8. \A d \in Outputs' : d.tok = z.inv.tok => z.pc \in Ending
    BY <2>1, <2>2 DEF ClaimOK, RecordsMove
  <2> QED BY <2>2, <2>3, <2>5, <2>7, <2>8 DEF ClaimOK
<1> QED BY <1>2, <1>9, <1>10 DEF ClaimInv

\* The outcome after such a step.
LEMMA RecordsKeepOutcome ==
    ASSUME AeInv, AeInv', ClaimInv, OutcomeInv, RecordsMove
    PROVE  OutcomeInv'
<1>1. Descend /\ Drift /\ aeWorker' = aeWorker /\ aeToken' = aeToken
  BY RecordsKeepClaims DEF RecordsMove
<1>2. /\ RecordsOK /\ OnePublisher
      /\ \A d \in Flying : Legal(d, {})
      /\ \A v \in AeWorkers : WorkerOK(aeWorker[v])
  BY DEF OutcomeInv
<1>3. /\ aeStore \in AeStoreType /\ aeWorker \in [AeWorkers -> AeWorkerType]
      /\ \A d \in Flying : d \in AeCommands
      /\ \A d \in AeCommands : d.kind \in {"attempt", "run", "output"} => d.n \in Runs
      /\ \A v \in AeWorkers : Sane(aeWorker[v])
  BY DEF Flying, AeInv, AeTypeOK, AeCommands, InvocationPuts
<1>4. SomeOutput => SomeOutput'
  BY <1>1 DEF Drift
<1>5. ASSUME NEW n \in Runs, aeStore'.out[n] # aeStore.out[n]
      PROVE  \E c \in Outputs : c.n = n /\ aeStore.inv.tok = c.tok
  BY <1>5 DEF RecordsMove
<1>6. \A c \in Outputs : c.tok \in 1..aeToken /\ c \in Flying /\ c.kind = "output"
  <2>1. \A c \in Outputs : c.tok \in Nat /\ c \in Flying /\ c.kind = "output"
    BY DEF Outputs, Flying, AeInv, AeTypeOK, AeCommands, InvocationPuts
  <2> QED BY <2>1, CopiesTyped DEF ClaimInv, TokenInv, PassedOver
<1>7. \A t \in 1..aeToken : Fenced(t) => aeStore.inv.tok # t
  BY <1>1, FencesHold DEF Drift, ClaimInv
<1>8. ASSUME NEW n \in Runs, Closed(n, {}) PROVE Closed(n, {})'
  <2>1. aeStore'.out[n] = aeStore.out[n]
    BY <1>5, <1>6, <1>7, <1>8 DEF Closed
  <2>2. \A c \in Outputs' : c.n = n => c \in Outputs
    BY DEF RecordsMove
  <2> QED BY <1>1, <1>8, <2>1, <2>2, ClosedKept
<1>9. ASSUME NEW n \in Runs, NEW a, AttemptOK(n, a, {}) PROVE AttemptOK(n, a, {})'
  <2>1. Closed(n, {}) => Closed(n, {})'
    BY <1>8
  <2> QED BY <1>1, <1>9, <2>1, AttemptKept
<1>10. ASSUME NEW n \in Runs, aeStore.att[n].state = "succeeded" PROVE aeStore'.att[n].state = "succeeded"
  BY <1>1, <1>10, AttemptsDrift DEF TerminalAttempt
<1>11. ASSUME NEW n \in Runs PROVE AttemptOK(n, aeStore.att[n], {})'
  <2>1. PICK a : a = aeStore'.att[n]
    OBVIOUS
  <2>2. AttemptOK(n, a, {})
    BY <2>1, <1>2 DEF RecordsOK, RecordsMove
  <2>3. AttemptOK(n, a, {})'
    BY <2>2, <1>9
  <2> QED BY <2>1, <2>3 DEF AttemptOK
<1>12. ASSUME NEW n \in Runs, aeStore'.out[n] > 0 PROVE aeStore'.att[n].state = "succeeded"
  <2>1. CASE aeStore'.out[n] = aeStore.out[n]
    BY <2>1, <1>2, <1>10, <1>12 DEF RecordsOK
  <2>2. CASE aeStore'.out[n] # aeStore.out[n]
    BY <2>2, <1>2, <1>5, <1>6, <1>10 DEF Legal
  <2> QED BY <2>1, <2>2
<1>13. RecordsOK'
  <2>1. \A n \in Runs : aeStore'.run[n] = "succeeded" => SomeOutput'
    BY <1>2, <1>4 DEF RecordsOK, RecordsMove
  <2>2. aeStore'.inv.status = "succeeded" => SomeOutput'
    BY <1>2, <1>4 DEF RecordsOK, RecordsMove
  <2>3. aeStore'.receipt = "none" <=> ~SomeOutput'
    BY DEF RecordsMove
  <2> QED BY <1>11, <1>12, <2>1, <2>2, <2>3 DEF RecordsOK
<1>14. ASSUME NEW d \in Flying' PROVE Legal(d, {})'
  <2>1. CASE d.kind = "invocation" /\ d.inv.status # "succeeded"
    BY <2>1 DEF Legal
  <2>2. CASE d \in Flying
    <3>1. d.kind = "attempt" => AttemptOK(d.n, d.att, {})'
      BY <2>2, <1>2, <1>3, <1>9 DEF Legal
    <3>2. d.kind = "output" => aeStore'.att[d.n].state = "succeeded"
      BY <2>2, <1>2, <1>3, <1>10 DEF Legal
    <3>3. /\ d.kind = "invocation" => (d.inv.status = "succeeded" => SomeOutput')
          /\ d.kind = "run" => (d.status = "succeeded" => SomeOutput')
      BY <2>2, <1>2, <1>4 DEF Legal
    <3> QED BY <3>1, <3>2, <3>3 DEF Legal
  <2> QED BY <2>1, <2>2 DEF RecordsMove
<1>15. ASSUME NEW v \in AeWorkers PROVE WorkerOK(aeWorker[v])'
  <2>1. PICK z \in AeWorkerType : z = aeWorker[v]
    BY <1>3
  <2>2. Sane(z) /\ WorkerOK(z) /\ aeWorker'[v] = z
    BY <2>1, <1>1, <1>2, <1>3
  <2>3. z.pc \in Publishing => /\ aeStore'.out[z.n] = aeStore.out[z.n]
                               /\ \A d \in Outputs' : d.n = z.n => d \in Outputs
    <3>1. z.pc \in Publishing => z.n \in Runs
      BY <2>2 DEF Sane, Publishing, BeforeRun
    <3>2. z.pc \in Publishing => \A c \in Outputs : c.n # z.n
      BY <2>2 DEF WorkerOK
    <3>3. \A d \in Outputs' : d \in Outputs
      BY DEF RecordsMove
    <3> QED BY <3>1, <3>2, <3>3, <1>5
  <2>4. z.inv \in Copies
    BY <2>1 DEF Copies
  <2>5. z.inv.tok # 0 => z.inv.tok \in 1..aeToken
    BY <2>4, CopiesTyped DEF ClaimInv, TokenInv, Invocations
  <2>6. z.pc \in {"begin", "no answer"} \cup Preparing =>
           /\ z.inv.tok \in 1..aeToken /\ PassedOver(z.inv.tok)
           /\ aeStore.inv.tok = z.inv.tok => aeStore'.out[z.n] = aeStore.out[z.n]
    <3> SUFFICES ASSUME z.pc \in {"begin", "no answer"} \cup Preparing
                 PROVE  /\ z.inv.tok \in 1..aeToken /\ PassedOver(z.inv.tok)
                        /\ aeStore.inv.tok = z.inv.tok => aeStore'.out[z.n] = aeStore.out[z.n]
      OBVIOUS
    <3>1. z.pc \notin Claimless \cup Claiming /\ z.n \in Runs /\ z.pc \notin Ending
      BY <2>1, <2>2 DEF Preparing, Claimless, Claiming, Sane, BeforeRun, Ending
    <3>2. PassedOver(z.inv.tok) /\ z.inv.tok # 0 /\ \A c \in Outputs : c.tok # z.inv.tok
      BY <3>1, <2>1 DEF ClaimInv, ClaimOK, PassedOver
    <3>3. z.inv.tok \in 1..aeToken
      BY <3>2, <2>5
    <3>4. aeStore.inv.tok = z.inv.tok => aeStore'.out[z.n] = aeStore.out[z.n]
      BY <3>1, <3>2, <1>5
    <3> QED BY <3>2, <3>3, <3>4
  <2>7. WorkerOK(z)'
    BY <2>2, <2>3, <2>6, <1>1, WorkerKept
  <2> QED BY <2>2, <2>7 DEF WorkerOK
<1>16. OnePublisher'
  BY <1>1, <1>2 DEF OnePublisher
<1> QED BY <1>13, <1>14, <1>15, <1>16 DEF OutcomeInv

\* A command in flight is applied or refused.
LEMMA LateMoves ==
    ASSUME AeInv, AeInv', OutcomeInv, NEW c \in Flying, Writes(c), UNCHANGED <<aeWorker, aeToken>>,
           \A d \in Flying' : d \in Flying, \A d \in Outputs' : d \in Outputs
    PROVE  RecordsMove
<1>1. /\ c \in AeCommands /\ Legal(c, {}) /\ RecordsOK /\ aeStore \in AeStoreType
      /\ c.kind \in {"attempt", "run", "output"} => c.n \in Runs
  BY DEF Flying, AeInv, AeTypeOK, AeCommands, InvocationPuts, OutcomeInv
<1>2. /\ Drift
      /\ \A n \in Runs : aeStore'.out[n] # aeStore.out[n] => Adds(c, n)
      /\ (aeStore'.receipt = "none" <=> ~SomeOutput')
  BY <1>1, CommandDrifts
<1>3. aeStore'.inv = aeStore.inv \/ (c.kind = "invocation" /\ aeStore'.inv = c.inv)
  BY <1>1, CommandEffect
<1>4. Copies \subseteq Invocations /\ aeStore.inv \in Copies
  BY CopiesTyped
<1>5. \A y \in Copies' : y \in Copies
  <2> SUFFICES ASSUME NEW y \in Copies' PROVE y \in Copies
    OBVIOUS
  <2>1. CASE y = aeStore'.inv
    BY <1>3, <1>4, <2>1 DEF Copies
  <2>2. CASE \E v \in AeWorkers : y = aeWorker'[v].inv
    BY <2>2 DEF Copies
  <2>3. CASE \E d \in Flying' : d.kind = "invocation" /\ y = d.inv
    BY <2>3 DEF Copies
  <2> QED BY <2>1, <2>2, <2>3 DEF Copies
<1>6. \A y \in Copies' : \E x \in Copies : MadeFrom(y, x)
  BY <1>4, <1>5, MadeFromTyped
<1>7. \A n \in Runs : aeStore'.out[n] # aeStore.out[n] => \E d \in Outputs : d.n = n /\ aeStore.inv.tok = d.tok
  <2>1. c.kind = "output" => c \in Outputs
    BY DEF Flying, Outputs, AeInv, AeTypeOK, InvocationPuts
  <2> QED BY <2>1, <1>2 DEF Adds, FencePasses
<1>8. \A n \in Runs : aeStore'.att[n] = aeStore.att[n] \/ AttemptOK(n, aeStore'.att[n], {})
  <2>1. \A n \in Runs : aeStore'.att[n] = aeStore.att[n] \/ (c.kind = "attempt" /\ c.n = n /\ aeStore'.att[n] = c.att)
    BY <1>1, CommandEffect
  <2> QED BY <2>1, <1>1 DEF Legal
<1>9. \A n \in Runs : aeStore'.run[n] = "succeeded" => aeStore.run[n] = "succeeded" \/ SomeOutput
  <2>1. \A n \in Runs : aeStore'.run[n] = aeStore.run[n] \/ (c.kind = "run" /\ aeStore'.run[n] = c.status)
    BY <1>1, CommandEffect
  <2> QED BY <2>1, <1>1 DEF Legal
<1>10. aeStore'.inv.status = "succeeded" => aeStore.inv.status = "succeeded" \/ SomeOutput
  BY <1>1, <1>3 DEF Legal
<1> QED BY <1>2, <1>3, <1>6, <1>7, <1>8, <1>9, <1>10 DEF RecordsMove

\* The lease, the receipt and the API's request leave the records as they are.
LEMMA TimeMoves ==
    ASSUME AeInv, AeInv', OutcomeInv, UNCHANGED <<aeWorker, aeToken, aeLate>>,
           aeStore'.att = aeStore.att, aeStore'.out = aeStore.out, aeStore'.run = aeStore.run,
           MadeFrom(aeStore'.inv, aeStore.inv), aeStore'.inv.status = aeStore.inv.status,
           aeStore'.receipt = aeStore.receipt \/ (aeStore.receipt = "released" /\ aeStore'.receipt = "expired"),
           \/ aeRequest' = aeRequest
           \/ aeRequest'.kind = "invocation" /\ aeRequest'.inv.tok = 0 /\ aeRequest'.inv.status # "succeeded"
    PROVE  RecordsMove
<1>1. RecordsOK /\ aeStore.out \in [Runs -> Nat] /\ aeStore.inv \in Invocations
  BY DEF AeInv, AeTypeOK, AeStoreType, OutcomeInv
<1>2. SomeOutput' <=> SomeOutput
  BY DEF SomeOutput
<1>3. ~ReceiptKept => ~ReceiptKept'
  BY DEF ReceiptKept, AppliedAgain
<1>4. Drift
  <2>1. Follows(aeStore.inv, aeStore'.inv)
    BY <1>1 DEF Follows, MadeFrom
  <2> QED BY <1>1, <1>2, <1>3, <2>1 DEF Drift
<1>5. aeStore'.receipt = "none" <=> ~SomeOutput'
  BY <1>1, <1>2 DEF RecordsOK
<1>6. \A d \in Flying' : d \in Flying \/ (d.kind = "invocation" /\ d.inv.tok = 0 /\ d.inv.status # "succeeded")
  BY DEF Flying
<1>7. Copies \subseteq Invocations /\ aeStore.inv \in Copies
  BY CopiesTyped
<1>8. \A y \in Copies' : y \in Copies \/ y.tok = 0 \/ y = aeStore'.inv
  <2> SUFFICES ASSUME NEW y \in Copies' PROVE y \in Copies \/ y.tok = 0 \/ y = aeStore'.inv
    OBVIOUS
  <2>1. CASE \E v \in AeWorkers : y = aeWorker'[v].inv
    BY <2>1 DEF Copies
  <2>2. CASE \E d \in Flying' : d.kind = "invocation" /\ y = d.inv
    BY <2>2, <1>6 DEF Copies
  <2> QED BY <2>1, <2>2 DEF Copies
<1>9. \A y \in Copies' : y.tok = 0 \/ \E x \in Copies : MadeFrom(y, x)
  BY <1>7, <1>8, MadeFromTyped
<1>10. \A d \in Outputs' : d \in Outputs
  BY DEF Outputs
<1> QED BY <1>4, <1>5, <1>6, <1>9, <1>10 DEF RecordsMove, MadeFrom

\* What requests of the API, late commands and time do.
LEMMA OutsideMoves ==
    ASSUME AeInv, AeInv', OutcomeInv,
           LateApplied \/ RetryInvocation \/ CancelInvocation \/ RequestPut \/ LeaseExpires \/ ReceiptExpires
    PROVE  RecordsMove
<1>0. aeStore \in AeStoreType /\ aeStore.inv \in Invocations /\ aeStore'.inv \in Invocations
  BY DEF AeInv, AeTypeOK, AeStoreType
<1>1. CASE LateApplied
  <2>1. PICK c \in aeLate : /\ aeLate' = aeLate \ {c}
                            /\ aeStore' = IF Accepted(c) THEN Applied(c) ELSE aeStore
                            /\ UNCHANGED <<aeWorker, aeToken, aeRequest, aeCalls, aeFaults>>
    BY <1>1 DEF LateApplied
  <2>2. /\ c \in Flying /\ Writes(c)
        /\ \A d \in Flying' : d \in Flying
        /\ \A d \in Outputs' : d \in Outputs
    BY <2>1 DEF Flying, Outputs, Writes
  <2> QED BY <2>1, <2>2, LateMoves
<1>2. CASE RequestPut
  <2>1. /\ aeRequest \in Flying /\ Writes(aeRequest)
        /\ \A d \in Flying' : d \in Flying
        /\ \A d \in Outputs' : d \in Outputs
        /\ UNCHANGED <<aeWorker, aeToken>>
    BY <1>2 DEF RequestPut, Flying, Outputs, Writes
  <2> QED BY <2>1, LateMoves
<1>3. CASE RetryInvocation \/ CancelInvocation
  <2>1. /\ UNCHANGED <<aeStore, aeWorker, aeLate, aeToken>>
        /\ aeRequest' = PutInvocation(Reset("pending")) \/ aeRequest' = PutInvocation(Reset("cancelled"))
    BY <1>3 DEF RetryInvocation, CancelInvocation
  <2>2. aeRequest'.kind = "invocation" /\ aeRequest'.inv.tok = 0 /\ aeRequest'.inv.status # "succeeded"
    <3>1. \A s \in {"pending", "cancelled"} : Reset(s).tok = 0 /\ Reset(s).status = s
      BY <1>0 DEF Reset, Invocations
    <3>2. \A i : PutInvocation(i).kind = "invocation" /\ PutInvocation(i).inv = i
      BY DEF PutInvocation
    <3> QED BY <2>1, <3>1, <3>2
  <2> QED BY <1>0, <2>1, <2>2, TimeMoves, MadeFromTyped
<1>4. CASE LeaseExpires
  <2>1. /\ UNCHANGED <<aeWorker, aeLate, aeToken, aeRequest>>
        /\ aeStore' = [aeStore EXCEPT !.inv.lease = FALSE]
    BY <1>4 DEF LeaseExpires
  <2>2. /\ aeStore'.att = aeStore.att /\ aeStore'.out = aeStore.out /\ aeStore'.run = aeStore.run
        /\ aeStore'.receipt = aeStore.receipt /\ aeStore'.inv = [aeStore.inv EXCEPT !.lease = FALSE]
    BY <1>0, <2>1 DEF AeStoreType
  <2>3. MadeFrom(aeStore'.inv, aeStore.inv) /\ aeStore'.inv.status = aeStore.inv.status
    BY <1>0, <2>2 DEF MadeFrom, Invocations
  <2> QED BY <2>1, <2>2, <2>3, TimeMoves
<1>5. CASE ReceiptExpires
  <2>1. /\ UNCHANGED <<aeWorker, aeLate, aeToken, aeRequest>>
        /\ aeStore.receipt = "released"
        /\ aeStore' = [aeStore EXCEPT !.receipt = "expired"]
    BY <1>5 DEF ReceiptExpires
  <2>2. /\ aeStore'.att = aeStore.att /\ aeStore'.out = aeStore.out /\ aeStore'.run = aeStore.run
        /\ aeStore'.receipt = "expired" /\ aeStore'.inv = aeStore.inv
    BY <1>0, <2>1 DEF AeStoreType
  <2> QED BY <1>0, <2>1, <2>2, TimeMoves, MadeFromTyped
<1> QED BY <1>1, <1>2, <1>3, <1>4, <1>5

\* Nothing is recorded: the records drift nowhere.
LEMMA NothingDrifts == ASSUME AeInv, aeStore' = aeStore PROVE Drift
<1>1. aeStore.out \in [Runs -> Nat] /\ (SomeOutput' <=> SomeOutput) /\ (ReceiptKept' <=> ReceiptKept)
  BY DEF AeInv, AeTypeOK, AeStoreType, SomeOutput, ReceiptKept, AppliedAgain
<1> QED BY <1>1 DEF Drift, Follows

\* A worker prepares a claim: a new one, that nobody has seen.
\* Worker w read the invocation for a claim and goes on as y.
ClaimTaken(w, y) ==
    /\ aeToken' = aeToken + 1
    /\ aeWorker' = [aeWorker EXCEPT ![w] = y]
    /\ UNCHANGED <<aeStore, aeLate, aeRequest>>
    /\ y.inv.tok = aeToken + 1 /\ y.inv.status = "running"
    /\ y.inv.count = aeStore.inv.count /\ y.inv.ver = aeStore.inv.ver + 1
    /\ y.n = aeWorker[w].n /\ y.att = aeWorker[w].att
    /\ \/ aeWorker[w].pc = "claim" /\ y.pc = "put claim"
       \/ aeWorker[w].pc = "recover" /\ y.pc = "put recovery claim"

\* A claim that is not written yet disturbs nobody: its token is new.
LEMMA ClaimTakenKeeps ==
    ASSUME AeInv, AeInv', ClaimInv, OutcomeInv, NEW w \in AeWorkers, NEW y \in AeWorkerType, ClaimTaken(w, y)
    PROVE  ClaimInv' /\ OutcomeInv'
<1>0. /\ Copies \subseteq Invocations /\ aeStore.inv \in Copies /\ aeToken \in Nat /\ TokenInv
      /\ \A v \in AeWorkers : aeWorker[v].inv \in Copies
      /\ aeWorker \in [AeWorkers -> AeWorkerType]
  BY CopiesTyped DEF ClaimInv, Copies, AeInv, AeTypeOK
<1>1. /\ aeStore' = aeStore /\ Flying' = Flying /\ Outputs' = Outputs /\ aeToken' = aeToken + 1
      /\ \A v \in AeWorkers : aeWorker'[v] = IF v = w THEN y ELSE aeWorker[v]
      /\ y.inv.tok = aeToken + 1
  BY <1>0 DEF ClaimTaken, Flying, Outputs
<1>2. \A z \in Copies' : z \in Copies \/ z = y.inv
  BY <1>1 DEF Copies
<1>3. \A z \in Copies : z.tok \in Nat /\ z.tok <= aeToken /\ MadeFrom(z, z)
  BY <1>0, MadeFromTyped DEF TokenInv, Invocations
<1>4. Descend
  BY <1>0, <1>1, <1>2, <1>3 DEF Descend
<1>5. Drift
  BY <1>1, NothingDrifts
<1>6. \A t \in 1..aeToken : PassedOver(t) => PassedOver(t)'
  BY <1>0, <1>4, <1>5, FencesHold DEF Drift
<1>7. \A c \in Outputs : c.tok \in 1..aeToken /\ PassedOver(c.tok)
  <2>1. \A c \in Outputs : c.tok \in Nat
    BY DEF Outputs, AeInv, AeTypeOK, AeCommands, InvocationPuts
  <2> QED BY <2>1, <1>0 DEF TokenInv, PassedOver
<1>8. TokenInv'
  <2>1. \A z \in Copies' : z.tok <= aeToken'
    BY <1>0, <1>1, <1>2, <1>3
  <2>2. \A z, u \in Copies' : z.tok = u.tok /\ z.tok # 0 => z.ver = u.ver
    BY <1>0, <1>1, <1>2, <1>3 DEF TokenInv
  <2>3. \A c \in Outputs' : c.tok <= aeToken' /\ PassedOver(c.tok)'
    <3> SUFFICES ASSUME NEW c \in Outputs' PROVE c.tok <= aeToken' /\ PassedOver(c.tok)'
      OBVIOUS
    <3> QED BY <1>0, <1>1, <1>6, <1>7
  <2>4. \A u, v \in AeWorkers : aeWorker'[u].inv.tok = aeWorker'[v].inv.tok /\ aeWorker'[u].inv.tok # 0 => u = v
    BY <1>0, <1>1, <1>3 DEF TokenInv
  <2> QED BY <2>1, <2>2, <2>3, <2>4 DEF TokenInv
<1>9. \A d \in Flying : d.kind = "invocation" => d.inv \in Copies
  BY DEF Copies
<1>10. ASSUME NEW v \in AeWorkers PROVE ClaimOK(v)'
  <2>1. CASE v = w
    <3>1. aeWorker'[v] = y /\ y.pc \in Claiming
      BY <2>1, <1>1 DEF ClaimTaken, Claiming
    <3>2. y.pc \notin Claimless
      BY <3>1 DEF Claiming, Claimless
    <3>3. y.inv.tok # 0 /\ \A z \in Copies : z.tok # y.inv.tok
      BY <1>0, <1>1, <1>3
    <3>4. \A d \in Outputs : d.tok # y.inv.tok
      BY <1>0, <1>1, <1>7
    <3> QED BY <3>1, <3>2, <3>3, <3>4, <1>0, <1>1, <1>9 DEF ClaimOK
  <2>2. CASE v # w
    <3>1. PICK z : z = aeWorker[v]
      OBVIOUS
    <3>2. aeWorker'[v] = z /\ ClaimOK(v)
      BY <2>2, <3>1, <1>1 DEF ClaimInv
    <3>3. z.inv.tok # 0 => z.inv.tok \in 1..aeToken
      BY <3>1, <1>0, <1>3
    <3>4. z.pc \notin Claimless \cup Claiming => PassedOver(z.inv.tok)'
      <4>1. z.pc \notin Claimless \cup Claiming => PassedOver(z.inv.tok) /\ z.inv.tok # 0
        BY <3>1, <3>2 DEF ClaimOK
      <4> QED BY <4>1, <3>3, <1>6
    <3> QED BY <3>1, <3>2, <3>4, <1>1 DEF ClaimOK
  <2> QED BY <2>1, <2>2
<1>11. /\ RecordsOK /\ OnePublisher
       /\ \A d \in Flying : Legal(d, {})
       /\ \A v \in AeWorkers : WorkerOK(aeWorker[v]) /\ Sane(aeWorker[v])
       /\ \A d \in Flying : d.kind = "attempt" => d.n \in Runs
       /\ y.pc \notin Publishing
  BY DEF OutcomeInv, AeInv, AeTypeOK, AeCommands, InvocationPuts, Flying, ClaimTaken, Publishing
<1>12. SomeOutput' <=> SomeOutput
  BY <1>1 DEF SomeOutput
<1>13. ASSUME NEW n \in Runs, NEW a, AttemptOK(n, a, {}) PROVE AttemptOK(n, a, {})'
  <2>1. Closed(n, {}) => Closed(n, {})'
    BY <1>1, <1>4, <1>5, <1>11, ClosedKept
  <2> QED BY <1>5, <1>13, <2>1, AttemptKept
<1>14. RecordsOK'
  <2>1. ASSUME NEW n \in Runs PROVE AttemptOK(n, aeStore.att[n], {})'
    <3>1. PICK a : a = aeStore.att[n]
      OBVIOUS
    <3>2. AttemptOK(n, a, {})'
      BY <3>1, <1>11, <1>13 DEF RecordsOK
    <3> QED BY <3>1, <3>2, <1>1 DEF AttemptOK
  <2> QED BY <2>1, <1>1, <1>11, <1>12 DEF RecordsOK
<1>15. ASSUME NEW d \in Flying' PROVE Legal(d, {})'
  <2>1. Legal(d, {}) /\ (d.kind = "attempt" => d.n \in Runs)
    BY <1>1, <1>11
  <2>2. d.kind = "attempt" => AttemptOK(d.n, d.att, {})'
    BY <2>1, <1>13 DEF Legal
  <2> QED BY <2>1, <2>2, <1>1, <1>12 DEF Legal
<1>16. ASSUME NEW v \in AeWorkers, v # w PROVE WorkerOK(aeWorker[v])'
  <2>1. PICK z \in AeWorkerType : z = aeWorker[v]
    BY <1>0
  <2>2. Sane(z) /\ WorkerOK(z) /\ aeWorker'[v] = z
    BY <2>1, <1>1, <1>11, <1>16
  <2>3. z.inv.tok # 0 => z.inv.tok \in 1..aeToken
    BY <2>1, <1>0, <1>3
  <2>4. z.pc \in {"begin", "no answer"} \cup Preparing => z.pc \notin Claimless \cup Claiming
    BY DEF Preparing, Claimless, Claiming
  <2>5. z.pc \in {"begin", "no answer"} \cup Preparing =>
           /\ z.inv.tok \in 1..aeToken /\ PassedOver(z.inv.tok)
           /\ aeStore.inv.tok = z.inv.tok => aeStore'.out[z.n] = aeStore.out[z.n]
    BY <2>1, <2>3, <2>4, <1>1 DEF ClaimInv, ClaimOK
  <2>6. WorkerOK(z)'
    BY <2>2, <2>5, <1>1, <1>4, <1>5, WorkerKept
  <2> QED BY <2>2, <2>6 DEF WorkerOK
<1>17. WorkerOK(aeWorker[w])'
  <2>1. aeWorker'[w] = y /\ y.inv.status = "running" /\ y.n = aeWorker[w].n /\ y.att = aeWorker[w].att
    BY <1>1 DEF ClaimTaken
  <2>2. WorkerOK(aeWorker[w])
    BY <1>11
  <2>3. CASE aeWorker[w].pc = "claim" /\ y.pc = "put claim"
    BY <2>1, <2>3 DEF WorkerOK, Publishing, Preparing, Ending, Recovering, Executing
  <2>4. CASE aeWorker[w].pc = "recover" /\ y.pc = "put recovery claim"
    BY <2>1, <2>2, <2>4, <1>1, <1>12 DEF WorkerOK, Publishing, Preparing, Ending, Recovering, Executing
  <2> QED BY <2>3, <2>4 DEF ClaimTaken
<1>18. OnePublisher'
  BY <1>1, <1>11 DEF OnePublisher
<1> QED BY <1>8, <1>10, <1>14, <1>15, <1>16, <1>17, <1>18 DEF ClaimInv, OutcomeInv

\* Nothing has been claimed or recorded at the start.
LEMMA OutcomeStarts == AeInit => ClaimInv /\ OutcomeInv
<1> SUFFICES ASSUME AeInit PROVE ClaimInv /\ OutcomeInv
  OBVIOUS
<1>1. /\ \A w \in AeWorkers : aeWorker[w] = Idle
      /\ Flying = {} /\ Outputs = {} /\ aeToken = 0 /\ aeStore.inv = NewInvocation
      /\ \A n \in Runs : aeStore.att[n] = NoAttempt /\ aeStore.out[n] = 0 /\ aeStore.run[n] = "none"
      /\ aeStore.receipt = "none"
  BY DEF AeInit, Flying, Outputs
<1>2. Idle.pc = "idle" /\ Idle.inv = NewInvocation /\ NewInvocation.tok = 0 /\ NewInvocation.status = "pending"
  BY DEF Idle, NewInvocation
<1>3. \A z \in Copies : z = NewInvocation
  BY <1>1, <1>2 DEF Copies
<1>4. TokenInv
  BY <1>1, <1>2, <1>3 DEF TokenInv
<1>5. \A w \in AeWorkers : ClaimOK(w)
  BY <1>1, <1>2 DEF ClaimOK, Claimless, Claiming
<1>6. ~SomeOutput
  BY <1>1 DEF SomeOutput
<1>7. RecordsOK
  BY <1>1, <1>2, <1>6 DEF RecordsOK, AttemptOK, NoAttempt, NotPublished
<1>8. \A w \in AeWorkers : WorkerOK(aeWorker[w]) /\ aeWorker[w].pc \notin Publishing
  BY <1>1, <1>2 DEF WorkerOK, Publishing, Preparing, Ending, Recovering, Executing
<1> QED BY <1>1, <1>4, <1>5, <1>7, <1>8 DEF ClaimInv, OutcomeInv, OnePublisher

-----------------------------------------------------------------------------
(* Every step of a worker is one of the moves above.                       *)

\* Worker w makes such a move.
Progress(w) == \E y \in AeWorkerType, c \in AeCommands : WorkerMoves(w, y, c)
Goes(x, y) == Moves(x, y) /\ Counts(x, y)

\* The fields of a worker after a step.
LEMMA Fields ==
    ASSUME AeInv, NEW w \in AeWorkers
    PROVE  /\ aeWorker[w] \in AeWorkerType /\ aeWorker[w].inv \in Invocations
           /\ MadeFrom(aeWorker[w].inv, aeWorker[w].inv)
           /\ \A pc \in AeSteps : /\ To(w, pc).pc = pc /\ To(w, pc).inv = aeWorker[w].inv /\ To(w, pc).n = aeWorker[w].n
                      /\ To(w, pc).att = aeWorker[w].att /\ To(w, pc).res = aeWorker[w].res
           /\ \A r \in AeResults : /\ EndRun(w, r).pc = "put run" /\ EndRun(w, r).inv = aeWorker[w].inv
                     /\ EndRun(w, r).n = aeWorker[w].n /\ EndRun(w, r).res = r /\ EndRun(w, r).att = NoAttempt
           /\ \A r \in AeResults : /\ NoAnswer(w, r).pc = "no answer" /\ NoAnswer(w, r).inv = aeWorker[w].inv
                     /\ NoAnswer(w, r).n = aeWorker[w].n /\ NoAnswer(w, r).res = r /\ NoAnswer(w, r).att = NoAttempt
           /\ \A r \in AeResults : /\ EndAttempt(w, r).pc = "complete" /\ EndAttempt(w, r).inv = aeWorker[w].inv
                     /\ EndAttempt(w, r).n = aeWorker[w].n /\ EndAttempt(w, r).res = r
                     /\ EndAttempt(w, r).att = aeWorker[w].att
           /\ Idle.pc = "idle" /\ Idle.inv = NewInvocation /\ NewInvocation.status = "pending"
<1>1. aeWorker[w] \in AeWorkerType
  BY DEF AeInv, AeTypeOK
<1>2. aeWorker[w].inv \in Invocations /\ MadeFrom(aeWorker[w].inv, aeWorker[w].inv)
  BY <1>1, MadeFromTyped DEF AeWorkerType
<1> QED BY <1>1, <1>2 DEF To, EndRun, NoAnswer, EndAttempt, Idle, NewInvocation, AeWorkerType

\* A worker moves on by itself.
LEMMA GoMoves ==
    ASSUME AeInv, AeInv', NEW w \in AeWorkers, NEW y, aeWorker' = [aeWorker EXCEPT ![w] = y],
           UNCHANGED <<aeStore, aeLate, aeToken, aeRequest>>,
           Goes(aeWorker[w], y), aeWorker[w].pc \in Claiming => y.pc \in Claimless, WorkerOK(y)
    PROVE  Progress(w)
<1>1. y \in AeWorkerType
  <2>1. aeWorker \in [AeWorkers -> AeWorkerType] /\ aeWorker' \in [AeWorkers -> AeWorkerType]
    BY DEF AeInv, AeTypeOK
  <2>2. aeWorker'[w] = y
    BY <2>1
  <2> QED BY <2>1, <2>2
<1>2. PICK c \in AeCommands : c.kind = "ack"
  BY PutTyped
<1>3. Legal(c, Leaving(w, y)) /\ Sends(aeWorker[w], y, c)
  BY <1>2 DEF Legal, Sends
<1>4. WorkerOK(y)'
  BY DEF WorkerOK, Outputs, SomeOutput, ReceiptKept, AppliedAgain
<1>5. aeWorker[w].pc \in Claiming /\ y.pc \notin Claimless => aeStore'.inv.tok = y.inv.tok
  OBVIOUS
<1>6. WorkerMoves(w, y, c)
  BY <1>3, <1>4, <1>5 DEF WorkerMoves, Goes, Writes
<1> QED BY <1>1, <1>2, <1>6 DEF Progress

\* What a command other than an output leaves as it is.
LEMMA CommandLeaves ==
    ASSUME AeInv, NEW c \in AeCommands, c.kind # "output", Writes(c), aeLate' \in {aeLate, aeLate \cup {c}}
    PROVE  /\ Outputs' = Outputs /\ aeStore'.out = aeStore.out
           /\ SomeOutput' <=> SomeOutput
           /\ ReceiptKept' <=> ReceiptKept
           /\ c.kind # "invocation" => aeStore'.inv = aeStore.inv
<1>1. aeStore \in AeStoreType
  BY DEF AeInv, AeTypeOK
<1>2. \/ UNCHANGED <<aeStore.out, aeStore.receipt>>
      \/ aeStore.receipt = "retained" /\ aeStore'.receipt = "released" /\ UNCHANGED aeStore.out
  BY <1>1, CommandEffect
<1>3. c.kind # "invocation" => aeStore'.inv = aeStore.inv
  BY <1>1, CommandEffect
<1>4. Outputs' = Outputs
  BY DEF Outputs
<1> QED BY <1>2, <1>3, <1>4 DEF SomeOutput, ReceiptKept, AppliedAgain

\* A command other than an output leaves what a worker knows.
LEMMA CommandKeeps ==
    ASSUME AeInv, AeInv', RecordsOK, NEW c \in AeCommands, c.kind # "output", Writes(c),
           aeLate' \in {aeLate, aeLate \cup {c}},
           NEW z \in AeWorkerType, Sane(z), WorkerOK(z),
           c.kind = "invocation" => z.pc \notin {"begin", "no answer"} \cup Preparing
    PROVE  WorkerOK(z)'
<1>1. /\ Outputs' = Outputs /\ aeStore'.out = aeStore.out
      /\ SomeOutput' <=> SomeOutput
      /\ ReceiptKept' <=> ReceiptKept
      /\ c.kind # "invocation" => aeStore'.inv = aeStore.inv
  BY CommandLeaves
<1>2. Drift
  BY CommandDrifts
<1>3. z.pc \notin BeforeRun => z.n \in Runs
  BY DEF Sane
<1>4. z.pc \in Publishing \cup {"recover", "put recovery claim"} \cup Recovering => aeStore'.att[z.n].state = "succeeded"
  <2>1. z.pc \in Publishing \cup {"recover", "put recovery claim"} \cup Recovering => z.n \in Runs
    BY <1>3 DEF Publishing, Recovering, BeforeRun
  <2>2. z.pc \in Publishing \cup {"recover", "put recovery claim"} \cup Recovering => aeStore.att[z.n].state = "succeeded"
    BY DEF WorkerOK
  <2> QED BY <1>2, <2>1, <2>2, AttemptsDrift DEF TerminalAttempt
<1>5. z.pc = "provider" \/ (z.pc = "complete" /\ z.res = "succeeded") =>
          /\ z.att.state = "started"
          /\ \/ aeStore'.att[z.n] = z.att
             \/ aeStore'.att[z.n].state \in TerminalAttempt /\ z.att.rec < aeStore'.att[z.n].rec
  <2> SUFFICES ASSUME z.pc = "provider" \/ (z.pc = "complete" /\ z.res = "succeeded")
               PROVE  /\ z.att.state = "started"
                      /\ \/ aeStore'.att[z.n] = z.att
                         \/ aeStore'.att[z.n].state \in TerminalAttempt /\ z.att.rec < aeStore'.att[z.n].rec
    OBVIOUS
  <2>1. z.n \in Runs /\ z.att.rec \in Nat
    BY <1>3 DEF BeforeRun, AeWorkerType, Attempts
  <2>2. z.att.state = "started" /\ (\/ aeStore.att[z.n] = z.att
                                    \/ aeStore.att[z.n].state \in TerminalAttempt /\ z.att.rec < aeStore.att[z.n].rec)
    BY DEF WorkerOK
  <2> PICK n : n = z.n
    OBVIOUS
  <2>3. /\ aeStore.att[n].state \in TerminalAttempt =>
              aeStore'.att[n].state = aeStore.att[n].state /\ aeStore.att[n].rec <= aeStore'.att[n].rec
        /\ aeStore.att[n].state = "started" =>
              \/ aeStore'.att[n] = aeStore.att[n]
              \/ aeStore'.att[n].state \in TerminalAttempt /\ aeStore.att[n].rec < aeStore'.att[n].rec
        /\ aeStore.att[n].rec \in Nat /\ aeStore'.att[n].rec \in Nat
    BY <1>2, <2>1, AttemptsDrift
  <2>4. \/ aeStore'.att[n] = z.att
        \/ aeStore'.att[n].state \in TerminalAttempt /\ z.att.rec < aeStore'.att[n].rec
    BY <2>1, <2>2, <2>3, LessTrans
  <2> QED BY <2>2, <2>4
<1>6. z.pc \in Preparing => aeStore'.att[z.n].state # "none"
  <2>1. z.pc \in Preparing => z.n \in Runs /\ aeStore.att[z.n].state # "none"
    BY <1>3 DEF WorkerOK, Preparing, BeforeRun
  <2> QED BY <1>2, <2>1, AttemptsDrift
<1>7. z.pc \in {"begin", "no answer"} \cup Preparing => aeStore'.inv = aeStore.inv
  BY <1>1
<1> QED BY <1>1, <1>4, <1>5, <1>6, <1>7 DEF WorkerOK

\* A worker proposes a command other than an output.
LEMMA PutMoves ==
    ASSUME AeInv, AeInv', OutcomeInv, NEW w \in AeWorkers, NEW c \in AeCommands, c.kind # "output",
           NEW ok, NEW bad, Put(w, c, ok, bad),
           Goes(aeWorker[w], ok), Sends(aeWorker[w], ok, c), Legal(c, Leaving(w, ok)),
           Goes(aeWorker[w], bad), Sends(aeWorker[w], bad, c), Legal(c, Leaving(w, bad)),
           aeWorker[w].pc \in Claiming => bad.pc \in Claimless /\ c.kind = "invocation" /\ c.inv.tok = ok.inv.tok,
           c.kind = "invocation" => {ok.pc, bad.pc} \cap ({"begin", "no answer"} \cup Preparing) = {},
           WorkerOK(bad),
           WorkerOK(ok) \/ (Accepted(c) /\ aeStore' = Applied(c) /\ aeLate' = aeLate /\ aeWorker'[w] = ok => WorkerOK(ok)')
    PROVE  Progress(w)
<1>1. /\ UNCHANGED <<aeToken, aeRequest>>
      /\ \/ aeWorker' = [aeWorker EXCEPT ![w] = bad] /\ aeStore' = aeStore /\ aeLate' \in {aeLate, aeLate \cup {c}}
         \/ aeWorker' = [aeWorker EXCEPT ![w] = ok] /\ Accepted(c) /\ aeStore' = Applied(c) /\ aeLate' = aeLate
  BY DEF Put
<1>2. ASSUME NEW y \in {ok, bad}, aeWorker' = [aeWorker EXCEPT ![w] = y] PROVE y \in AeWorkerType /\ Sane(y) /\ aeWorker'[w] = y
  <2>1. /\ aeWorker \in [AeWorkers -> AeWorkerType] /\ aeWorker' \in [AeWorkers -> AeWorkerType]
        /\ \A v \in AeWorkers : Sane(aeWorker[v])'
    BY DEF AeInv, AeTypeOK
  <2>2. aeWorker'[w] = y
    BY <2>1, <1>2
  <2> QED BY <2>1, <2>2 DEF Sane
<1>3. Writes(c) /\ aeLate' \in {aeLate, aeLate \cup {c}}
  BY <1>1 DEF Writes
<1>4. CASE aeWorker' = [aeWorker EXCEPT ![w] = bad] /\ aeStore' = aeStore
  <2>1. bad \in AeWorkerType /\ Sane(bad)
    BY <1>2, <1>4
  <2>2. WorkerOK(bad)'
    BY <1>3, <2>1, CommandKeeps DEF OutcomeInv
  <2>3. WorkerMoves(w, bad, c)
    BY <1>1, <1>3, <1>4, <2>2 DEF WorkerMoves, Goes
  <2> QED BY <2>1, <2>3 DEF Progress
<1>5. CASE aeWorker' = [aeWorker EXCEPT ![w] = ok] /\ Accepted(c) /\ aeStore' = Applied(c) /\ aeLate' = aeLate
  <2>1. ok \in AeWorkerType /\ Sane(ok) /\ aeWorker'[w] = ok
    BY <1>2, <1>5
  <2>2. WorkerOK(ok)'
    <3>1. CASE WorkerOK(ok)
      BY <3>1, <1>3, <2>1, CommandKeeps DEF OutcomeInv
    <3> QED BY <3>1, <2>1, <1>5
  <2>3. aeWorker[w].pc \in Claiming => aeStore'.inv.tok = ok.inv.tok
    <3>1. aeStore \in AeStoreType
      BY DEF AeInv, AeTypeOK
    <3>2. c.kind = "invocation" => aeStore'.inv = c.inv
      BY <1>5, <3>1 DEF Applied, AeStoreType
    <3> QED BY <3>2
  <2>4. WorkerMoves(w, ok, c)
    BY <1>1, <1>3, <1>5, <2>2, <2>3 DEF WorkerMoves, Goes
  <2> QED BY <2>1, <2>4 DEF Progress
<1> QED BY <1>1, <1>4, <1>5

\* A worker may stop anywhere.
LEMMA IdleFits ==
    ASSUME NEW x
    PROVE  /\ Goes(x, Idle) /\ WorkerOK(Idle)
           /\ Goes(x, [Idle EXCEPT !.pc = "dead"]) /\ WorkerOK([Idle EXCEPT !.pc = "dead"])
<1>1. ASSUME NEW y, y.pc \in {"idle", "dead"}, y.inv = NewInvocation PROVE Goes(x, y)
  BY <1>1 DEF Goes, Moves, Counts, Claimless, Claiming, Publishing, Quiet
<1>2. ASSUME NEW y, y.pc \in {"idle", "dead"}, y.inv = NewInvocation PROVE WorkerOK(y)
  <2>1. y.inv.status # "succeeded"
    BY <1>2 DEF NewInvocation
  <2> QED BY <1>2, <2>1 DEF WorkerOK, Publishing, Preparing, Ending, Recovering, Executing
<1> QED BY <1>1, <1>2 DEF Idle

\* A worker that gives up drops its claim.
LEMMA IdleMoves == ASSUME AeInv, AeInv', NEW w \in AeWorkers, Go(w, Idle) PROVE Progress(w)
<1>1. Idle.pc \in Claimless
  BY DEF Idle, Claimless
<1>2. aeWorker' = [aeWorker EXCEPT ![w] = Idle] /\ UNCHANGED <<aeStore, aeLate, aeToken, aeRequest>>
  BY DEF Go
<1>3. Goes(aeWorker[w], Idle) /\ WorkerOK(Idle)
  BY IdleFits
<1> QED BY <1>1, <1>2, <1>3, GoMoves

\* A worker that dies drops its claim.
LEMMA DiesMoves == ASSUME AeInv, AeInv', NEW w \in AeWorkers, Dies(w) PROVE Progress(w)
<1> DEFINE y == [Idle EXCEPT !.pc = "dead"]
<1>1. y.pc \in Claimless
  BY DEF Idle, Claimless
<1>2. aeWorker' = [aeWorker EXCEPT ![w] = y] /\ UNCHANGED <<aeStore, aeLate, aeToken, aeRequest>>
  BY DEF Dies
<1>3. Goes(aeWorker[w], y) /\ WorkerOK(y)
  BY IdleFits
<1> HIDE DEF y
<1> QED BY <1>1, <1>2, <1>3, GoMoves

\* A worker ends its run.
LEMMA EndFits ==
    ASSUME AeInv, NEW w \in AeWorkers, aeWorker[w].pc \in Executing,
           WorkerOK(aeWorker[w]), NEW r \in AeResults
    PROVE  Goes(aeWorker[w], EndRun(w, r)) /\ (r # "succeeded" \/ SomeOutput => WorkerOK(EndRun(w, r)))
<1> DEFINE x == aeWorker[w]
           y == EndRun(w, r)
<1>1. y.pc = "put run" /\ y.inv = x.inv /\ y.n = x.n /\ y.res = r /\ MadeFrom(x.inv, x.inv)
  BY Fields
<1>2. x.pc \in Executing /\ WorkerOK(x)
  OBVIOUS
<1> HIDE DEF x, y
<1>3. Goes(x, y)
  BY <1>1, <1>2 DEF Goes, Moves, Counts, Claimless, Claiming, Publishing, Quiet, Ending, Recovering, Executing, Preparing
<1>4. x.n = x.inv.count + 1 /\ x.inv.status # "succeeded"
  BY <1>2 DEF WorkerOK
<1>5. r # "succeeded" \/ SomeOutput => WorkerOK(y)
  BY <1>1, <1>4 DEF WorkerOK, Publishing, Preparing, Ending, Recovering, Executing
<1> QED BY <1>3, <1>5 DEF x, y

\* What a worker writes of the invocation last.
LEMMA LastPutMoves ==
    ASSUME AeInv, AeInv', OutcomeInv, NEW w \in AeWorkers, aeWorker[w].pc \notin Claimless \cup Claiming,
           NEW i \in Invocations, Put(w, PutInvocation(i), Idle, Idle), MadeFrom(i, aeWorker[w].inv),
           i.status = "succeeded" => SomeOutput, aeWorker[w].pc \in Ending => i.status # "running"
    PROVE  Progress(w)
<1>1. PICK c \in AeCommands : c = PutInvocation(i)
  BY PutTyped
<1>2. c.kind = "invocation" /\ c.inv = i
  BY <1>1 DEF PutInvocation
<1>3. Idle.pc \in Claimless /\ Idle.pc \notin {"begin", "no answer"} \cup Preparing
  BY DEF Idle, Claimless, Preparing
<1>4. Goes(aeWorker[w], Idle) /\ WorkerOK(Idle)
  BY IdleFits
<1>5. Sends(aeWorker[w], Idle, c) /\ Legal(c, Leaving(w, Idle))
  BY <1>2, <1>3 DEF Sends, Legal
<1>6. Put(w, c, Idle, Idle)
  BY <1>1
<1>7. aeWorker[w].pc \notin Claiming
  OBVIOUS
<1> HIDE DEF Idle
<1> QED BY <1>2, <1>3, <1>4, <1>5, <1>6, <1>7, PutMoves

\* A renewed invocation is made from the old one.
LEMMA TouchMade ==
    ASSUME NEW i \in Invocations, NEW s \in Statuses, NEW k \in 0..AeMaxAttempts, i.count <= k
    PROVE  /\ MadeFrom(Touch(i), i) /\ Touch(i).status = i.status /\ Touch(i).count = i.count
           /\ MadeFrom(Touch([i EXCEPT !.status = s]), i)
           /\ MadeFrom(Touch([i EXCEPT !.status = s, !.count = k]), i)
           /\ MadeFrom(Touch([i EXCEPT !.count = k, !.status = s]), i)
BY DEF Touch, MadeFrom, Invocations

\* Listing, reconciling and claiming.
LEMMA ClaimSteps ==
    ASSUME AeInv, AeInv', ClaimInv, OutcomeInv, NEW w \in AeWorkers,
           ListPending(w) \/ Reconcile(w) \/ ClaimRead(w) \/ ClaimPut(w)
    PROVE  Progress(w) \/ \E y \in AeWorkerType : ClaimTaken(w, y)
<1> DEFINE x == aeWorker[w]
<1>0. /\ x \in AeWorkerType /\ WorkerOK(x) /\ ClaimOK(w) /\ RecordsOK /\ aeStore \in AeStoreType
      /\ x.pc \in Claimless => x.inv = NewInvocation
      /\ aeWorker \in [AeWorkers -> AeWorkerType]
  BY DEF AeInv, AeTypeOK, OutcomeInv, ClaimInv, ClaimOK
<1>1. NewInvocation.status # "succeeded"
  BY DEF NewInvocation
<1>2. CASE ListPending(w)
  <2> DEFINE y == To(w, "listed")
  <2>1. x.pc = "idle" /\ Go(w, y)
    BY <1>2 DEF ListPending, At
  <2>2. y.pc = "listed" /\ y.inv = x.inv /\ y.n = x.n
    <3>1. "listed" \in AeSteps
      BY DEF AeSteps
    <3> QED BY <3>1, Fields
  <2> HIDE DEF y, x
  <2>3. Goes(x, y) /\ x.pc \notin Claiming
    BY <1>0, <2>1, <2>2 DEF Goes, Moves, Counts, Claimless, Claiming, Publishing, Quiet, Ending
  <2>4. WorkerOK(y)
    BY <1>0, <1>1, <2>1, <2>2 DEF WorkerOK, Publishing, Preparing, Ending, Recovering, Executing, Claimless
  <2> QED BY <2>1, <2>3, <2>4, GoMoves DEF Go, x
<1>3. CASE Reconcile(w) /\ Recoverable
  <2> DEFINE y == [To(w, "recover") EXCEPT !.n = LastRun, !.att = aeStore.att[LastRun]]
  <2>1. x.pc = "listed" /\ Go(w, y)
    BY <1>3 DEF Reconcile, At
  <2>2. y.pc = "recover" /\ y.inv = x.inv /\ y.n = LastRun /\ y.att = aeStore.att[LastRun]
    <3>1. \A z \in AeWorkerType : \A n, a : [z EXCEPT !.n = n, !.att = a].pc = z.pc /\ [z EXCEPT !.n = n, !.att = a].inv = z.inv
                                        /\ [z EXCEPT !.n = n, !.att = a].n = n /\ [z EXCEPT !.n = n, !.att = a].att = a
      BY DEF AeWorkerType
    <3>2. "recover" \in AeSteps
      BY DEF AeSteps
    <3>3. To(w, "recover") \in AeWorkerType /\ To(w, "recover").pc = "recover" /\ To(w, "recover").inv = x.inv
      BY <3>2, ToTyped
    <3> QED BY <3>1, <3>3
  <2>3. LastRun \in Runs /\ aeStore.att[LastRun].state = "succeeded"
    <3>1. Tried \subseteq Runs /\ Tried # {}
      BY <1>3 DEF Recoverable, Tried
    <3>2. \E n \in Tried : \A m \in Tried : m <= n
      BY <3>1, LargestRun
    <3> QED BY <3>1, <3>2, <1>3 DEF LastRun, Recoverable
  <2>4. aeStore.att[LastRun].disp = "published" => SomeOutput
    BY <2>3, <1>0 DEF RecordsOK, AttemptOK
  <2> HIDE DEF y, x, LastRun
  <2>5. Goes(x, y) /\ x.pc \notin Claiming
    BY <1>0, <2>1, <2>2 DEF Goes, Moves, Counts, Claimless, Claiming, Publishing, Quiet, Ending
  <2>6. WorkerOK(y)
    BY <1>0, <1>1, <2>1, <2>2, <2>3, <2>4 DEF WorkerOK, Publishing, Preparing, Ending, Recovering, Executing, Claimless
  <2> QED BY <2>1, <2>5, <2>6, GoMoves DEF Go, x
<1>4. CASE Reconcile(w) /\ ~Recoverable
  <2> DEFINE y == To(w, "claim")
  <2>1. x.pc = "listed" /\ Go(w, y)
    BY <1>4 DEF Reconcile, At
  <2>2. y.pc = "claim" /\ y.inv = x.inv /\ y.n = x.n
    <3>1. "claim" \in AeSteps
      BY DEF AeSteps
    <3> QED BY <3>1, Fields
  <2> HIDE DEF y, x
  <2>3. Goes(x, y) /\ x.pc \notin Claiming
    BY <1>0, <1>4, <2>1, <2>2 DEF Goes, Moves, Counts, Claimless, Claiming, Publishing, Quiet, Ending
  <2>4. WorkerOK(y)
    BY <1>0, <1>1, <2>1, <2>2 DEF WorkerOK, Publishing, Preparing, Ending, Recovering, Executing, Claimless
  <2> QED BY <2>1, <2>3, <2>4, GoMoves DEF Go, x
<1>5. CASE ClaimRead(w) /\ Go(w, Idle)
  BY <1>5, IdleMoves
<1>6. CASE ClaimRead(w) /\ ~Go(w, Idle)
  <2> DEFINE pc == IF At(w, "claim") THEN "put claim" ELSE "put recovery claim"
             y == [To(w, pc) EXCEPT !.inv = Claim(w)]
  <2>1. /\ aeToken' = aeToken + 1 /\ aeWorker' = [aeWorker EXCEPT ![w] = y]
        /\ UNCHANGED <<aeStore, aeLate, aeRequest>>
        /\ x.pc \in {"claim", "recover"}
    BY <1>6 DEF ClaimRead, At
  <2>2. y.pc = pc /\ y.inv = Claim(w) /\ y.n = x.n /\ y.att = x.att
    <3>1. \A z \in AeWorkerType : \A i : [z EXCEPT !.inv = i].pc = z.pc /\ [z EXCEPT !.inv = i].inv = i
                                     /\ [z EXCEPT !.inv = i].n = z.n /\ [z EXCEPT !.inv = i].att = z.att
      BY DEF AeWorkerType
    <3>2. pc \in AeSteps
      BY DEF AeSteps
    <3> HIDE DEF pc
    <3>3. To(w, pc) \in AeWorkerType /\ To(w, pc).pc = pc /\ To(w, pc).n = x.n /\ To(w, pc).att = x.att
      BY <3>2, ToTyped
    <3> QED BY <3>1, <3>3
  <2>3. /\ Claim(w).tok = aeToken + 1 /\ Claim(w).status = "running"
        /\ Claim(w).count = aeStore.inv.count /\ Claim(w).ver = aeStore.inv.ver + 1
    BY <1>0 DEF Claim, AeStoreType, Invocations
  <2>4. \/ x.pc = "claim" /\ pc = "put claim"
        \/ x.pc = "recover" /\ pc = "put recovery claim"
    BY <2>1 DEF At
  <2>5. y \in AeWorkerType
    <3>1. aeWorker' \in [AeWorkers -> AeWorkerType]
      BY DEF AeInv, AeTypeOK
    <3> HIDE DEF y
    <3>2. aeWorker'[w] = y
      BY <2>1, <1>0
    <3> QED BY <3>1, <3>2
  <2> HIDE DEF y, pc
  <2>6. ClaimTaken(w, y)
    BY <2>1, <2>2, <2>3, <2>4 DEF ClaimTaken
  <2> QED BY <2>5, <2>6
<1>7. CASE ClaimPut(w)
  <2>1. PICK c \in AeCommands : c = PutInvocation(x.inv)
    BY <1>0, PutTyped DEF AeWorkerType
  <2>2. c.kind = "invocation" /\ c.inv = x.inv
    BY <2>1 DEF PutInvocation
  <2>3. Goes(x, Idle) /\ WorkerOK(Idle) /\ Idle.pc = "idle"
    BY IdleFits DEF Idle
  <2>4. PICK pc \in {"claimed", "recovered"} :
           /\ Put(w, c, To(w, pc), Idle)
           /\ \/ x.pc = "put claim" /\ pc = "claimed"
              \/ x.pc = "put recovery claim" /\ pc = "recovered"
    BY <1>7, <2>1 DEF ClaimPut, At
  <2> DEFINE y == To(w, pc)
  <2>5. y.pc = pc /\ y.inv = x.inv /\ y.n = x.n /\ y.att = x.att /\ MadeFrom(x.inv, x.inv) /\ x.inv \in Invocations
    <3>1. pc \in AeSteps
      BY DEF AeSteps
    <3> QED BY <3>1, Fields
  <2>6. Put(w, c, y, Idle)
    BY <2>4
  <2>7. x.pc \notin Claimless \cup Ending /\ x.pc \in Claiming
    BY <2>4 DEF Claimless, Claiming, Ending
  <2> HIDE DEF y, x
  <2>8. Goes(x, y)
    BY <2>4, <2>5 DEF Goes, Moves, Counts, Claimless, Claiming, Publishing, Quiet, Ending, Recovering
  <2>9. WorkerOK(y)
    BY <1>0, <2>4, <2>5 DEF WorkerOK, Publishing, Preparing, Ending, Recovering, Executing
  <2>10. x.inv.count <= x.inv.count
    BY <2>5 DEF MadeFrom
  <2>11. Sends(x, y, c) /\ Sends(x, Idle, c)
    BY <2>2, <2>5, <2>7, <2>10, <2>3 DEF Sends, Claimless
  <2>12. Legal(c, Leaving(w, y)) /\ Legal(c, Leaving(w, Idle))
    BY <1>0, <2>2 DEF Legal, WorkerOK
  <2>13. {y.pc, Idle.pc} \cap ({"begin", "no answer"} \cup Preparing) = {}
    BY <2>3, <2>4, <2>5 DEF Preparing
  <2>14. Idle.pc \in Claimless /\ c.inv.tok = y.inv.tok
    BY <2>2, <2>3, <2>5 DEF Claimless
  <2> HIDE DEF Idle
  <2> QED BY <2>2, <2>3, <2>6, <2>8, <2>9, <2>11, <2>12, <2>13, <2>14, PutMoves DEF x
<1> QED BY <1>2, <1>3, <1>4, <1>5, <1>6, <1>7

\* The steps that a worker goes to under a claim it keeps.
Onward == AeSteps \ (Claimless \cup Claiming \cup {"claimed", "put early run", "execute", "begin"})

\* Between these steps a worker keeps its claim and its run.
LEMMA Forward ==
    ASSUME NEW x, NEW y, y.pc \in Onward, x.pc \notin Claimless \cup Ending, MadeFrom(y.inv, x.inv),
           y.inv.count = x.inv.count, y.inv.status = x.inv.status,
           y.pc \in Publishing => y.n = x.n /\ (x.pc \in Publishing \/ aeStore.att[x.n].state = "started"),
           y.pc \in Quiet \/ x.pc \notin Quiet
    PROVE  Goes(x, y)
BY DEF Goes, Moves, Counts, Onward

\* Everything a worker goes on to from a command that records a run.
LEMMA RunLegal ==
    ASSUME NEW n \in Runs, NEW s \in RunStates, s = "succeeded" => SomeOutput, NEW w
    PROVE  /\ PutRun(n, s) \in AeCommands /\ PutRun(n, s).kind = "run"
           /\ \A x, y : Sends(x, y, PutRun(n, s)) /\ Legal(PutRun(n, s), Leaving(w, y))
<1>1. PICK c \in AeCommands : c = PutRun(n, s)
  BY PutTyped
<1>2. c.kind = "run" /\ c.n = n /\ c.status = s
  BY <1>1 DEF PutRun
<1>3. \A x, y : Sends(x, y, c) /\ Legal(c, Leaving(w, y))
  BY <1>2 DEF Sends, Legal
<1> QED BY <1>1, <1>2, <1>3

\* A worker proposes a change of a run.
LEMMA RunMoves ==
    ASSUME AeInv, AeInv', OutcomeInv, NEW w \in AeWorkers, aeWorker[w].pc \notin Claiming,
           NEW n \in Runs, NEW s \in RunStates, s = "succeeded" => SomeOutput,
           NEW ok, NEW bad, Put(w, PutRun(n, s), ok, bad),
           Goes(aeWorker[w], ok), WorkerOK(ok), Goes(aeWorker[w], bad), WorkerOK(bad)
    PROVE  Progress(w)
<1>1. PICK c \in AeCommands : c = PutRun(n, s)
  BY PutTyped
<1>2. c.kind = "run"
  BY <1>1 DEF PutRun
<1>3. /\ Sends(aeWorker[w], ok, c) /\ Legal(c, Leaving(w, ok))
      /\ Sends(aeWorker[w], bad, c) /\ Legal(c, Leaving(w, bad))
  BY <1>1, RunLegal
<1>4. Put(w, c, ok, bad)
  BY <1>1
<1> QED BY <1>2, <1>3, <1>4, PutMoves

\* What a claimed worker finds.
LEMMA ClaimedSteps ==
    ASSUME AeInv, AeInv', ClaimInv, OutcomeInv, NEW w \in AeWorkers, Claimed(w)
    PROVE  Progress(w)
<1> DEFINE x == aeWorker[w]
           inv == aeWorker[w].inv
           n == inv.count + 1
           run == aeStore.run[n]
           att == aeStore.att[n]
           stop == att.state = "denied" \/ n >= AeMaxAttempts
<1>0. /\ x \in AeWorkerType /\ aeStore \in AeStoreType /\ inv \in Invocations
      /\ inv.count \in 0..AeMaxAttempts /\ AeMaxAttempts \in Nat
      /\ x.pc = "claimed" /\ WorkerOK(x) /\ RecordsOK
      /\ aeWorker \in [AeWorkers -> AeWorkerType] /\ aeWorker' \in [AeWorkers -> AeWorkerType]
  BY AutomationAssumption DEF AeInv, AeTypeOK, AeWorkerType, Invocations, OutcomeInv, Claimed, At
<1>00. inv \in Invocations /\ inv.count \in 0..AeMaxAttempts /\ AeMaxAttempts \in Nat
  BY <1>0
<1>1. x.pc \notin Claimless \cup Claiming \cup Ending \cup Quiet
  BY <1>0 DEF Claimless, Claiming, Ending, Quiet, Recovering
<1>2. inv.status # "succeeded" /\ MadeFrom(inv, inv)
  BY <1>0, Fields DEF WorkerOK
<1>3. CASE Go(w, Idle)
  BY <1>3, IdleMoves
<1>4. CASE n \in Runs /\ run \notin {"none", "running"} /\
           Put(w, PutInvocation(Touch([inv EXCEPT !.status = IF run = "dropped" THEN "skipped" ELSE run,
                                                  !.count = IF run = "dropped" THEN @ ELSE n])), Idle, Idle)
  <2> DEFINE s == IF run = "dropped" THEN "skipped" ELSE run
             k == IF run = "dropped" THEN inv.count ELSE n
             new == Touch([inv EXCEPT !.status = s, !.count = k])
  <2>1. Put(w, PutInvocation(new), Idle, Idle)
    BY <1>4
  <2>2. s \in Statuses /\ (s = "succeeded" => SomeOutput)
    <3>1. run \in RunStates /\ run \notin {"none", "running"} /\ (run = "succeeded" => SomeOutput)
      BY <1>0, <1>4 DEF AeStoreType, RecordsOK
    <3> HIDE DEF run
    <3>2. s \in Statuses
      BY <3>1 DEF RunStates, OpenRun, Statuses, TerminalInvocation
    <3> QED BY <3>1, <3>2
  <2>3. k \in 0..AeMaxAttempts /\ inv.count <= k
    BY SMTT(60), <1>0, <1>4 DEF Runs
  <2> HIDE DEF s, k
  <2>4. new \in Invocations
    BY <1>0, <2>2, <2>3, TouchTyped
  <2>5. MadeFrom(new, inv)
    BY <1>00, <2>2, <2>3, TouchMade
  <2>6. new.status = s
    BY <1>00, <2>2, <2>3 DEF Touch, Invocations
  <2> HIDE DEF new
  <2> QED BY <1>1, <2>1, <2>2, <2>4, <2>5, <2>6, LastPutMoves
<1>5. CASE Unresolved # {} /\
           Go(w, [To(w, "ambiguous") EXCEPT !.n = CHOOSE u \in Unresolved : \A v \in Unresolved : v <= u])
  <2> DEFINE top == CHOOSE u \in Unresolved : \A v \in Unresolved : v <= u
             y == [To(w, "ambiguous") EXCEPT !.n = top]
  <2>1. Go(w, y)
    BY <1>5
  <2> HIDE DEF top
  <2>2. y.pc = "ambiguous" /\ y.inv = inv
    <3>1. "ambiguous" \in AeSteps
      BY DEF AeSteps
    <3>2. To(w, "ambiguous") \in AeWorkerType /\ To(w, "ambiguous").pc = "ambiguous" /\ To(w, "ambiguous").inv = inv
      BY <3>1, ToTyped
    <3> QED BY <3>2 DEF AeWorkerType
  <2> HIDE DEF y, inv
  <2>3. Goes(x, y)
    <3>1. y.pc \in Onward /\ y.pc \notin Publishing
      BY <2>2 DEF Onward, AeSteps, Claimless, Claiming, Publishing
    <3> QED BY <1>1, <1>2, <2>2, <3>1, Forward DEF inv
  <2>4. WorkerOK(y)
    BY <1>2, <2>2 DEF WorkerOK, Publishing, Preparing, Ending, Recovering, Executing
  <2> QED BY <1>1, <2>1, <2>3, <2>4, GoMoves DEF Go
<1>6. CASE Put(w, PutInvocation(Touch([inv EXCEPT !.status = "failed"])), Idle, Idle)
  <2> DEFINE new == Touch([inv EXCEPT !.status = "failed"])
  <2>1. Put(w, PutInvocation(new), Idle, Idle)
    BY SMTT(60), <1>6
  <2>2. new \in Invocations /\ MadeFrom(new, inv) /\ new.status # "succeeded"
    <3>1. PICK s \in Statuses : s = "failed"
      BY DEF Statuses, TerminalInvocation
    <3>2. inv.count \in 0..AeMaxAttempts /\ inv.count <= inv.count
      BY <1>0
    <3>3. new = Touch([inv EXCEPT !.status = s])
      BY <3>1
    <3> HIDE DEF new
    <3>4. new \in Invocations
      BY <1>0, <3>3, TouchTyped
    <3>5. MadeFrom(new, inv)
      BY <1>00, <3>2, <3>3, TouchMade
    <3>6. new.status = s
      BY <1>00, <3>3 DEF Touch, Invocations
    <3> QED BY <3>1, <3>4, <3>5, <3>6
  <2> HIDE DEF new
  <2> QED BY <1>1, <2>1, <2>2, LastPutMoves
<1>7. CASE n \in Runs /\ att.state \in {"failed", "denied"} /\
           LET next == Touch([inv EXCEPT !.count = n, !.status = IF stop THEN "failed" ELSE "running"])
           IN Put(w, PutInvocation(next), [To(w, "put early run") EXCEPT !.inv = next, !.n = n], Idle)
  <2> DEFINE s == IF stop THEN "failed" ELSE "running"
             next == Touch([inv EXCEPT !.count = n, !.status = s])
             y == [To(w, "put early run") EXCEPT !.inv = next, !.n = n]
  <2>1. Put(w, PutInvocation(next), y, Idle)
    BY <1>7
  <2>2. s \in Statuses /\ s # "succeeded" /\ n \in 0..AeMaxAttempts /\ inv.count <= n
    BY SMTT(60), <1>0, <1>7 DEF Statuses, TerminalInvocation, Runs
  <2> HIDE DEF s
  <2>3. next \in Invocations
    BY <1>0, <2>2, TouchTyped
  <2>4. MadeFrom(next, inv) /\ next.status = s /\ next.count = n
    <3>1. MadeFrom(next, inv)
      BY <1>00, <2>2, TouchMade
    <3>2. next.status = s
      BY <1>00, <2>2 DEF Touch, Invocations
    <3>3. next.count = n
      BY <1>00, <2>2 DEF Touch, Invocations
    <3> QED BY <3>1, <3>2, <3>3
  <2> HIDE DEF next
  <2>5. PICK c \in AeCommands : c = PutInvocation(next)
    BY <2>3, PutTyped
  <2>6. c.kind = "invocation" /\ c.inv = next /\ Put(w, c, y, Idle)
    BY <2>1, <2>5 DEF PutInvocation
  <2>7. y.pc = "put early run" /\ y.inv = next /\ y.n = n
    <3>1. "put early run" \in AeSteps
      BY DEF AeSteps
    <3>2. PICK z \in AeWorkerType : z = To(w, "put early run") /\ z.pc = "put early run"
      BY <3>1, ToTyped
    <3>3. PICK k : k = n
      OBVIOUS
    <3>4. [z EXCEPT !.inv = next, !.n = k].pc = z.pc /\ [z EXCEPT !.inv = next, !.n = k].inv = next
          /\ [z EXCEPT !.inv = next, !.n = k].n = k
      BY DEF AeWorkerType
    <3> QED BY <3>2, <3>3, <3>4
  <2>8. Shut(n)
    BY <1>7 DEF Shut
  <2>9. next.count <= next.count /\ next.status # "succeeded"
    BY <2>2, <2>4
  <2> HIDE DEF y
  <2>10. Goes(x, y)
    <3>1. Moves(x, y)
      BY <1>0, <1>1, <2>4, <2>7 DEF Moves, Claimless, Claiming, Publishing
    <3>2. Counts(x, y)
      BY <1>0, <1>1, <2>7, <2>8 DEF Counts
    <3> QED BY <3>1, <3>2 DEF Goes
  <2>11. WorkerOK(y)
    BY <2>4, <2>7, <2>9 DEF WorkerOK, Publishing, Preparing, Ending, Recovering, Executing
  <2>12. Goes(x, Idle) /\ WorkerOK(Idle) /\ Idle.pc = "idle"
    BY IdleFits DEF Idle
  <2>13. Sends(x, y, c) /\ Sends(x, Idle, c)
    BY <1>1, <2>4, <2>6, <2>7, <2>9, <2>12 DEF Sends, Claimless
  <2>14. Legal(c, Leaving(w, y)) /\ Legal(c, Leaving(w, Idle))
    BY <2>6, <2>9 DEF Legal
  <2>15. {y.pc, Idle.pc} \cap ({"begin", "no answer"} \cup Preparing) = {}
    BY <2>7, <2>12 DEF Preparing
  <2>16. x.pc \notin Claiming
    BY <1>1
  <2> HIDE DEF Idle, inv
  <2> QED BY <2>6, <2>10, <2>11, <2>12, <2>13, <2>14, <2>15, <2>16, PutMoves
<1>8. CASE n \in Runs /\ Go(w, [EndRun(w, "dropped") EXCEPT !.n = n])
  <2> DEFINE y == [EndRun(w, "dropped") EXCEPT !.n = n]
  <2>1. Go(w, y)
    BY <1>8
  <2>2. y.pc = "put run" /\ y.inv = inv /\ y.n = n /\ y.res = "dropped"
    <3>1. PICK z \in AeWorkerType : z = EndRun(w, "dropped") /\ z.pc = "put run" /\ z.res = "dropped"
      BY EndRunFields DEF RunResults
    <3>2. z.inv = inv
      BY <3>1, <1>0 DEF EndRun, AeWorkerType
    <3>3. PICK k : k = n
      OBVIOUS
    <3>4. [z EXCEPT !.n = k].pc = z.pc /\ [z EXCEPT !.n = k].inv = z.inv /\ [z EXCEPT !.n = k].n = k
          /\ [z EXCEPT !.n = k].res = z.res
      BY DEF AeWorkerType
    <3> QED BY <3>1, <3>2, <3>3, <3>4
  <2> HIDE DEF y
  <2>3. Goes(x, y)
    <3>1. y.pc \in Onward /\ y.pc \notin Publishing
      BY <2>2 DEF Onward, AeSteps, Claimless, Claiming, Publishing
    <3> QED BY <1>1, <1>2, <2>2, <3>1, Forward
  <2>4. WorkerOK(y)
    BY <1>2, <2>2 DEF WorkerOK, Publishing, Preparing, Ending, Recovering, Executing
  <2> HIDE DEF inv
  <2> QED BY <1>1, <2>1, <2>3, <2>4, GoMoves DEF Go
<1>9. CASE n \in Runs /\ Go(w, [To(w, "execute") EXCEPT !.n = n])
  <2> DEFINE y == [To(w, "execute") EXCEPT !.n = n]
  <2>1. Go(w, y)
    BY <1>9
  <2>2. y.pc = "execute" /\ y.inv = inv /\ y.n = n
    <3>1. "execute" \in AeSteps
      BY DEF AeSteps
    <3>2. PICK z \in AeWorkerType : z = To(w, "execute") /\ z.pc = "execute" /\ z.inv = inv
      BY <3>1, ToTyped
    <3>3. PICK k : k = n
      OBVIOUS
    <3>4. [z EXCEPT !.n = k].pc = z.pc /\ [z EXCEPT !.n = k].inv = z.inv /\ [z EXCEPT !.n = k].n = k
      BY DEF AeWorkerType
    <3> QED BY <3>2, <3>3, <3>4
  <2> HIDE DEF y
  <2>3. Goes(x, y)
    <3>1. Moves(x, y)
      BY <1>0, <1>1, <1>2, <2>2 DEF Moves, Claimless, Claiming, Publishing
    <3>2. Counts(x, y)
      BY <1>0, <1>1, <2>2 DEF Counts
    <3> QED BY <3>1, <3>2 DEF Goes
  <2>4. WorkerOK(y)
    BY <1>2, <2>2 DEF WorkerOK, Publishing, Preparing, Ending, Recovering, Executing
  <2> HIDE DEF inv
  <2> QED BY <1>1, <2>1, <2>3, <2>4, GoMoves DEF Go
<1> QED BY <1>3, <1>4, <1>5, <1>6, <1>7, <1>8, <1>9 DEF Claimed

\* The run whose attempt ended early, and runs whose outcome is unknown.
LEMMA UnresolvedSteps ==
    ASSUME AeInv, AeInv', ClaimInv, OutcomeInv, NEW w \in AeWorkers, EarlyRun(w) \/ Ambiguous(w)
    PROVE  Progress(w)
<1> DEFINE x == aeWorker[w]
           n == aeWorker[w].n
           inv == aeWorker[w].inv
<1>0. /\ x \in AeWorkerType /\ Sane(x) /\ inv \in Invocations /\ WorkerOK(x)
      /\ inv.count \in 0..AeMaxAttempts /\ n \in 0..AeMaxAttempts
      /\ x.pc \in {"put early run", "ambiguous", "fail"} /\ n \in Runs
  BY DEF AeInv, AeTypeOK, AeWorkerType, Invocations, OutcomeInv, EarlyRun, Ambiguous, At, Sane, BeforeRun
<1>00. inv \in Invocations /\ inv.count \in 0..AeMaxAttempts /\ n \in 0..AeMaxAttempts
  BY <1>0
<1>1. x.pc \notin Claimless \cup Claiming \cup Ending \cup Quiet
  BY <1>0 DEF Claimless, Claiming, Ending, Quiet, Recovering
<1>2. inv.status # "succeeded" /\ MadeFrom(inv, inv)
  BY <1>0, Fields DEF WorkerOK
<1>3. Goes(x, Idle) /\ WorkerOK(Idle)
  BY IdleFits
<1>4. CASE EarlyRun(w)
  <2> DEFINE stop == inv.status = "failed"
             s == IF stop THEN "failed" ELSE "retryable"
             ok == IF stop THEN Idle ELSE [To(w, "execute") EXCEPT !.n = @ + 1]
  <2>1. Put(w, PutRun(n, s), ok, Idle) /\ x.pc = "put early run"
    BY <1>4 DEF EarlyRun, At
  <2>2. s \in RunStates /\ s # "succeeded"
    BY DEF RunStates, OpenRun
  <2> HIDE DEF s
  <2>3. Goes(x, ok) /\ WorkerOK(ok)
    <3>1. CASE stop
      BY <3>1, <1>3
    <3>2. CASE ~stop
      <4>1. "execute" \in AeSteps
        BY DEF AeSteps
      <4>2. PICK z \in AeWorkerType : z = To(w, "execute") /\ z.pc = "execute" /\ z.inv = inv /\ z.n = n
        BY <4>1, ToTyped
      <4>3. PICK k : k = n + 1
        OBVIOUS
      <4>4. ok = [z EXCEPT !.n = k]
        BY <3>2, <4>2, <4>3
      <4>5. [z EXCEPT !.n = k].pc = z.pc /\ [z EXCEPT !.n = k].inv = z.inv /\ [z EXCEPT !.n = k].n = k
        BY DEF AeWorkerType
      <4>6. ok.pc = "execute" /\ ok.inv = inv /\ ok.n = n + 1
        BY <4>2, <4>3, <4>4, <4>5
      <4> HIDE DEF ok
      <4>7. Moves(x, ok)
        BY <1>1, <1>2, <4>6 DEF Moves, Claimless, Claiming, Publishing
      <4>8. Counts(x, ok)
        BY <1>1, <2>1, <4>6 DEF Counts
      <4>9. n = inv.count
        BY <1>0, <2>1 DEF WorkerOK
      <4>10. WorkerOK(ok)
        BY <1>2, <4>6, <4>9 DEF WorkerOK, Publishing, Preparing, Ending, Recovering, Executing
      <4> QED BY <4>7, <4>8, <4>10 DEF Goes
    <3> QED BY <3>1, <3>2
  <2> HIDE DEF ok, Idle
  <2> QED BY <1>0, <1>1, <1>3, <2>1, <2>2, <2>3, RunMoves
<1>5. CASE Ambiguous(w)
  <2> DEFINE y == To(w, "fail")
  <2>1. y.pc = "fail" /\ y.inv = inv
    <3>1. "fail" \in AeSteps
      BY DEF AeSteps
    <3> QED BY <3>1, Fields
  <2> HIDE DEF y
  <2>2. Goes(x, y)
    <3>1. y.pc \in Onward /\ y.pc \notin Publishing
      BY <2>1 DEF Onward, AeSteps, Claimless, Claiming, Publishing
    <3> QED BY <1>1, <1>2, <2>1, <3>1, Forward
  <2>3. WorkerOK(y)
    BY <1>2, <2>1 DEF WorkerOK, Publishing, Preparing, Ending, Recovering, Executing
  <2>4. CASE Go(w, Idle)
    BY <2>4, IdleMoves
  <2>5. CASE Go(w, y)
    BY <1>1, <2>2, <2>3, <2>5, GoMoves DEF Go
  <2>6. CASE Put(w, PutRun(n, "failed"), y, Idle)
    <3>1. PICK s \in RunStates : s = "failed"
      BY DEF RunStates
    <3>2. Put(w, PutRun(n, s), y, Idle)
      BY <2>6, <3>1
    <3> QED BY <1>0, <1>1, <1>3, <2>2, <2>3, <3>1, <3>2, RunMoves
  <2>7. CASE Put(w, PutInvocation(Touch([inv EXCEPT !.status = "failed",
                                                    !.count = IF n > @ THEN n ELSE @])), Idle, Idle)
    <3> DEFINE k == IF n > inv.count THEN n ELSE inv.count
               new == Touch([inv EXCEPT !.status = "failed", !.count = k])
    <3>1. Put(w, PutInvocation(new), Idle, Idle)
      BY <2>7
    <3>2. k \in 0..AeMaxAttempts /\ inv.count <= k
      <4>1. CASE n > inv.count
        BY <1>00, <4>1
      <4>2. CASE ~(n > inv.count)
        BY <1>00, <4>2
      <4> QED BY <4>1, <4>2
    <3> HIDE DEF k
    <3>3. PICK s \in Statuses : s = "failed"
      BY DEF Statuses, TerminalInvocation
    <3>4. new = Touch([inv EXCEPT !.status = s, !.count = k])
      BY <3>3
    <3> HIDE DEF new
    <3>5. new \in Invocations
      BY <1>0, <3>2, <3>4, TouchTyped
    <3>6. MadeFrom(new, inv)
      BY <1>00, <3>2, <3>4, TouchMade
    <3>7. new.status = s
      BY <1>00, <3>2, <3>4 DEF Touch, Invocations
    <3> QED BY <1>1, <3>1, <3>3, <3>5, <3>6, <3>7, LastPutMoves
  <2> QED BY <1>5, <2>4, <2>5, <2>6, <2>7 DEF Ambiguous, y
<1> QED BY <1>4, <1>5

\* A run that is closed but for nobody is closed but for anybody.
LEMMA FewerAsked ==
    ASSUME NEW n, NEW a, NEW V, AttemptOK(n, a, {})
    PROVE  AttemptOK(n, a, V)
BY DEF AttemptOK, Closed

\* A worker proposes a change of the attempt of its run.
LEMMA AttemptMoves ==
    ASSUME AeInv, AeInv', OutcomeInv, NEW w \in AeWorkers, aeWorker[w].pc \notin Claiming,
           NEW n \in Runs, n = aeWorker[w].n, NEW a \in Attempts,
           aeStore.att[n].state # "none" \/ aeWorker[w].pc = "begin",
           NEW ok, NEW bad, Put(w, PutAttempt(n, a), ok, bad),
           AttemptOK(n, a, Leaving(w, ok)), AttemptOK(n, a, Leaving(w, bad)),
           Goes(aeWorker[w], ok), Goes(aeWorker[w], bad), WorkerOK(bad),
           \/ WorkerOK(ok)
           \/ /\ AttemptAccepted(aeStore.att[n], a) /\ aeStore'.att[n] = a
              /\ aeStore'.out = aeStore.out /\ aeStore'.inv = aeStore.inv /\ Outputs' = Outputs
              /\ SomeOutput' <=> SomeOutput
              /\ ReceiptKept' <=> ReceiptKept
              => WorkerOK(ok)'
    PROVE  Progress(w)
<1>1. PICK c \in AeCommands : c = PutAttempt(n, a)
  BY PutTyped
<1>2. c.kind = "attempt" /\ c.n = n /\ c.att = a
  BY <1>1 DEF PutAttempt
<1>3. Put(w, c, ok, bad)
  BY <1>1
<1>4. Sends(aeWorker[w], ok, c) /\ Sends(aeWorker[w], bad, c)
  BY <1>2 DEF Sends
<1>5. Legal(c, Leaving(w, ok)) /\ Legal(c, Leaving(w, bad))
  BY <1>2 DEF Legal
<1>6. Accepted(c) /\ aeStore' = Applied(c) /\ aeLate' = aeLate =>
        /\ AttemptAccepted(aeStore.att[n], a) /\ aeStore'.att[n] = a
        /\ aeStore'.out = aeStore.out /\ aeStore'.inv = aeStore.inv /\ Outputs' = Outputs
        /\ SomeOutput' <=> SomeOutput
        /\ ReceiptKept' <=> ReceiptKept
  <2> SUFFICES ASSUME Accepted(c), aeStore' = Applied(c), aeLate' = aeLate
               PROVE  /\ AttemptAccepted(aeStore.att[n], a) /\ aeStore'.att[n] = a
                      /\ aeStore'.out = aeStore.out /\ aeStore'.inv = aeStore.inv /\ Outputs' = Outputs
                      /\ SomeOutput' <=> SomeOutput
                      /\ ReceiptKept' <=> ReceiptKept
    OBVIOUS
  <2>1. Writes(c)
    BY DEF Writes
  <2>2. aeStore \in AeStoreType
    BY DEF AeInv, AeTypeOK
  <2>3. AttemptAccepted(aeStore.att[n], a)
    BY <1>2 DEF Accepted
  <2>4. aeStore' = [aeStore EXCEPT !.att[n] = a]
    BY <1>2 DEF Applied
  <2>5. aeStore'.att[n] = a
    BY <2>2, <2>4 DEF AeStoreType
  <2> QED BY <1>2, <2>1, <2>3, <2>5, CommandLeaves
<1>7. WorkerOK(ok) \/ (Accepted(c) /\ aeStore' = Applied(c) /\ aeLate' = aeLate /\ aeWorker'[w] = ok => WorkerOK(ok)')
  BY <1>6
<1> QED BY <1>2, <1>3, <1>4, <1>5, <1>7, PutMoves

\* A worker records what became of the answer.
LEMMA RecordMoves ==
    ASSUME AeInv, AeInv', OutcomeInv, NEW w \in AeWorkers, aeWorker[w].pc \notin Claiming,
           aeWorker[w].n \in Runs, NEW d \in Dispositions, NEW ok, NEW bad, Record(w, d, ok, bad),
           d \in NotPublished /\ aeStore.att[aeWorker[w].n].state \in TerminalAttempt =>
              ~ReceiptKept \/ (Closed(aeWorker[w].n, Leaving(w, ok)) /\ Closed(aeWorker[w].n, Leaving(w, bad))),
           d = "published" => SomeOutput,
           Goes(aeWorker[w], ok), WorkerOK(ok), Goes(aeWorker[w], bad), WorkerOK(bad)
    PROVE  Progress(w)
<1> DEFINE n == aeWorker[w].n
           a == [aeStore.att[n] EXCEPT !.rec = @ + 1, !.disp = d]
<1>1. n \in Runs /\ aeStore.att[n] \in Attempts
  BY DEF AeInv, AeTypeOK, AeStoreType
<1>2. CASE Go(w, ok) \/ Go(w, bad)
  BY <1>2, GoMoves DEF Go
<1>3. CASE aeStore.att[n].state \in TerminalAttempt /\ Put(w, PutAttempt(n, a), ok, bad)
  <2>1. a \in Attempts /\ a.state = aeStore.att[n].state /\ a.disp = d
    <3> PICK b \in Attempts : b = aeStore.att[n]
      BY <1>1
    <3>1. [b EXCEPT !.rec = @ + 1, !.disp = d] \in Attempts
      BY AttemptTyped
    <3>2. [b EXCEPT !.rec = @ + 1, !.disp = d].state = b.state /\ [b EXCEPT !.rec = @ + 1, !.disp = d].disp = d
      BY DEF Attempts
    <3> QED BY <3>1, <3>2
  <2>2. a.state \in TerminalAttempt /\ aeStore.att[n].state # "none"
    BY <1>3, <2>1 DEF TerminalAttempt
  <2>3. Put(w, PutAttempt(n, a), ok, bad)
    BY <1>3
  <2> HIDE DEF a
  <2>4. AttemptOK(n, a, Leaving(w, ok)) /\ AttemptOK(n, a, Leaving(w, bad))
    BY <2>1, <2>2 DEF AttemptOK
  <2> QED BY <1>1, <2>1, <2>2, <2>3, <2>4, AttemptMoves
<1> QED BY <1>2, <1>3 DEF Record

\* The provider was not called, or its outcome is unknown.
LEMMA NoAnswerFits ==
    ASSUME AeInv, NEW w \in AeWorkers, aeWorker[w].pc \in {"begin"} \cup Preparing, WorkerOK(aeWorker[w]),
           NEW r \in {"failed", "error"}
    PROVE  Goes(aeWorker[w], NoAnswer(w, r)) /\ WorkerOK(NoAnswer(w, r))
<1> DEFINE x == aeWorker[w]
           y == NoAnswer(w, r)
<1>1. y.pc = "no answer" /\ y.inv = x.inv /\ y.n = x.n /\ MadeFrom(x.inv, x.inv)
  <2>1. r \in AeResults
    BY DEF AeResults, TerminalAttempt
  <2> QED BY <2>1, Fields
<1>2. x.pc \in {"begin"} \cup Preparing /\ WorkerOK(x)
  OBVIOUS
<1> HIDE DEF x, y
<1>3. Goes(x, y)
  BY <1>1, <1>2 DEF Goes, Moves, Counts, Claimless, Claiming, Publishing, Quiet, Ending, Recovering, Preparing
<1>4. x.n = x.inv.count + 1 /\ x.inv.status # "succeeded"
      /\ (aeStore.inv.tok = x.inv.tok => ~ReceiptKept \/ aeStore.out[x.n] = 0)
  BY <1>2 DEF WorkerOK, Executing
<1>5. WorkerOK(y)
  BY <1>1, <1>4 DEF WorkerOK, Publishing, Preparing, Ending, Recovering, Executing
<1> QED BY <1>3, <1>5 DEF x, y

\* The call of the provider is over, or was not made.
LEMMA EndAttemptFits ==
    ASSUME AeInv, NEW w \in AeWorkers, aeWorker[w].pc \in {"authorize", "refresh", "start", "provider"},
           WorkerOK(aeWorker[w]), NEW r \in TerminalAttempt, r = "succeeded" => aeWorker[w].pc = "provider"
    PROVE  Goes(aeWorker[w], EndAttempt(w, r)) /\ WorkerOK(EndAttempt(w, r))
<1> DEFINE x == aeWorker[w]
           y == EndAttempt(w, r)
<1>1. y.pc = "complete" /\ y.inv = x.inv /\ y.n = x.n /\ y.att = x.att /\ y.res = r /\ MadeFrom(x.inv, x.inv)
  <2>1. r \in AeResults
    BY DEF AeResults
  <2> QED BY <2>1, Fields
<1>2. x.pc \in {"authorize", "refresh", "start", "provider"} /\ WorkerOK(x) /\ (r = "succeeded" => x.pc = "provider")
  OBVIOUS
<1> HIDE DEF x, y
<1>3. Goes(x, y)
  BY <1>1, <1>2 DEF Goes, Moves, Counts, Claimless, Claiming, Publishing, Quiet, Ending, Recovering
<1>4. WorkerOK(y)
  BY <1>1, <1>2 DEF WorkerOK, Publishing, Preparing, Ending, Recovering, Executing
<1> QED BY <1>3, <1>4 DEF x, y

\* A worker moves to another step of the preparation of its call.
LEMMA PreparingFits ==
    ASSUME AeInv, NEW w \in AeWorkers, WorkerOK(aeWorker[w]), aeWorker[w].pc \in Preparing,
           NEW pc \in {"authorize", "refresh", "start"}, NEW att, att.disp = "none",
           att.state \notin TerminalAttempt, NEW y, y.pc = pc, y.inv = aeWorker[w].inv, y.n = aeWorker[w].n,
           y.att = att
    PROVE  Goes(aeWorker[w], y) /\ WorkerOK(y)
<1> DEFINE x == aeWorker[w]
<1>1. MadeFrom(x.inv, x.inv)
  BY Fields
<1>2. x.pc \in Preparing /\ WorkerOK(x)
  OBVIOUS
<1>3. y.pc \in {"authorize", "refresh", "start"} /\ y.inv = x.inv /\ y.n = x.n
      /\ y.att.disp = "none" /\ y.att.state \notin TerminalAttempt
  OBVIOUS
<1> HIDE DEF x
<1>4. Goes(x, y)
  BY <1>1, <1>2, <1>3 DEF Goes, Moves, Counts, Claimless, Claiming, Publishing, Quiet, Ending, Recovering, Preparing
<1>5. WorkerOK(y)
  BY <1>2, <1>3 DEF WorkerOK, Publishing, Preparing, Ending, Recovering, Executing
<1> QED BY <1>4, <1>5 DEF x

\* Under the current claim, a run without an output is closed but for its holder.
LEMMA OwnedCloses ==
    ASSUME AeInv, ClaimInv, NEW w \in AeWorkers, aeWorker[w].pc \notin Ending \cup Claimless,
           aeStore.inv.tok = aeWorker[w].inv.tok, NEW n \in Runs, aeStore.out[n] = 0,
           aeStore.att[n].state \in TerminalAttempt
    PROVE  Closed(n, {w})
<1>1. ASSUME NEW v \in AeWorkers \ {w}, aeWorker[v].pc \in Publishing PROVE Fenced(aeWorker[v].inv.tok)
  <2>1. aeWorker[v].pc \notin Claimless \cup Claiming
    BY <1>1 DEF Publishing, Claimless, Claiming
  <2>2. PassedOver(aeWorker[v].inv.tok) /\ aeWorker[v].inv.tok # 0
    BY <2>1 DEF ClaimInv, ClaimOK, PassedOver
  <2>3. aeWorker[v].inv.tok # aeWorker[w].inv.tok
    BY <2>2, <1>1 DEF ClaimInv, TokenInv
  <2> QED BY <2>2, <2>3 DEF PassedOver
<1>2. ASSUME NEW c \in Outputs PROVE Fenced(c.tok)
  <2>1. PassedOver(c.tok)
    BY DEF ClaimInv, TokenInv
  <2>2. c.tok # aeWorker[w].inv.tok
    BY DEF ClaimInv, ClaimOK
  <2> QED BY <2>1, <2>2 DEF PassedOver
<1> QED BY <1>1, <1>2 DEF Closed

\* Looking the output up before the provider is called.
LEMMA ExecuteSteps ==
    ASSUME AeInv, AeInv', OutcomeInv, NEW w \in AeWorkers, Execute(w)
    PROVE  Progress(w)
<1> DEFINE x == aeWorker[w]
           n == aeWorker[w].n
<1>0. /\ x.pc = "execute" /\ WorkerOK(x) /\ RecordsOK /\ Sane(x) /\ n \in Runs
      /\ aeStore.out[n] \in Nat
  BY DEF AeInv, AeTypeOK, AeStoreType, OutcomeInv, Execute, At, Sane, BeforeRun
<1>1. x.pc \in Executing /\ x.pc \notin Claimless \cup Claiming \cup Ending \cup Quiet
  BY <1>0 DEF Executing, Claimless, Claiming, Ending, Quiet, Recovering
<1>2. \A r \in {"error", "skipped"} : Goes(x, EndRun(w, r)) /\ WorkerOK(EndRun(w, r))
  <2>1. \A r \in {"error", "skipped"} : r \in AeResults /\ r # "succeeded"
    BY DEF AeResults
  <2> QED BY <1>0, <1>1, <2>1, EndFits
<1>3. CASE \E r \in {"error", "skipped"} : Go(w, EndRun(w, r))
  BY <1>1, <1>2, <1>3, GoMoves DEF Go
<1>4. CASE ReceiptFound /\ Record(w, "published", [To(w, "acknowledge") EXCEPT !.res = "skipped"], EndRun(w, "error"))
  <2> DEFINE ok == [To(w, "acknowledge") EXCEPT !.res = "skipped"]
  <2>1. SomeOutput
    BY <1>0, <1>4 DEF ReceiptFound, RecordsOK
  <2>2. ok.pc = "acknowledge" /\ ok.inv = x.inv /\ ok.n = n
    <3>1. "acknowledge" \in AeSteps
      BY DEF AeSteps
    <3>2. PICK z \in AeWorkerType : z = To(w, "acknowledge") /\ z.pc = "acknowledge" /\ z.inv = x.inv /\ z.n = n
      BY <3>1, ToTyped
    <3> QED BY <3>2 DEF AeWorkerType
  <2>3. Record(w, "published", ok, EndRun(w, "error"))
    BY <1>4
  <2> HIDE DEF ok
  <2>4. Goes(x, ok)
    <3>1. ok.pc \in Onward /\ ok.pc \notin Publishing
      BY <2>2 DEF Onward, AeSteps, Claimless, Claiming, Publishing
    <3>2. MadeFrom(x.inv, x.inv)
      BY Fields
    <3> QED BY <1>1, <2>2, <3>1, <3>2, Forward
  <2>5. WorkerOK(ok)
    BY <1>0, <2>1, <2>2 DEF WorkerOK, Publishing, Preparing, Ending, Recovering, Executing
  <2>6. "published" \in Dispositions /\ "published" \notin NotPublished
    BY DEF Dispositions, NotPublished
  <2> QED BY <1>0, <1>1, <1>2, <2>1, <2>3, <2>4, <2>5, <2>6, RecordMoves
<1>5. CASE ~ReceiptFound /\ Go(w, To(w, "begin"))
  <2> DEFINE y == To(w, "begin")
  <2>1. y.pc = "begin" /\ y.inv = x.inv /\ y.n = n /\ MadeFrom(x.inv, x.inv)
    <3>1. "begin" \in AeSteps
      BY DEF AeSteps
    <3> QED BY <3>1, Fields
  <2>2. Go(w, y)
    BY <1>5
  <2> HIDE DEF y
  <2>3. Goes(x, y)
    BY <1>0, <1>5, <2>1 DEF Goes, Moves, Counts, Claimless, Claiming, Publishing, Quiet, Ending, Recovering
  <2>4. ~ReceiptKept \/ aeStore.out[n] = 0
    <3>1. aeStore.receipt \in {"none", "expired"}
      BY <1>5 DEF ReceiptFound, AeInv, AeTypeOK, AeStoreType
    <3>2. aeStore.receipt = "none" => ~SomeOutput
      BY <1>0 DEF RecordsOK
    <3>3. ~SomeOutput => ~(aeStore.out[n] > 0)
      BY <1>0 DEF SomeOutput
    <3>4. ~(aeStore.out[n] > 0) => aeStore.out[n] = 0
      BY <1>0
    <3> QED BY <3>1, <3>2, <3>3, <3>4 DEF ReceiptKept
  <2>5. WorkerOK(y)
    BY <1>0, <2>1, <2>4 DEF WorkerOK, Publishing, Preparing, Ending, Recovering, Executing
  <2> QED BY <1>1, <2>2, <2>3, <2>5, GoMoves DEF Go
<1>6. CASE Go(w, EndRun(w, "skipped")) \/ Go(w, EndRun(w, "error"))
  BY <1>1, <1>2, <1>6, GoMoves DEF Go
<1> QED BY <1>3, <1>4, <1>5, <1>6 DEF Execute

\* Recording that there is no answer.
LEMMA NoAnswerSteps ==
    ASSUME AeInv, AeInv', ClaimInv, OutcomeInv, NEW w \in AeWorkers, RecordNoAnswer(w)
    PROVE  Progress(w)
<1> DEFINE x == aeWorker[w]
           n == aeWorker[w].n
           end == EndRun(w, aeWorker[w].res)
           d == IF Owned(w) THEN "not_published" ELSE Disowned
<1>0. /\ x.pc = "no answer" /\ WorkerOK(x) /\ RecordsOK /\ Sane(x) /\ n \in Runs
      /\ x.res \in {"failed", "error"}
  BY DEF OutcomeInv, AeInv, RecordNoAnswer, At, Sane, BeforeRun
<1>1. x.pc \in Executing /\ x.pc \notin Claimless \cup Claiming \cup Ending \cup Quiet
  BY <1>0 DEF Executing, Claimless, Claiming, Ending, Quiet, Recovering
<1>2. Goes(x, end) /\ WorkerOK(end) /\ end.pc = "put run"
  <2>1. x.res \in AeResults /\ x.res # "succeeded"
    BY <1>0 DEF AeResults, TerminalAttempt
  <2> QED BY <1>0, <1>1, <2>1, EndFits, Fields
<1>3. Record(w, d, end, end)
  BY DEF RecordNoAnswer
<1>4. d \in Dispositions /\ d # "published" /\ (d \in NotPublished => Owned(w))
  BY DEF Dispositions, NotPublished, Disowned
<1>5. Leaving(w, end) = {w}
  BY <1>2 DEF Leaving, Publishing
<1>6. d \in NotPublished /\ aeStore.att[n].state \in TerminalAttempt => ~ReceiptKept \/ Closed(n, {w})
  <2>1. Owned(w) => aeStore.inv.tok = x.inv.tok
    BY DEF Owned
  <2>2. aeStore.inv.tok = x.inv.tok => ~ReceiptKept \/ aeStore.out[n] = 0
    BY <1>0 DEF WorkerOK
  <2> QED BY <1>0, <1>1, <1>4, <2>1, <2>2, OwnedCloses
<1> HIDE DEF end, d
<1> QED BY <1>0, <1>1, <1>2, <1>3, <1>4, <1>5, <1>6, RecordMoves

\* Beginning the attempt, and the run.
LEMMA BeginSteps ==
    ASSUME AeInv, AeInv', OutcomeInv, NEW w \in AeWorkers, Begin(w)
    PROVE  Progress(w)
<1> DEFINE x == aeWorker[w]
           n == aeWorker[w].n
           att == aeStore.att[n]
           new == [NoAttempt EXCEPT !.state = "requested", !.rec = 1]
<1>0. /\ x.pc \in {"begin", "begin run"} /\ WorkerOK(x) /\ RecordsOK /\ Sane(x) /\ n \in Runs
      /\ att \in Attempts
  BY DEF AeInv, AeTypeOK, AeStoreType, OutcomeInv, Begin, At, Sane, BeforeRun
<1>1. /\ x.pc \in {"begin"} \cup Preparing
      /\ x.pc \notin Claimless \cup Claiming \cup Ending \cup Quiet \cup Publishing
  BY <1>0 DEF Preparing, Claimless, Claiming, Ending, Quiet, Recovering, Publishing
<1>2. \A r \in {"failed", "error"} : Goes(x, NoAnswer(w, r)) /\ WorkerOK(NoAnswer(w, r)) /\ NoAnswer(w, r).pc = "no answer"
  <2>1. \A r \in {"failed", "error"} : r \in AeResults
    BY DEF AeResults, TerminalAttempt
  <2>2. \A r \in {"failed", "error"} : Goes(x, NoAnswer(w, r)) /\ WorkerOK(NoAnswer(w, r))
    BY <1>0, <1>1, NoAnswerFits
  <2> QED BY <2>1, <2>2, Fields
<1>3. CASE Go(w, NoAnswer(w, "failed"))
  BY <1>1, <1>2, <1>3, GoMoves DEF Go
<1>4. ASSUME NEW y, y.pc = "begin run", y.inv = x.inv, y.n = n, x.pc = "begin"
      PROVE  /\ Goes(x, y)
             /\ (aeStore.inv.tok = x.inv.tok => ~ReceiptKept \/ aeStore.out[n] = 0)
             /\ x.n = x.inv.count + 1 /\ x.inv.status # "succeeded"
  <2>1. MadeFrom(x.inv, x.inv)
    BY Fields
  <2>2. Goes(x, y)
    BY <1>1, <1>4, <2>1 DEF Goes, Moves, Counts, Claimless, Claiming, Publishing, Quiet, Ending, Recovering
  <2>3. (aeStore.inv.tok = x.inv.tok => ~ReceiptKept \/ aeStore.out[n] = 0)
        /\ x.n = x.inv.count + 1 /\ x.inv.status # "succeeded"
    BY <1>0, <1>4 DEF WorkerOK, Executing
  <2> QED BY <2>2, <2>3
<1>5. CASE x.pc = "begin" /\ att.state \in {"requested", "authorized"} /\ Go(w, [To(w, "begin run") EXCEPT !.att = att])
  <2> DEFINE y == [To(w, "begin run") EXCEPT !.att = att]
  <2>1. Go(w, y)
    BY <1>5
  <2>0. y.pc = "begin run" /\ y.inv = x.inv /\ y.n = n /\ y.att = att
    <3>11. "begin run" \in AeSteps
      BY DEF AeSteps
    <3>12. PICK z \in AeWorkerType : z = To(w, "begin run") /\ z.pc = "begin run" /\ z.inv = x.inv /\ z.n = n
      BY <3>11, ToTyped
    <3>13. y = [z EXCEPT !.att = att]
      BY <3>12
    <3>14. [z EXCEPT !.att = att].pc = z.pc /\ [z EXCEPT !.att = att].inv = z.inv /\ [z EXCEPT !.att = att].n = z.n
          /\ [z EXCEPT !.att = att].att = att
      BY DEF AeWorkerType
    <3> QED BY <3>12, <3>13, <3>14
  <2>4. x.pc = "begin"
    BY <1>5
  <2> HIDE DEF y
  <2>2. /\ Goes(x, y) /\ y.n = n /\ y.inv = x.inv /\ y.pc = "begin run" /\ y.att = att
        /\ (aeStore.inv.tok = x.inv.tok => ~ReceiptKept \/ aeStore.out[n] = 0)
        /\ x.n = x.inv.count + 1 /\ x.inv.status # "succeeded"
    BY <1>4, <2>0, <2>4
  <2>3. att.disp = "none" /\ att.state \notin TerminalAttempt /\ att.state # "none"
    BY <1>0, <1>5 DEF RecordsOK, AttemptOK, TerminalAttempt
  <2>5. WorkerOK(y)
    BY <2>2, <2>3 DEF WorkerOK, Publishing, Preparing, Ending, Recovering, Executing
  <2> QED BY <1>1, <2>1, <2>2, <2>5, GoMoves DEF Go
<1>6. CASE /\ x.pc = "begin" /\ att.state = "none"
           /\ Put(w, PutAttempt(n, new), [To(w, "begin run") EXCEPT !.att = new], NoAnswer(w, "error"))
  <2>11. new \in Attempts /\ new.disp = "none" /\ new.state = "requested"
    BY DEF NoAttempt, Attempts, Provisional
  <2>9. PICK a \in Attempts : a = new /\ a.disp = "none" /\ a.state = "requested"
    BY <2>11
  <2>3. a \in Attempts /\ a.disp = "none" /\ a.state = "requested"
    BY <2>9
  <2>10. x.pc = "begin"
    BY <1>6
  <2>0. PICK y : y = [To(w, "begin run") EXCEPT !.att = a]
    OBVIOUS
  <2>1. Put(w, PutAttempt(n, a), y, NoAnswer(w, "error"))
    BY <1>6, <2>0, <2>9
  <2> HIDE DEF new
  <2>2. /\ Goes(x, y) /\ y.n = n /\ y.inv = x.inv /\ y.pc = "begin run" /\ y.att = a
        /\ (aeStore.inv.tok = x.inv.tok => ~ReceiptKept \/ aeStore.out[n] = 0)
        /\ x.n = x.inv.count + 1 /\ x.inv.status # "succeeded"
    <3>1. y.pc = "begin run" /\ y.inv = x.inv /\ y.n = n /\ y.att = a
      <4>11. "begin run" \in AeSteps
        BY DEF AeSteps
      <4>12. PICK z \in AeWorkerType : z = To(w, "begin run") /\ z.pc = "begin run" /\ z.inv = x.inv /\ z.n = n
        BY <4>11, ToTyped
      <4>13. y = [z EXCEPT !.att = a]
        BY <4>12, <2>0
      <4>14. [z EXCEPT !.att = a].pc = z.pc /\ [z EXCEPT !.att = a].inv = z.inv /\ [z EXCEPT !.att = a].n = z.n
            /\ [z EXCEPT !.att = a].att = a
        BY DEF AeWorkerType
      <4> QED BY <4>12, <4>13, <4>14
    <3> QED BY <1>4, <2>10, <3>1
  <2>4. \A V : AttemptOK(n, a, V)
    BY <2>3 DEF AttemptOK, NotPublished
  <2>5. /\ AttemptAccepted(aeStore.att[n], a) /\ aeStore'.att[n] = a
        /\ aeStore'.out = aeStore.out /\ aeStore'.inv = aeStore.inv /\ Outputs' = Outputs
        /\ SomeOutput' <=> SomeOutput
        /\ ReceiptKept' <=> ReceiptKept
        => WorkerOK(y)'
    <3> SUFFICES ASSUME aeStore'.att[n] = a, aeStore'.out = aeStore.out, aeStore'.inv = aeStore.inv,
                        ReceiptKept' <=> ReceiptKept
                 PROVE  WorkerOK(y)'
      OBVIOUS
    <3>1. /\ y.n = n /\ y.inv = x.inv /\ y.pc = "begin run" /\ y.att = a
      BY <2>2
    <3>2. aeStore'.att[y.n].state = "requested" /\ y.att.disp = "none" /\ y.att.state \notin TerminalAttempt
      BY <2>3, <3>1 DEF TerminalAttempt
    <3>3. aeStore'.inv.tok = y.inv.tok => ~ReceiptKept' \/ aeStore'.out[y.n] = 0
      BY <2>2, <3>1
    <3>4. y.n = y.inv.count + 1 /\ y.inv.status # "succeeded"
      BY <2>2, <3>1
    <3>5. WorkerOK(y)'
      BY <3>1, <3>2, <3>3, <3>4 DEF WorkerOK, Publishing, Preparing, Ending, Recovering, Executing
    <3> QED BY <3>5
  <2>6. x.pc = "begin" /\ x.pc \notin Claiming
    BY <1>1, <1>6
  <2>7. Goes(x, NoAnswer(w, "error")) /\ WorkerOK(NoAnswer(w, "error"))
    BY <1>2
  <2>8. Goes(x, y) /\ n = x.n
    BY <2>2
  <2> QED BY <1>0, <2>1, <2>3, <2>4, <2>5, <2>6, <2>7, <2>8, AttemptMoves
<1>7. CASE x.pc = "begin run" /\ Put(w, PutRun(n, "running"), To(w, "authorize"), NoAnswer(w, "error"))
  <2> DEFINE y == To(w, "authorize")
  <2>1. Put(w, PutRun(n, "running"), y, NoAnswer(w, "error"))
    BY <1>7
  <2>2. y.pc = "authorize" /\ y.inv = x.inv /\ y.n = n /\ y.att = x.att
    <3>1. "authorize" \in AeSteps
      BY DEF AeSteps
    <3> QED BY <3>1, Fields
  <2>3. x.pc \in Preparing /\ x.att.disp = "none" /\ x.att.state \notin TerminalAttempt
    BY <1>0, <1>7 DEF Preparing, WorkerOK
  <2> HIDE DEF y
  <2>4. Goes(x, y) /\ WorkerOK(y)
    BY <1>0, <2>2, <2>3, PreparingFits
  <2>5. PICK s \in RunStates : s = "running" /\ s # "succeeded"
    BY DEF RunStates, OpenRun
  <2>6. Put(w, PutRun(n, s), y, NoAnswer(w, "error"))
    BY <2>1, <2>5
  <2>7. Goes(x, NoAnswer(w, "error")) /\ WorkerOK(NoAnswer(w, "error"))
    BY <1>2
  <2> QED BY <1>0, <1>1, <2>4, <2>5, <2>6, <2>7, RunMoves
<1> QED BY <1>3, <1>5, <1>6, <1>7 DEF Begin, At

\* The hooks before the call of the provider.
LEMMA PrepareSteps ==
    ASSUME AeInv, AeInv', OutcomeInv, NEW w \in AeWorkers, Prepare(w)
    PROVE  Progress(w)
<1> DEFINE x == aeWorker[w]
           n == aeWorker[w].n
           att == aeWorker[w].att
<1>0. /\ x.pc \in {"authorize", "refresh", "start"} /\ WorkerOK(x) /\ RecordsOK /\ Sane(x) /\ n \in Runs
      /\ att \in Attempts
  BY DEF AeInv, AeTypeOK, AeWorkerType, OutcomeInv, Prepare, At, Sane, BeforeRun
<1>1. /\ x.pc \in Preparing
      /\ x.pc \notin Claimless \cup Claiming \cup Ending \cup Quiet \cup Publishing
  BY <1>0 DEF Preparing, Claimless, Claiming, Ending, Quiet, Recovering, Publishing
<1>2. att.disp = "none" /\ att.state \notin TerminalAttempt /\ aeStore.att[n].state # "none"
      /\ (aeStore.inv.tok = x.inv.tok => ~ReceiptKept \/ aeStore.out[n] = 0)
      /\ x.n = x.inv.count + 1 /\ x.inv.status # "succeeded"
  BY <1>0, <1>1 DEF WorkerOK, Executing
<1>3. \A r \in {"failed", "denied"} : Goes(x, EndAttempt(w, r)) /\ WorkerOK(EndAttempt(w, r))
  <2>1. \A r \in {"failed", "denied"} : r \in TerminalAttempt /\ r # "succeeded"
    BY DEF TerminalAttempt
  <2> QED BY <1>0, <2>1, EndAttemptFits
<1>4. CASE \E d \in {"failed", "denied"} : Go(w, EndAttempt(w, d))
  BY <1>1, <1>3, <1>4, GoMoves DEF Go
<1>5. CASE Go(w, To(w, "refresh"))
  <2> DEFINE y == To(w, "refresh")
  <2>1. y.pc = "refresh" /\ y.inv = x.inv /\ y.n = n /\ y.att = att
    <3>1. "refresh" \in AeSteps
      BY DEF AeSteps
    <3> QED BY <3>1, Fields
  <2>2. Go(w, y)
    BY <1>5
  <2> HIDE DEF y
  <2>3. Goes(x, y) /\ WorkerOK(y)
    BY <1>0, <1>1, <1>2, <2>1, PreparingFits
  <2> QED BY <1>1, <2>2, <2>3, GoMoves DEF Go
<1>6. ASSUME NEW state \in {"authorized", "started"}, NEW pc \in {"refresh", "start", "provider"},
             state = "started" <=> pc = "provider",
             Put(w, PutAttempt(n, Step(att, state)), [To(w, pc) EXCEPT !.att = Step(att, state)],
                 EndAttempt(w, "failed"))
      PROVE  Progress(w)
  <2> DEFINE new == Step(att, state)
  <2>0. PICK y : y = [To(w, pc) EXCEPT !.att = new]
    OBVIOUS
  <2>1. Put(w, PutAttempt(n, new), y, EndAttempt(w, "failed"))
    BY <1>6, <2>0
  <2>2. new \in Attempts /\ new.disp = "none" /\ new.state = state
    <3> PICK a \in Attempts : a = att
      BY <1>0
    <3>1. Step(a, state) \in Attempts
      BY AttemptTyped
    <3>2. Step(a, state).disp = a.disp /\ Step(a, state).state = state
      BY DEF Step, Attempts
    <3> QED BY <1>2, <3>1, <3>2
  <2> HIDE DEF new
  <2>3. y.pc = pc /\ y.inv = x.inv /\ y.n = n /\ y.att = new /\ MadeFrom(x.inv, x.inv)
    <3>1. pc \in AeSteps
      BY DEF AeSteps
    <3>2. PICK z \in AeWorkerType : z = To(w, pc) /\ z.pc = pc /\ z.inv = x.inv /\ z.n = n
      BY <3>1, ToTyped
    <3>3. y = [z EXCEPT !.att = new]
      BY <2>0, <3>2
    <3>4. [z EXCEPT !.att = new].pc = z.pc /\ [z EXCEPT !.att = new].inv = z.inv /\ [z EXCEPT !.att = new].n = z.n
          /\ [z EXCEPT !.att = new].att = new
      BY DEF AeWorkerType
    <3> QED BY <3>2, <3>3, <3>4, Fields
  <2>4. Goes(x, y)
    BY <1>1, <2>3 DEF Goes, Moves, Counts, Claimless, Claiming, Publishing, Quiet, Ending, Recovering
  <2>5. new.state \notin TerminalAttempt
    BY <2>2 DEF TerminalAttempt
  <2>6. \A V : AttemptOK(n, new, V)
    BY <2>2, <2>5 DEF AttemptOK, NotPublished
  <2>7. /\ AttemptAccepted(aeStore.att[n], new) /\ aeStore'.att[n] = new
        /\ aeStore'.out = aeStore.out /\ aeStore'.inv = aeStore.inv /\ Outputs' = Outputs
        /\ SomeOutput' <=> SomeOutput
        /\ ReceiptKept' <=> ReceiptKept
        => WorkerOK(y)'
    <3> SUFFICES ASSUME aeStore'.att[n] = new, aeStore'.out = aeStore.out, aeStore'.inv = aeStore.inv,
                        ReceiptKept' <=> ReceiptKept
                 PROVE  WorkerOK(y)'
      OBVIOUS
    <3>1. y.n = n /\ y.inv = x.inv /\ y.pc \in {"refresh", "start", "provider"} /\ y.att = new
          /\ (y.pc = "provider" => y.att.state = "started")
      BY <1>6, <2>2, <2>3
    <3>2. aeStore'.att[y.n] = y.att
      BY <3>1
    <3>3. y.att.state # "none" /\ y.att.disp = "none" /\ y.att.state \notin TerminalAttempt
      BY <2>2, <2>5, <3>1
    <3>4. aeStore'.inv.tok = y.inv.tok => ~ReceiptKept' \/ aeStore'.out[y.n] = 0
      BY <1>2, <3>1
    <3>5. y.n = y.inv.count + 1 /\ y.inv.status # "succeeded"
      BY <1>2, <3>1
    <3>6. WorkerOK(y)'
      BY <3>1, <3>2, <3>3, <3>4, <3>5 DEF WorkerOK, Publishing, Preparing, Ending, Recovering, Executing
    <3> QED BY <3>6
  <2>8. Goes(x, EndAttempt(w, "failed")) /\ WorkerOK(EndAttempt(w, "failed"))
    BY <1>3
  <2>9. n = x.n /\ aeStore.att[n].state # "none"
    BY <1>2
  <2> QED BY <1>0, <1>1, <2>1, <2>2, <2>4, <2>6, <2>7, <2>8, <2>9, AttemptMoves
<1> QED BY <1>4, <1>5, <1>6 DEF Prepare

\* The call.
LEMMA ProviderSteps ==
    ASSUME AeInv, AeInv', OutcomeInv, NEW w \in AeWorkers, Provider(w)
    PROVE  Progress(w)
<1> DEFINE x == aeWorker[w]
<1>0. x.pc = "provider" /\ WorkerOK(x)
  BY DEF OutcomeInv, Provider, At
<1>1. x.pc \notin Claiming
  BY <1>0 DEF Claiming
<1>2. \A r \in {"ambiguous", "succeeded"} : Goes(x, EndAttempt(w, r)) /\ WorkerOK(EndAttempt(w, r))
  <2>1. \A r \in {"ambiguous", "succeeded"} : r \in TerminalAttempt
    BY DEF TerminalAttempt
  <2> QED BY <1>0, <2>1, EndAttemptFits
<1>3. \E r \in {"ambiguous", "succeeded"} : aeWorker' = [aeWorker EXCEPT ![w] = EndAttempt(w, r)]
  BY DEF Provider, Go
<1>4. UNCHANGED <<aeStore, aeLate, aeToken, aeRequest>>
  BY DEF Provider, Go
<1> QED BY <1>1, <1>2, <1>3, <1>4, GoMoves

\* The end of the attempt: publication starts from an attempt that was recorded
\* as succeeded by this worker.
LEMMA CompleteSteps ==
    ASSUME AeInv, AeInv', OutcomeInv, NEW w \in AeWorkers, Complete(w)
    PROVE  Progress(w)
<1> DEFINE x == aeWorker[w]
           n == aeWorker[w].n
           att == aeWorker[w].att
           end == aeWorker[w].res
           y == [To(w, "publish") EXCEPT !.att = NoAttempt]
<1>0. /\ x.pc = "complete" /\ WorkerOK(x) /\ RecordsOK /\ Sane(x) /\ n \in Runs
      /\ att \in Attempts /\ aeStore \in AeStoreType /\ end \in TerminalAttempt
  BY DEF AeInv, AeTypeOK, AeWorkerType, OutcomeInv, Complete, At, Sane, BeforeRun
<1>1. /\ x.pc \in Preparing
      /\ x.pc \notin Claimless \cup Claiming \cup Ending \cup Quiet \cup Publishing
  BY <1>0 DEF Preparing, Claimless, Claiming, Ending, Quiet, Recovering, Publishing
<1>2. att.disp = "none" /\ aeStore.att[n].state # "none" /\ x.n = x.inv.count + 1 /\ x.inv.status # "succeeded"
  BY <1>0, <1>1 DEF WorkerOK, Executing
<1>3. PICK a \in Attempts : a = Step(att, end) /\ a.disp = "none" /\ a.state = end /\ a.rec = att.rec + 1
  <2> PICK b \in Attempts : b = att
    BY <1>0
  <2>1. Step(b, end) \in Attempts
    BY <1>0, AttemptTyped
  <2>2. Step(b, end).disp = b.disp /\ Step(b, end).state = end /\ Step(b, end).rec = b.rec + 1
    BY DEF Step, Attempts
  <2> QED BY <1>2, <2>1, <2>2
<1>4. PICK bad : /\ Put(w, PutAttempt(n, a), IF end = "succeeded" THEN y ELSE bad, bad)
                 /\ Goes(x, bad) /\ WorkerOK(bad)
  <2>1. PICK r \in {"failed", "error"} :
            Put(w, PutAttempt(n, a), IF end = "succeeded" THEN y ELSE NoAnswer(w, r), NoAnswer(w, r))
    BY <1>3 DEF Complete
  <2>2. Goes(x, NoAnswer(w, r)) /\ WorkerOK(NoAnswer(w, r))
    BY <1>0, <1>1, NoAnswerFits
  <2> HIDE DEF y
  <2> QED BY <2>1, <2>2
<1>5. \A V : AttemptOK(n, a, V)
  BY <1>0, <1>3 DEF AttemptOK, NotPublished
<1>6. CASE Put(w, PutAttempt(n, a), bad, bad)
  <2> HIDE DEF y, end
  <2> QED BY <1>0, <1>1, <1>2, <1>3, <1>4, <1>5, <1>6, AttemptMoves
<1>7. CASE end = "succeeded" /\ Accepted(PutAttempt(n, a)) /\ Put(w, PutAttempt(n, a), y, bad)
  <2>1. AttemptAccepted(aeStore.att[n], a)
    <3> PICK c : c = PutAttempt(n, a)
      OBVIOUS
    <3>1. c.kind = "attempt" /\ c.n = n /\ c.att = a
      BY DEF PutAttempt
    <3>2. Accepted(c)
      BY <1>7
    <3> QED BY <3>1, <3>2 DEF Accepted
  <2>2. aeStore.att[n].state = "started"
    <3>1. att.state = "started"
          /\ (\/ aeStore.att[n] = att
              \/ aeStore.att[n].state \in TerminalAttempt /\ att.rec < aeStore.att[n].rec)
      BY <1>0, <1>7 DEF WorkerOK
    <3>2. a.rec = aeStore.att[n].rec + 1 /\ a.rec = att.rec + 1
      BY <1>3, <2>1 DEF AttemptAccepted
    <3>3. att.rec \in Nat /\ aeStore.att[n].rec \in Nat
      BY <1>0 DEF Attempts, AeStoreType
    <3>4. ~(att.rec < aeStore.att[n].rec)
      BY <3>2, <3>3
    <3> QED BY <3>1, <3>4
  <2>3. aeStore.out[n] = 0
    <3>1. aeStore.out[n] \in Nat
      BY <1>0 DEF AeStoreType
    <3>2. ~(aeStore.out[n] > 0)
      BY <1>0, <2>2 DEF RecordsOK
    <3> QED BY <3>1, <3>2
  <2>4. \A c \in Outputs : c.n # n
    <3>1. \A c \in Outputs : Legal(c, {}) /\ c.kind = "output"
      BY DEF Outputs, Flying, OutcomeInv
    <3> QED BY <2>2, <3>1 DEF Legal
  <2>5. PICK z : z = y
    OBVIOUS
  <2>6. z.pc = "publish" /\ z.inv = x.inv /\ z.n = n /\ MadeFrom(x.inv, x.inv)
    <3>1. "publish" \in AeSteps
      BY DEF AeSteps
    <3>2. PICK u \in AeWorkerType : u = To(w, "publish") /\ u.pc = "publish" /\ u.inv = x.inv /\ u.n = n
      BY <3>1, ToTyped
    <3> QED BY <2>5, <3>2, Fields DEF AeWorkerType
  <2>7. Goes(x, z)
    BY <1>1, <2>2, <2>6 DEF Goes, Moves, Counts, Claimless, Claiming, Publishing, Quiet, Ending, Recovering
  <2>8. /\ AttemptAccepted(aeStore.att[n], a) /\ aeStore'.att[n] = a
        /\ aeStore'.out = aeStore.out /\ aeStore'.inv = aeStore.inv /\ Outputs' = Outputs
        /\ SomeOutput' <=> SomeOutput
        /\ ReceiptKept' <=> ReceiptKept
        => WorkerOK(z)'
    <3> SUFFICES ASSUME aeStore'.att[n] = a, aeStore'.out = aeStore.out, Outputs' = Outputs
                 PROVE  WorkerOK(z)'
      OBVIOUS
    <3>1. aeStore'.att[z.n].state = "succeeded"
      BY <1>3, <1>7, <2>6
    <3>2. aeStore'.out[z.n] = 0 /\ \A c \in Outputs' : c.n # z.n
      BY <2>3, <2>4, <2>6
    <3>3. z.n = z.inv.count + 1 /\ z.inv.status # "succeeded"
      BY <1>2, <2>6
    <3> QED BY <2>6, <3>1, <3>2, <3>3 DEF WorkerOK, Publishing, Preparing, Ending, Recovering, Executing
  <2>9. Put(w, PutAttempt(n, a), z, bad)
    BY <1>7, <2>5
  <2> HIDE DEF y, end
  <2> QED BY <1>0, <1>1, <1>2, <1>3, <1>4, <1>5, <2>7, <2>8, <2>9, AttemptMoves
<1>8. CASE end = "succeeded" /\ ~Accepted(PutAttempt(n, a)) /\ Put(w, PutAttempt(n, a), y, bad)
  <2>1. Put(w, PutAttempt(n, a), bad, bad)
    BY <1>8 DEF Put
  <2> QED BY <1>6, <2>1
<1> HIDE DEF y
<1> QED BY <1>4, <1>6, <1>7, <1>8

\* The worker that publishes a run is the only one: the run is closed without it.
LEMMA PublisherCloses ==
    ASSUME OutcomeInv, NEW w \in AeWorkers, aeWorker[w].pc \in Publishing
    PROVE  Closed(aeWorker[w].n, {w})
BY DEF OutcomeInv, OnePublisher, WorkerOK, Closed, TerminalAttempt

\* A worker stays in the publication of its run.
LEMMA PublishingFits ==
    ASSUME AeInv, NEW w \in AeWorkers, WorkerOK(aeWorker[w]), aeWorker[w].pc \in Publishing,
           NEW y, y.pc \in Publishing, MadeFrom(y.inv, aeWorker[w].inv), y.inv.count = aeWorker[w].inv.count,
           y.inv.status = aeWorker[w].inv.status, y.n = aeWorker[w].n
    PROVE  Goes(aeWorker[w], y) /\ WorkerOK(y)
<1> DEFINE x == aeWorker[w]
<1>2. x.pc \in Publishing /\ WorkerOK(x)
  OBVIOUS
<1>3. y.pc \in Publishing /\ MadeFrom(y.inv, x.inv) /\ y.inv.count = x.inv.count /\ y.inv.status = x.inv.status /\ y.n = x.n
  OBVIOUS
<1> HIDE DEF x
<1>4. Goes(x, y)
  BY <1>2, <1>3 DEF Goes, Moves, Counts, Claimless, Claiming, Publishing, Quiet, Ending, Recovering
<1>5. WorkerOK(y)
  <2>1. x.n = x.inv.count + 1 /\ x.inv.status # "succeeded" /\ aeStore.att[x.n].state = "succeeded" /\ aeStore.out[x.n] = 0
        /\ \A c \in Outputs : c.n # x.n
    BY <1>2 DEF WorkerOK, Executing
  <2> QED BY <1>3, <2>1 DEF WorkerOK, Publishing, Preparing, Ending, Recovering, Executing
<1> QED BY <1>4, <1>5 DEF x

\* A worker that publishes records a disposition other than "published" and goes
\* on, or ends its run.
LEMMA PublisherRecords ==
    ASSUME AeInv, AeInv', OutcomeInv, NEW w \in AeWorkers, aeWorker[w].pc \in Publishing,
           NEW d \in Dispositions, d # "published", NEW ok, NEW r \in AeResults, r # "succeeded",
           Record(w, d, ok, EndRun(w, r)), Goes(aeWorker[w], ok), WorkerOK(ok),
           d \in NotPublished => ok.pc \notin Publishing
    PROVE  Progress(w)
<1>1. WorkerOK(aeWorker[w]) /\ Sane(aeWorker[w]) /\ aeWorker[w].pc \in Executing
      /\ aeWorker[w].pc \notin Claiming
  BY DEF OutcomeInv, AeInv, Executing, Publishing, Claiming
<1>2. aeWorker[w].n \in Runs
  BY <1>1 DEF Sane, BeforeRun, Publishing
<1>3. Goes(aeWorker[w], EndRun(w, r)) /\ WorkerOK(EndRun(w, r)) /\ EndRun(w, r).pc = "put run"
  BY <1>1, EndFits, Fields
<1>4. Closed(aeWorker[w].n, {w})
  BY PublisherCloses
<1>5. Leaving(w, EndRun(w, r)) = {w} /\ (d \in NotPublished => Leaving(w, ok) = {w})
  BY <1>3 DEF Leaving, Publishing
<1> QED BY <1>1, <1>2, <1>3, <1>4, <1>5, RecordMoves

\* A worker that publishes goes to another step of the publication, or ends.
LEMMA PublishingGoes ==
    ASSUME AeInv, AeInv', OutcomeInv, NEW w \in AeWorkers, aeWorker[w].pc \in Publishing
    PROVE  /\ \A pc \in Publishing : Goes(aeWorker[w], To(w, pc)) /\ WorkerOK(To(w, pc)) /\ To(w, pc).pc = pc
           /\ \A pc \in Publishing : Go(w, To(w, pc)) => Progress(w)
           /\ \A r \in AeResults \ {"succeeded"} :
                 Goes(aeWorker[w], EndRun(w, r)) /\ WorkerOK(EndRun(w, r)) /\ EndRun(w, r).pc = "put run"
           /\ \A r \in AeResults \ {"succeeded"} : Go(w, EndRun(w, r)) => Progress(w)
<1>1. /\ WorkerOK(aeWorker[w]) /\ aeWorker[w].pc \in Executing /\ aeWorker[w].pc \notin Claiming
      /\ aeWorker[w].inv \in Invocations
  BY Fields DEF OutcomeInv, Executing, Publishing, Claiming
<1>2. ASSUME NEW pc \in Publishing
      PROVE  Goes(aeWorker[w], To(w, pc)) /\ WorkerOK(To(w, pc)) /\ To(w, pc).pc = pc
  <2>1. pc \in AeSteps
    BY DEF Publishing, AeSteps
  <2>2. To(w, pc).pc = pc /\ To(w, pc).inv = aeWorker[w].inv /\ To(w, pc).n = aeWorker[w].n
        /\ MadeFrom(aeWorker[w].inv, aeWorker[w].inv)
    BY <2>1, Fields
  <2> QED BY <1>1, <2>2, PublishingFits
<1>3. ASSUME NEW r \in AeResults \ {"succeeded"}
      PROVE  Goes(aeWorker[w], EndRun(w, r)) /\ WorkerOK(EndRun(w, r)) /\ EndRun(w, r).pc = "put run"
  BY <1>1, EndFits, Fields
<1>4. ASSUME NEW y, Goes(aeWorker[w], y), WorkerOK(y), Go(w, y) PROVE Progress(w)
  BY <1>1, <1>4, GoMoves DEF Go
<1> QED BY <1>2, <1>3, <1>4

\* What a worker that publishes may record and end with.
LEMMA PublishSteps ==
    ASSUME AeInv, AeInv', OutcomeInv, NEW w \in AeWorkers, Publish(w)
    PROVE  Progress(w)
<1>0. aeWorker[w].pc \in Publishing
  BY DEF Publish, At, Publishing
<1>1. {"error", "reconcile"} \subseteq AeResults \ {"succeeded"}
  BY DEF AeResults
<1>2. {"not_published", "publication_pending"} \subseteq Dispositions \ {"published"}
  BY DEF Dispositions, NotPublished, Provisional
<1>3. CASE \E r \in {"error", "reconcile"} : Record(w, "not_published", EndRun(w, r), EndRun(w, r))
  <2>1. PICK r \in {"error", "reconcile"} : Record(w, "not_published", EndRun(w, r), EndRun(w, r))
    BY <1>3
  <2>2. Goes(aeWorker[w], EndRun(w, r)) /\ WorkerOK(EndRun(w, r)) /\ EndRun(w, r).pc \notin Publishing
    BY <1>0, <1>1, PublishingGoes DEF Publishing
  <2> QED BY <1>0, <1>1, <1>2, <2>1, <2>2, PublisherRecords
<1>4. CASE Record(w, "publication_pending", To(w, "check"), EndRun(w, "reconcile"))
  <2>1. "check" \in Publishing /\ "publication_pending" \notin NotPublished
    BY DEF Publishing, NotPublished
  <2>2. Goes(aeWorker[w], To(w, "check")) /\ WorkerOK(To(w, "check"))
    BY <1>0, <2>1, PublishingGoes
  <2> QED BY <1>0, <1>1, <1>2, <1>4, <2>1, <2>2, PublisherRecords
<1> QED BY <1>3, <1>4 DEF Publish

\* The claim is renewed, or it is lost.
LEMMA RenewSteps ==
    ASSUME AeInv, AeInv', OutcomeInv, NEW w \in AeWorkers, aeWorker[w].pc \in Publishing,
           NEW next \in {"probe", "commit"}, Renew(w, next)
    PROVE  Progress(w)
<1> DEFINE x == aeWorker[w]
           inv == Touch(aeWorker[w].inv)
           y == [To(w, next) EXCEPT !.inv = inv]
<1>0. x.inv \in Invocations /\ WorkerOK(x) /\ "reconcile" \in AeResults \ {"succeeded"} /\ x.inv.count \in 0..AeMaxAttempts
  BY Fields DEF OutcomeInv, AeResults, Invocations
<1>1. /\ x.pc \notin Claimless \cup Claiming \cup Ending /\ x.inv.status # "succeeded"
  BY <1>0 DEF Publishing, Claimless, Claiming, Ending, WorkerOK
<1>2. CASE Go(w, EndRun(w, "reconcile"))
  BY <1>0, <1>2, PublishingGoes
<1>3. CASE Put(w, PutInvocation(inv), y, EndRun(w, "reconcile"))
  <2>1. inv \in Invocations /\ MadeFrom(inv, x.inv) /\ inv.count = x.inv.count /\ inv.status = x.inv.status
    <3>1. \A i \in Invocations : Touch(i) \in Invocations /\ Touch(i).count = i.count /\ Touch(i).status = i.status
                                /\ Touch(i).tok = i.tok /\ Touch(i).ver = i.ver /\ i.count <= i.count
      BY DEF Touch, Invocations
    <3> QED BY <1>0, <3>1 DEF MadeFrom
  <2>2. Put(w, PutInvocation(inv), y, EndRun(w, "reconcile"))
    BY <1>3
  <2> HIDE DEF inv
  <2>3. y.pc = next /\ y.inv = inv /\ y.n = x.n
    <3>1. next \in AeSteps
      BY DEF AeSteps
    <3>2. PICK z \in AeWorkerType : z = To(w, next) /\ z.pc = next /\ z.n = x.n
      BY <3>1, ToTyped
    <3> QED BY <3>2 DEF AeWorkerType
  <2>4. PICK c \in AeCommands : c = PutInvocation(inv)
    BY <2>1, PutTyped
  <2>5. c.kind = "invocation" /\ c.inv = inv
    BY <2>4 DEF PutInvocation
  <2>6. Put(w, c, y, EndRun(w, "reconcile"))
    BY <2>2, <2>4
  <2> HIDE DEF y
  <2>7. Goes(x, y) /\ WorkerOK(y)
    <3>1. y.pc \in Publishing
      BY <2>3 DEF Publishing
    <3> QED BY <1>0, <2>1, <2>3, <3>1, PublishingFits
  <2> PICK bad : bad = EndRun(w, "reconcile")
    OBVIOUS
  <2>8. Goes(x, bad) /\ WorkerOK(bad) /\ bad.pc = "put run" /\ bad.inv = x.inv
    BY <1>0, PublishingGoes, Fields
  <2>9. inv.count <= y.inv.count /\ inv.count <= bad.inv.count
    <3>1. inv.count = x.inv.count /\ y.inv.count = x.inv.count /\ bad.inv.count = x.inv.count
      BY <2>1, <2>3, <2>8
    <3>2. x.inv.count <= x.inv.count
      BY <2>1 DEF MadeFrom
    <3> QED BY <3>1, <3>2
  <2>10. Sends(x, y, c) /\ Sends(x, bad, c)
    BY <1>1, <2>1, <2>5, <2>9 DEF Sends
  <2>11. Legal(c, Leaving(w, y)) /\ Legal(c, Leaving(w, bad))
    BY <1>1, <2>1, <2>5 DEF Legal
  <2>12. {y.pc, bad.pc} \cap ({"begin", "no answer"} \cup Preparing) = {}
    BY <2>3, <2>8 DEF Preparing
  <2>13. c.kind # "output" /\ Put(w, c, y, bad) /\ x.pc \notin Claiming
    BY <1>1, <2>5, <2>6
  <2> QED BY <2>7, <2>8, <2>10, <2>11, <2>12, <2>13, PutMoves
<1> QED BY <1>2, <1>3 DEF Renew

\* Publication is given up.
LEMMA SuppressSteps ==
    ASSUME AeInv, AeInv', OutcomeInv, NEW w \in AeWorkers, aeWorker[w].pc \in Publishing, Suppress(w)
    PROVE  Progress(w)
<1>1. "reconcile" \in AeResults \ {"succeeded"} /\ "not_published" \in Dispositions \ {"published"}
  BY DEF AeResults, Dispositions, NotPublished
<1>2. Goes(aeWorker[w], EndRun(w, "reconcile")) /\ WorkerOK(EndRun(w, "reconcile")) /\ EndRun(w, "reconcile").pc \notin Publishing
  BY <1>1, PublishingGoes DEF Publishing
<1> QED BY <1>1, <1>2, PublisherRecords DEF Suppress

\* The output itself: it is applied under the claim of the worker, or refused,
\* or lost, or it stays in flight while the worker goes on to end its run.
LEMMA OutputMoves ==
    ASSUME AeInv, AeInv', ClaimInv, OutcomeInv, NEW w \in AeWorkers, aeWorker[w].pc = "commit",
           Put(w, [kind |-> "output", n |-> aeWorker[w].n, tok |-> aeWorker[w].inv.tok],
               [To(w, "committed") EXCEPT !.res = "succeeded"], EndRun(w, "reconcile"))
    PROVE  Progress(w)
<1> DEFINE x == aeWorker[w]
           n == aeWorker[w].n
<1>0. /\ x.pc \in Publishing /\ WorkerOK(x) /\ Sane(x) /\ n \in Runs /\ RecordsOK /\ ClaimOK(w)
      /\ x.inv \in Invocations /\ aeStore \in AeStoreType /\ MadeFrom(x.inv, x.inv)
      /\ aeWorker \in [AeWorkers -> AeWorkerType] /\ aeWorker' \in [AeWorkers -> AeWorkerType]
  BY Fields DEF AeInv, AeTypeOK, OutcomeInv, ClaimInv, Publishing, Sane, BeforeRun
<1>1. x.pc \notin Claimless \cup Claiming \cup Ending \cup Quiet
  BY DEF Claimless, Claiming, Ending, Quiet, Recovering
<1>2. /\ aeStore.att[n].state = "succeeded" /\ aeStore.out[n] = 0 /\ x.n = x.inv.count + 1
      /\ x.inv.status # "succeeded"
  BY <1>0 DEF WorkerOK, Executing, Publishing
<1>3. PICK c \in AeCommands : c = [kind |-> "output", n |-> n, tok |-> x.inv.tok]
  <2>1. x.inv.tok \in 0..AeMaxClaims
    BY <1>0 DEF Invocations
  <2> QED BY <1>0, <2>1, PutTyped
<1>4. c.kind = "output" /\ c.n = n /\ c.tok = x.inv.tok
  BY <1>3
<1>5. PICK ok : ok = [To(w, "committed") EXCEPT !.res = "succeeded"]
  OBVIOUS
<1>6. PICK bad : bad = EndRun(w, "reconcile")
  OBVIOUS
<1>7. Put(w, c, ok, bad)
  BY <1>3, <1>5, <1>6
<1>8. ok.pc = "committed" /\ ok.inv = x.inv /\ ok.n = n
  <2>1. "committed" \in AeSteps
    BY DEF AeSteps
  <2>2. PICK z \in AeWorkerType : z = To(w, "committed") /\ z.pc = "committed" /\ z.inv = x.inv /\ z.n = n
    BY <2>1, ToTyped
  <2> QED BY <1>5, <2>2 DEF AeWorkerType
<1>9. Goes(x, bad) /\ bad.pc = "put run" /\ bad.inv = x.inv /\ bad.n = n /\ bad.res = "reconcile"
  <2>1. "reconcile" \in AeResults \ {"succeeded"}
    BY DEF AeResults
  <2> QED BY <1>0, <1>6, <2>1, PublishingGoes, Fields
<1>10. Goes(x, ok)
  <2>1. ok.pc \in Onward /\ ok.pc \notin Publishing
    BY <1>8 DEF Onward, AeSteps, Claimless, Claiming, Publishing
  <2> QED BY <1>0, <1>1, <1>8, <2>1, Forward
<1>11. \A V : Legal(c, V)
  BY <1>2, <1>4 DEF Legal
<1>12. c \notin aeLate
  <2>1. c \in aeLate => c \in Outputs
    BY <1>4 DEF Outputs
  <2> QED BY <1>0, <1>1, <1>4, <2>1 DEF ClaimOK
<1>13. ASSUME aeWorker' = [aeWorker EXCEPT ![w] = bad], UNCHANGED <<aeStore, aeToken, aeRequest>>,
              aeLate' \in {aeLate, aeLate \cup {c}}
       PROVE  Progress(w)
  <2>1. WorkerOK(bad)'
    BY <1>2, <1>9 DEF WorkerOK, Publishing, Preparing, Ending, Recovering, Executing
  <2>2. Sends(x, bad, c)
    BY <1>4, <1>9 DEF Sends, Publishing, Ending
  <2>3. aeWorker'[w] = bad
    BY <1>0, <1>13
  <2>4. bad \in AeWorkerType
    BY <1>0, <2>3
  <2>5. WorkerMoves(w, bad, c)
    BY <1>1, <1>9, <1>11, <1>13, <2>1, <2>2 DEF WorkerMoves, Writes, Goes
  <2> QED BY <2>4, <2>5 DEF Progress
<1>14. ASSUME Accepted(c), aeStore' = Applied(c), aeWorker' = [aeWorker EXCEPT ![w] = ok], aeLate' = aeLate,
              UNCHANGED <<aeToken, aeRequest>>
       PROVE  Progress(w)
  <2>0. Writes(c)
    BY <1>14 DEF Writes
  <2>1. SomeOutput'
    <3>1. CASE ReceiptFound
      <4>1. SomeOutput
        BY <1>0, <3>1 DEF ReceiptFound, RecordsOK
      <4> QED BY <1>0, <2>0, <4>1, CommandDrifts DEF Drift
    <3>2. CASE ~ReceiptFound
      <4>1. aeStore' = [aeStore EXCEPT !.out[n] = @ + 1, !.receipt = "retained"]
        BY <1>4, <1>14, <3>2 DEF Applied
      <4>2. aeStore'.out[n] = 1
        BY <1>0, <1>2, <4>1 DEF AeStoreType
      <4> QED BY <1>0, <4>2 DEF SomeOutput
    <3> QED BY <3>1, <3>2
  <2>2. WorkerOK(ok)'
    BY <1>2, <1>8, <2>1 DEF WorkerOK, Publishing, Preparing, Ending, Recovering, Executing
  <2>3. Sends(x, ok, c)
    BY <1>4, <1>8, <1>12, <1>14 DEF Sends, Publishing
  <2>4. aeWorker'[w] = ok
    BY <1>0, <1>14
  <2>5. ok \in AeWorkerType
    BY <1>0, <2>4
  <2>6. WorkerMoves(w, ok, c)
    BY <1>1, <1>10, <1>11, <1>14, <2>0, <2>2, <2>3 DEF WorkerMoves, Goes
  <2> QED BY <2>5, <2>6 DEF Progress
<1> QED BY <1>7, <1>13, <1>14 DEF Put

\* The commit of the output, with its checks and retries.
LEMMA CommitSteps ==
    ASSUME AeInv, AeInv', ClaimInv, OutcomeInv, NEW w \in AeWorkers, CommitOutput(w)
    PROVE  Progress(w)
<1> DEFINE x == aeWorker[w]
<1>0. /\ x.pc \in {"check", "probe", "commit"} /\ WorkerOK(x) /\ RecordsOK /\ x.inv \in Invocations
      /\ MadeFrom(x.inv, x.inv)
  BY Fields DEF OutcomeInv, CommitOutput, At
<1>1. x.pc \in Publishing
  BY <1>0 DEF Publishing
<1>2. CASE \E next \in {"probe", "commit"} : Renew(w, next)
  BY <1>1, <1>2, RenewSteps
<1>3. CASE Suppress(w)
  BY <1>1, <1>3, SuppressSteps
<1>4. CASE ReceiptFound /\ Go(w, [To(w, "committed") EXCEPT !.res = "succeeded"])
  <2>1. SomeOutput
    BY <1>0, <1>4 DEF ReceiptFound, RecordsOK
  <2>2. PICK y : y = [To(w, "committed") EXCEPT !.res = "succeeded"]
    OBVIOUS
  <2>3. y.pc = "committed" /\ y.inv = x.inv /\ y.n = x.n
    <3>1. "committed" \in AeSteps
      BY DEF AeSteps
    <3>2. PICK z \in AeWorkerType : z = To(w, "committed") /\ z.pc = "committed" /\ z.inv = x.inv /\ z.n = x.n
      BY <3>1, ToTyped
    <3> QED BY <2>2, <3>2 DEF AeWorkerType
  <2>4. x.pc \notin Claimless \cup Claiming \cup Ending \cup Quiet
    BY <1>0 DEF Claimless, Claiming, Ending, Quiet, Recovering
  <2>5. Goes(x, y)
    <3>1. y.pc \in Onward /\ y.pc \notin Publishing
      BY <2>3 DEF Onward, AeSteps, Claimless, Claiming, Publishing
    <3> QED BY <1>0, <2>3, <2>4, <3>1, Forward
  <2>6. x.n = x.inv.count + 1 /\ x.inv.status # "succeeded"
    BY <1>0, <1>1 DEF WorkerOK, Executing
  <2>7. WorkerOK(y)
    BY <2>1, <2>3, <2>6 DEF WorkerOK, Publishing, Preparing, Ending, Recovering, Executing
  <2>8. Go(w, y)
    BY <1>4, <2>2
  <2> QED BY <2>4, <2>5, <2>7, <2>8, GoMoves DEF Go
<1>5. CASE Go(w, EndRun(w, "reconcile"))
  <2>1. "reconcile" \in AeResults \ {"succeeded"}
    BY DEF AeResults
  <2> QED BY <1>1, <1>5, <2>1, PublishingGoes
<1>6. CASE Record(w, "not_changed", EndRun(w, "skipped"), EndRun(w, "error"))
  <2>1. {"skipped", "error"} \subseteq AeResults \ {"succeeded"}
    BY DEF AeResults
  <2>2. "not_changed" \in Dispositions /\ "not_changed" \notin NotPublished
    BY DEF Dispositions, NotPublished
  <2>3. Goes(x, EndRun(w, "skipped")) /\ WorkerOK(EndRun(w, "skipped"))
    BY <1>1, <2>1, PublishingGoes
  <2>4. "error" \in AeResults /\ "error" # "succeeded"
    BY <2>1
  <2> QED BY <1>1, <1>6, <2>2, <2>3, <2>4, PublisherRecords
<1>7. CASE Go(w, To(w, "check"))
  <2>1. "check" \in Publishing
    BY DEF Publishing
  <2> QED BY <1>1, <1>7, <2>1, PublishingGoes
<1>8. CASE /\ x.pc = "commit"
           /\ Put(w, [kind |-> "output", n |-> aeWorker[w].n, tok |-> aeWorker[w].inv.tok],
                  [To(w, "committed") EXCEPT !.res = "succeeded"], EndRun(w, "reconcile"))
  BY <1>8, OutputMoves
<1> QED BY <1>2, <1>3, <1>4, <1>5, <1>6, <1>7, <1>8 DEF CommitOutput, At

\* The output is in the graph: it is recorded, and its receipt acknowledged.
LEMMA CommittedSteps ==
    ASSUME AeInv, AeInv', OutcomeInv, NEW w \in AeWorkers, Committed(w)
    PROVE  Progress(w)
<1> DEFINE x == aeWorker[w]
<1>0. /\ x.pc \in {"committed", "acknowledge"} /\ WorkerOK(x) /\ Sane(x) /\ x.inv \in Invocations
      /\ MadeFrom(x.inv, x.inv)
  BY Fields DEF OutcomeInv, AeInv, Committed, At
<1>1. x.pc \in Executing /\ x.pc \notin Claimless \cup Claiming \cup Ending \cup Quiet
  BY <1>0 DEF Executing, Claimless, Claiming, Ending, Quiet, Recovering
<1>2. SomeOutput /\ x.n \in Runs /\ x.n = x.inv.count + 1 /\ x.inv.status # "succeeded"
  BY <1>0, <1>1 DEF WorkerOK, Sane, BeforeRun
<1>3. \A r \in AeResults : Goes(x, EndRun(w, r)) /\ WorkerOK(EndRun(w, r))
  BY <1>0, <1>1, <1>2, EndFits
<1>4. "reconcile" \in AeResults /\ "published" \in Dispositions /\ "published" \notin NotPublished
  BY DEF AeResults, Dispositions, NotPublished
<1>5. CASE Go(w, EndRun(w, "reconcile"))
  BY <1>1, <1>3, <1>4, <1>5, GoMoves DEF Go
<1>6. CASE Record(w, "published", To(w, "acknowledge"), EndRun(w, "reconcile"))
  <2>1. To(w, "acknowledge").pc = "acknowledge" /\ To(w, "acknowledge").inv = x.inv /\ To(w, "acknowledge").n = x.n
    <3>1. "acknowledge" \in AeSteps
      BY DEF AeSteps
    <3> QED BY <3>1, Fields
  <2> PICK y : y = To(w, "acknowledge")
    OBVIOUS
  <2>2. Goes(x, y)
    <3>1. y.pc \in Onward /\ y.pc \notin Publishing
      BY <2>1 DEF Onward, AeSteps, Claimless, Claiming, Publishing
    <3> QED BY <1>0, <1>1, <2>1, <3>1, Forward
  <2>3. WorkerOK(y)
    BY <1>2, <2>1 DEF WorkerOK, Publishing, Preparing, Ending, Recovering, Executing
  <2>4. Record(w, "published", y, EndRun(w, "reconcile"))
    BY <1>6
  <2> QED BY <1>1, <1>2, <1>3, <1>4, <2>2, <2>3, <2>4, RecordMoves
<1>7. CASE x.pc = "acknowledge" /\ Put(w, [kind |-> "ack"], EndRun(w, x.res), EndRun(w, "reconcile"))
  <2>1. x.res \in AeResults
    BY <1>0, <1>7 DEF Sane, AeResults, TerminalAttempt
  <2>2. PICK c \in AeCommands : c = [kind |-> "ack"]
    BY PutTyped
  <2>3. c.kind = "ack"
    BY <2>2
  <2>4. \A y, V : Sends(x, y, c) /\ Legal(c, V)
    BY <2>3 DEF Sends, Legal
  <2>5. Put(w, c, EndRun(w, x.res), EndRun(w, "reconcile"))
    BY <1>7, <2>2
  <2> QED BY <1>1, <1>3, <1>4, <2>1, <2>3, <2>4, <2>5, PutMoves
<1> QED BY <1>5, <1>6, <1>7 DEF Committed, At

\* The run, then the invocation, are given their result.
LEMMA ResultSteps ==
    ASSUME AeInv, AeInv', OutcomeInv, NEW w \in AeWorkers, PutResult(w)
    PROVE  Progress(w)
<1> DEFINE x == aeWorker[w]
           n == aeWorker[w].n
           res == aeWorker[w].res
           inv == aeWorker[w].inv
<1>0. /\ x.pc \in Ending /\ WorkerOK(x) /\ Sane(x) /\ n \in Runs
      /\ inv \in Invocations /\ inv.count \in 0..AeMaxAttempts /\ MadeFrom(inv, inv)
  BY Fields DEF OutcomeInv, AeInv, PutResult, At, Ending, Sane, BeforeRun, Invocations
<1>1. x.pc \in Executing /\ x.pc \notin Claimless \cup Claiming \cup Quiet
  BY <1>0 DEF Executing, Ending, Claimless, Claiming, Quiet, Recovering
<1>2. /\ res = "succeeded" => SomeOutput
      /\ n = inv.count + 1 /\ inv.status # "succeeded"
  BY <1>0, <1>1 DEF WorkerOK
<1>3. Goes(x, Idle) /\ WorkerOK(Idle)
  BY IdleFits
<1>4. CASE x.pc = "put run"
  <2>1. PICK s \in Results(w) : Put(w, PutRun(n, IF s = "reconcile" THEN "running" ELSE s),
                                    [To(w, "put invocation") EXCEPT !.res = s], Idle)
    BY <1>4 DEF PutResult, At
  <2>2. res \in RunResults
    BY <1>0, <1>4 DEF Sane
  <2>3. s \in (RunResults \cup {"retryable"}) \ {"error"} /\ (s = "succeeded" => SomeOutput)
    BY <1>2, <2>2 DEF Results, RunResults
  <2>4. PICK status \in RunStates : /\ status = IF s = "reconcile" THEN "running" ELSE s
                                    /\ status = "succeeded" => SomeOutput
    BY <2>3 DEF RunStates, RunResults, OpenRun
  <2>5. PICK y : y = [To(w, "put invocation") EXCEPT !.res = s]
    OBVIOUS
  <2>6. Put(w, PutRun(n, status), y, Idle)
    BY <2>1, <2>4, <2>5
  <2>7. y.pc = "put invocation" /\ y.inv = inv /\ y.n = n /\ y.res = s
    <3>1. "put invocation" \in AeSteps
      BY DEF AeSteps
    <3>2. PICK z \in AeWorkerType : z = To(w, "put invocation") /\ z.pc = "put invocation" /\ z.inv = inv /\ z.n = n
      BY <3>1, ToTyped
    <3>3. y = [z EXCEPT !.res = s]
      BY <2>5, <3>2
    <3>4. [z EXCEPT !.res = s].pc = z.pc /\ [z EXCEPT !.res = s].inv = z.inv /\ [z EXCEPT !.res = s].n = z.n
          /\ [z EXCEPT !.res = s].res = s
      BY DEF AeWorkerType
    <3> QED BY <3>2, <3>3, <3>4
  <2>8. Goes(x, y)
    BY <1>0, <1>1, <2>7 DEF Goes, Moves, Counts, Claimless, Claiming, Publishing, Quiet, Ending, Recovering
  <2>9. WorkerOK(y)
    BY <1>2, <2>3, <2>7 DEF WorkerOK, Publishing, Preparing, Ending, Recovering, Executing
  <2> HIDE DEF Idle
  <2> QED BY <1>0, <1>1, <1>3, <2>4, <2>6, <2>8, <2>9, RunMoves
<1>5. CASE x.pc = "put invocation"
  <2> DEFINE s == CASE res = "reconcile" -> "retryable" [] res = "dropped" -> "skipped" [] OTHER -> res
             k == IF res = "dropped" THEN inv.count ELSE n
             i == Touch([inv EXCEPT !.status = s, !.count = k])
  <2>1. Put(w, PutInvocation(i), Idle, Idle)
    <3>1. Put(w, PutInvocation(Touch([inv EXCEPT
                 !.status = CASE res = "reconcile" -> "retryable" [] res = "dropped" -> "skipped" [] OTHER -> res,
                 !.count = IF res = "dropped" THEN @ ELSE n])), Idle, Idle)
      BY <1>5 DEF PutResult, At
    <3>2. \A z \in Invocations : \A t : [z EXCEPT !.status = t, !.count = IF res = "dropped" THEN @ ELSE n]
                                    = [z EXCEPT !.status = t, !.count = IF res = "dropped" THEN z.count ELSE n]
      BY DEF Invocations
    <3> QED BY <1>0, <3>1, <3>2
  <2>2. s \in Statuses /\ s # "running" /\ (s = "succeeded" => SomeOutput)
    <3>1. res \in (RunResults \cup {"retryable"}) \ {"error"}
      BY <1>0, <1>5 DEF Sane
    <3> QED BY <1>2, <3>1 DEF RunResults, Statuses, TerminalInvocation
  <2>3. n \in 0..AeMaxAttempts /\ inv.count <= n
    <3>1. AeMaxAttempts \in Nat /\ n \in 1..AeMaxAttempts /\ inv.count \in 0..AeMaxAttempts /\ n = inv.count + 1
      BY <1>0, <1>2, AutomationAssumption DEF Runs
    <3> QED BY <3>1
  <2>4. k \in 0..AeMaxAttempts /\ inv.count <= k
    <3>1. inv.count <= inv.count
      BY <1>0 DEF MadeFrom
    <3> QED BY <1>0, <2>3, <3>1
  <2>5. inv \in Invocations
    BY <1>0
  <2> HIDE DEF s, k
  <2>6. i \in Invocations
    BY <2>2, <2>4, <2>5, TouchTyped
  <2>7. MadeFrom(i, inv)
    BY <2>2, <2>4, <2>5, TouchMade
  <2>8. i.status = s
    BY <2>2, <2>4, <2>5 DEF Touch, Invocations
  <2> HIDE DEF i, Idle
  <2> QED BY <1>1, <2>1, <2>2, <2>6, <2>7, <2>8, LastPutMoves
<1> QED BY <1>4, <1>5 DEF PutResult, At

\* Recovery of a run whose worker did not finish it.
LEMMA RecoverSteps ==
    ASSUME AeInv, AeInv', ClaimInv, OutcomeInv, NEW w \in AeWorkers, Recover(w)
    PROVE  Progress(w)
<1> DEFINE x == aeWorker[w]
           n == aeWorker[w].n
           att == aeWorker[w].att
           inv == aeWorker[w].inv
           end == CASE att.disp = "published" -> "succeeded" [] att.disp = "not_changed" -> "skipped"
                    [] OTHER -> "failed"
<1>0. /\ x.pc \in Recovering /\ WorkerOK(x) /\ Sane(x) /\ n \in Runs /\ RecordsOK
      /\ inv \in Invocations /\ inv.count \in 0..AeMaxAttempts /\ MadeFrom(inv, inv)
      /\ att \in Attempts /\ aeStore \in AeStoreType
  BY Fields DEF OutcomeInv, AeInv, AeTypeOK, AeWorkerType, Recover, At, Recovering, Sane, BeforeRun, Invocations
<1>1. x.pc \notin Claimless \cup Claiming \cup Ending \cup Publishing
  BY <1>0 DEF Recovering, Ending, Claimless, Claiming, Publishing
<1>2. /\ att.state = "succeeded" /\ aeStore.att[n].state = "succeeded"
      /\ att.disp = "published" => SomeOutput
      /\ inv.status # "succeeded"
  BY <1>0 DEF WorkerOK
<1>3. Goes(x, Idle) /\ WorkerOK(Idle)
  BY IdleFits
<1>4. ASSUME NEW y, y.pc \in Recovering, y.inv = inv, y.n = n, y.att.state = "succeeded",
             y.att.disp = "published" => SomeOutput
      PROVE  Goes(x, y) /\ WorkerOK(y) /\ y.pc \notin Publishing
  <2>1. Goes(x, y)
    BY <1>0, <1>1, <1>4 DEF Goes, Moves, Counts, Claimless, Claiming, Publishing, Quiet, Ending, Recovering
  <2>2. WorkerOK(y)
    BY <1>2, <1>4 DEF WorkerOK, Publishing, Preparing, Ending, Recovering, Executing
  <2> QED BY <1>4, <2>1, <2>2 DEF Publishing, Recovering
<1>5. ASSUME NEW pc \in Recovering
      PROVE  Goes(x, To(w, pc)) /\ WorkerOK(To(w, pc))
  <2>1. pc \in AeSteps
    BY DEF Recovering, AeSteps
  <2>2. To(w, pc).pc = pc /\ To(w, pc).inv = inv /\ To(w, pc).n = n /\ To(w, pc).att = att
    BY <2>1, Fields
  <2>3. PICK y : y = To(w, pc)
    OBVIOUS
  <2>4. y.pc \in Recovering /\ y.inv = inv /\ y.n = n /\ y.att = att
    BY <2>2, <2>3
  <2>5. Goes(x, y) /\ WorkerOK(y)
    BY <1>2, <1>4, <2>4
  <2> QED BY <2>3, <2>5
<1>6. CASE Go(w, Idle)
  BY <1>6, IdleMoves
<1>7. CASE \E pc \in Recovering : Go(w, To(w, pc))
  BY <1>1, <1>5, <1>7, GoMoves DEF Go
<1>8. CASE /\ Owned(w) /\ x.pc = "recovered"
           /\ LET found == [Step(att, att.state) EXCEPT !.disp = IF ReceiptFound THEN "published" ELSE "publication_failed"]
              IN \/ Put(w, PutAttempt(n, found), [To(w, "recovery ack") EXCEPT !.att = found], Idle)
                 \/ Go(w, [To(w, "recovery ack") EXCEPT !.att = found])
  <2>0. PICK d : d = IF ReceiptFound THEN "published" ELSE "publication_failed"
    OBVIOUS
  <2>10. d \in Dispositions /\ (d = "published" => ReceiptFound) /\ (d \in NotPublished => ~ReceiptFound)
    BY <2>0 DEF Dispositions, NotPublished
  <2>1. PICK a \in Attempts : a = [Step(att, att.state) EXCEPT !.disp = d] /\ a.state = "succeeded" /\ a.disp = d
    <3> PICK b \in Attempts : b = att
      BY <1>0
    <3>2. [Step(b, b.state) EXCEPT !.disp = d] \in Attempts
      BY <2>10, AttemptTyped
    <3>3. [Step(b, b.state) EXCEPT !.disp = d].state = b.state /\ [Step(b, b.state) EXCEPT !.disp = d].disp = d
      BY DEF Step, Attempts
    <3> QED BY <1>2, <3>2, <3>3
  <2>11. a.state = "succeeded" /\ a.disp = d
    BY <2>1
  <2>12. PICK y : y = [To(w, "recovery ack") EXCEPT !.att = a]
    OBVIOUS
  <2>2. Put(w, PutAttempt(n, a), y, Idle) \/ Go(w, y)
    BY <1>8, <2>0, <2>1, <2>12
  <2>3. y.pc = "recovery ack" /\ y.inv = inv /\ y.n = n /\ y.att = a
    <3>1. "recovery ack" \in AeSteps
      BY DEF AeSteps
    <3>2. PICK z \in AeWorkerType : z = To(w, "recovery ack") /\ z.pc = "recovery ack" /\ z.inv = inv /\ z.n = n
      BY <3>1, ToTyped
    <3>3. y = [z EXCEPT !.att = a]
      BY <2>12, <3>2
    <3>4. [z EXCEPT !.att = a].pc = z.pc /\ [z EXCEPT !.att = a].inv = z.inv /\ [z EXCEPT !.att = a].n = z.n
          /\ [z EXCEPT !.att = a].att = a
      BY DEF AeWorkerType
    <3> QED BY <3>2, <3>3, <3>4
  <2>4. a.disp = "published" => SomeOutput
    BY <1>0, <2>10, <2>11 DEF ReceiptFound, RecordsOK
  <2>5. a.disp \in NotPublished => ~ReceiptKept \/ Closed(n, {w})
    <3> SUFFICES ASSUME ~ReceiptFound, ReceiptKept PROVE Closed(n, {w})
      BY <2>10, <2>11
    <3>1. aeStore.receipt = "none"
      BY <1>0 DEF ReceiptFound, ReceiptKept, AeStoreType
    <3>2. aeStore.out[n] = 0
      <4>1. ~SomeOutput /\ aeStore.out[n] \in Nat
        BY <1>0, <3>1 DEF RecordsOK, AeStoreType
      <4>2. ~(aeStore.out[n] > 0)
        BY <1>0, <4>1 DEF SomeOutput
      <4> QED BY <4>1, <4>2
    <3>3. aeStore.inv.tok = inv.tok
      BY <1>8 DEF Owned
    <3>4. aeStore.att[n].state \in TerminalAttempt
      BY <1>2 DEF TerminalAttempt
    <3> QED BY <1>0, <1>1, <3>2, <3>3, <3>4, OwnedCloses
  <2>6. Goes(x, y) /\ WorkerOK(y) /\ y.pc \notin Publishing
    <3>1. y.pc \in Recovering /\ y.att.state = "succeeded" /\ (y.att.disp = "published" => SomeOutput)
      BY <2>3, <2>4, <2>11 DEF Recovering
    <3> QED BY <1>4, <2>3, <3>1
  <2>7. Leaving(w, y) = {w} /\ Leaving(w, Idle) = {w}
    BY <2>6 DEF Leaving, Idle, Publishing
  <2>8. AttemptOK(n, a, {w})
    BY <2>11, <2>4, <2>5 DEF AttemptOK, TerminalAttempt
  <2>9. aeStore.att[n].state # "none"
    BY <1>2
  <2> HIDE DEF Idle
  <2>13. a \in Attempts /\ x.pc \notin Claiming /\ n \in Runs
    BY <1>0, <1>1
  <2>14. CASE Go(w, y)
    BY <1>1, <2>6, <2>14, GoMoves DEF Go
  <2>15. CASE Put(w, PutAttempt(n, a), y, Idle)
    BY <1>3, <2>6, <2>7, <2>8, <2>9, <2>13, <2>15, AttemptMoves
  <2> QED BY <2>2, <2>14, <2>15
<1>9. CASE Put(w, [kind |-> "ack"], To(w, "recovery run"), Idle)
  <2>1. PICK c \in AeCommands : c = [kind |-> "ack"]
    BY PutTyped
  <2>2. c.kind = "ack"
    BY <2>1
  <2>3. \A y, V : Sends(x, y, c) /\ Legal(c, V)
    BY <2>2 DEF Sends, Legal
  <2>4. Put(w, c, To(w, "recovery run"), Idle)
    BY <1>9, <2>1
  <2>5. Goes(x, To(w, "recovery run")) /\ WorkerOK(To(w, "recovery run"))
    BY <1>5 DEF Recovering
  <2> HIDE DEF Idle
  <2> QED BY <1>1, <1>3, <2>2, <2>3, <2>4, <2>5, PutMoves
<1>10. PICK s \in Statuses \cap RunStates : s = end /\ (s = "succeeded" => SomeOutput)
  BY <1>2 DEF Statuses, TerminalInvocation, RunStates
<1>11. CASE Put(w, PutRun(n, end), To(w, "recovery end"), Idle)
  <2>1. Put(w, PutRun(n, s), To(w, "recovery end"), Idle)
    BY <1>10, <1>11
  <2>2. Goes(x, To(w, "recovery end")) /\ WorkerOK(To(w, "recovery end"))
    BY <1>5 DEF Recovering
  <2> HIDE DEF Idle, end
  <2> QED BY <1>0, <1>1, <1>3, <1>10, <2>1, <2>2, RunMoves
<1>12. CASE Put(w, PutInvocation(Touch([inv EXCEPT !.status = end, !.count = IF n > @ THEN n ELSE @])), Idle, Idle)
  <2> DEFINE k == IF n > inv.count THEN n ELSE inv.count
             i == Touch([inv EXCEPT !.status = s, !.count = k])
  <2>1. Put(w, PutInvocation(i), Idle, Idle)
    <3>1. \A z \in Invocations : \A t : [z EXCEPT !.status = t, !.count = IF n > @ THEN n ELSE @]
                                    = [z EXCEPT !.status = t, !.count = IF n > z.count THEN n ELSE z.count]
      BY DEF Invocations
    <3> QED BY <1>0, <1>10, <1>12, <3>1
  <2>2. k \in 0..AeMaxAttempts /\ inv.count <= k
    <3>1. n \in 1..AeMaxAttempts /\ inv.count \in 0..AeMaxAttempts /\ AeMaxAttempts \in Nat
      BY <1>0, AutomationAssumption DEF Runs
    <3>2. CASE n > inv.count
      BY <3>1, <3>2
    <3>3. CASE ~(n > inv.count)
      BY <3>1, <3>3
    <3> QED BY <3>2, <3>3
  <2>3. inv \in Invocations /\ s \in Statuses
    BY <1>0
  <2> HIDE DEF k
  <2>4. i \in Invocations
    BY <2>2, <2>3, TouchTyped
  <2>5. MadeFrom(i, inv)
    BY <2>2, <2>3, TouchMade
  <2>6. i.status = s
    BY <2>2, <2>3 DEF Touch, Invocations
  <2> HIDE DEF i, Idle
  <2> QED BY <1>1, <1>10, <2>1, <2>4, <2>5, <2>6, LastPutMoves
<1> QED
  <2>1. {"recovery ack", "recovery run", "recovery end"} \subseteq Recovering
    BY DEF Recovering
  <2> HIDE DEF Idle
  <2> QED BY <1>6, <1>7, <1>8, <1>9, <1>11, <1>12, <2>1 DEF Recover, At

\* Every step of a worker is one of the two kinds of moves.
LEMMA WorkerProgress ==
    ASSUME AeInv, AeInv', ClaimInv, OutcomeInv, NEW w \in AeWorkers, WorkerStep(w) \/ Dies(w)
    PROVE  Progress(w) \/ \E y \in AeWorkerType : ClaimTaken(w, y)
<1>1. CASE ListPending(w) \/ Reconcile(w) \/ ClaimRead(w) \/ ClaimPut(w)
  BY <1>1, ClaimSteps
<1>2. CASE Claimed(w)
  BY <1>2, ClaimedSteps
<1>3. CASE EarlyRun(w) \/ Ambiguous(w)
  BY <1>3, UnresolvedSteps
<1>4. CASE Execute(w)
  BY <1>4, ExecuteSteps
<1>5. CASE RecordNoAnswer(w)
  BY <1>5, NoAnswerSteps
<1>6. CASE Begin(w)
  BY <1>6, BeginSteps
<1>7. CASE Prepare(w)
  BY <1>7, PrepareSteps
<1>8. CASE Provider(w)
  BY <1>8, ProviderSteps
<1>9. CASE Complete(w)
  BY <1>9, CompleteSteps
<1>10. CASE Publish(w)
  BY <1>10, PublishSteps
<1>11. CASE CommitOutput(w)
  BY <1>11, CommitSteps
<1>12. CASE Committed(w)
  BY <1>12, CommittedSteps
<1>13. CASE PutResult(w)
  BY <1>13, ResultSteps
<1>14. CASE Recover(w)
  BY <1>14, RecoverSteps
<1>15. CASE Dies(w)
  BY <1>15, DiesMoves
<1> QED
  BY <1>1, <1>2, <1>3, <1>4, <1>5, <1>6, <1>7, <1>8, <1>9, <1>10, <1>11, <1>12, <1>13, <1>14, <1>15
     DEF WorkerStep

\* A step that changes nothing is one in which the records move nowhere.
LEMMA StutterMoves == ASSUME AeInv, OutcomeInv, UNCHANGED aeVars PROVE RecordsMove
<1>1. /\ aeStore' = aeStore /\ Flying' = Flying /\ Outputs' = Outputs /\ aeWorker' = aeWorker /\ aeToken' = aeToken
      /\ Copies' = Copies
  BY DEF aeVars, Flying, Outputs, Copies
<1>2. Drift
  BY <1>1, NothingDrifts
<1>3. \A x \in Copies : MadeFrom(x, x)
  BY CopiesTyped, MadeFromTyped
<1>4. aeStore.receipt = "none" <=> ~SomeOutput
  BY DEF OutcomeInv, RecordsOK
<1> QED BY <1>1, <1>2, <1>3, <1>4 DEF RecordsMove, SomeOutput

\* Claims and outcomes stay in order over every step.
LEMMA OutcomeStep == AeInv /\ AeInv' /\ ClaimInv /\ OutcomeInv /\ [AeNext]_aeVars => ClaimInv' /\ OutcomeInv'
<1> SUFFICES ASSUME AeInv, AeInv', ClaimInv, OutcomeInv, [AeNext]_aeVars PROVE ClaimInv' /\ OutcomeInv'
  OBVIOUS
<1>1. ASSUME NEW w \in AeWorkers, WorkerStep(w) \/ Dies(w) PROVE ClaimInv' /\ OutcomeInv'
  <2>1. CASE \E y \in AeWorkerType : ClaimTaken(w, y)
    BY <2>1, ClaimTakenKeeps
  <2>2. CASE Progress(w)
    <3>1. PICK y \in AeWorkerType, c \in AeCommands : WorkerMoves(w, y, c)
      BY <2>2 DEF Progress
    <3> QED BY <3>1, WorkerKeepsClaims, WorkerKeepsOutcome
  <2> QED BY <1>1, <2>1, <2>2, WorkerProgress
<1>2. CASE LateApplied \/ RetryInvocation \/ CancelInvocation \/ RequestPut \/ LeaseExpires \/ ReceiptExpires
  BY <1>2, OutsideMoves, RecordsKeepClaims, RecordsKeepOutcome
<1>3. CASE UNCHANGED aeVars
  BY <1>3, StutterMoves, RecordsKeepClaims, RecordsKeepOutcome
<1> QED BY <1>1, <1>2, <1>3 DEF AeNext

\* Claims and outcomes: for any number of workers, attempts, claims and faults,
\* a claim that was passed over stays so, and every record of a publication, in
\* the store, in flight or in a worker's hands, is true and will be when it is
\* written (ValidateAutomationOutputFence, staleInvocationUpdate,
\* recordRunPublicationDisposition, reconcileProviderStartedPublication).
THEOREM OutcomesInvariant == AeSpec => [](ClaimInv /\ OutcomeInv)
<1>1. AeInit => ClaimInv /\ OutcomeInv
  BY OutcomeStarts
<1>2. AeInv /\ AeInv' /\ (ClaimInv /\ OutcomeInv) /\ [AeNext]_aeVars => (ClaimInv /\ OutcomeInv)'
  BY OutcomeStep
<1> QED BY <1>1, <1>2, AutomationInvariant, PTL DEF AeSpec

\* OutcomeTruthful: for any number of workers, attempts, claims and faults, what
\* is recorded of a publication is what happened.
THEOREM OutcomesTruthful == AeSpec => []OutcomeTruthful
<1>1. OutcomeInv => OutcomeTruthful
  BY DEF OutcomeInv, RecordsOK, AttemptOK, Closed, SomeOutput, OutcomeTruthful
<1> QED BY <1>1, OutcomesInvariant, PTL

-----------------------------------------------------------------------------
(* The runs of an invocation that nobody retries or cancels by hand.       *)

\* Run k is behind: the invocation counts it, and so does every copy of it that
\* could still be written.
Reached(k) == aeStore.inv.count >= k /\ \A x \in Copies : Beaten(x) \/ x.count >= k

\* The runs before n are over, without output as long as n has begun.
Passed(n) == \A k \in 1..(n - 1) : Shut(k) \/ Reached(k)

\* Somebody works on the attempt of run n, or has.
Begun(n) ==
    \/ aeStore.att[n].state # "none"
    \/ \E c \in aeLate : c.kind = "attempt" /\ c.n = n
    \/ \E w \in AeWorkers : aeWorker[w].pc = "begin" /\ aeWorker[w].n = n

\* What worker x knows of the count.
CountOK(x) ==
    /\ x.pc = "claimed" => Reached(x.inv.count)
    /\ x.pc = "put early run" => Shut(x.n) /\ Reached(x.n - 1)
    /\ x.pc = "execute" => Passed(x.n)
    /\ x.pc \notin Claimless => \A y \in Copies : y.tok = x.inv.tok => y.count <= x.inv.count
    /\ aeStore.receipt = "expired" => x.pc \in Quiet

\* A copy is of a claim, or of the new invocation, and at most one claim ahead.
CopiesOK ==
    \A x \in Copies : /\ x.ver <= aeStore.inv.ver + 1
                      /\ x.tok = 0 <=> x.ver = 0
                      /\ x.tok = 0 => x.count = 0

\* An output belongs to the last run that has begun, and there is one.
RunsOK ==
    /\ \A n \in Runs : Begun(n) => Passed(n)
    /\ \A n, m \in Runs : aeStore.out[n] > 0 /\ m > n => ~Begun(m)
    /\ ~AppliedAgain

\* An output that may still be applied is of a run that its claim has not counted.
OutputsOK ==
    /\ \A c \in Outputs : \A y \in Copies : y.tok = c.tok /\ y.status = "running" => y.count < c.n
    /\ aeStore.receipt = "expired" => Outputs = {}

\* The inductive invariant of the counts: a run begins when the runs before it
\* are over, either without the provider or counted by every copy of the
\* invocation that can still be written; so nobody comes back to an earlier one.
CountInv == CopiesOK /\ RunsOK /\ OutputsOK /\ \A w \in AeWorkers : CountOK(aeWorker[w])

\* Where copies come from, and what becomes of the invocation: a copy that the
\* record had not gone past.
Traces ==
    /\ \A y \in Copies' : \/ y.tok = 0 /\ y.ver = 0 /\ y.count = 0
                          \/ y.tok # 0 /\ \E x \in Copies : MadeFrom(y, x)
                          \/ y.tok > aeToken /\ y.count = aeStore.inv.count /\ y.ver = aeStore.inv.ver + 1
    /\ \E x \in Copies : MadeFrom(aeStore'.inv, x) /\ ~Beaten(x)

\* What is behind a run is behind the runs before it.
LEMMA ReachedDown ==
    ASSUME AeInv, NEW k \in Nat, NEW j \in Nat, j <= k, Reached(k)
    PROVE  Reached(j)
<1>1. Copies \subseteq Invocations /\ aeStore.inv \in Copies
  BY CopiesTyped
<1>2. \A x \in Copies : x.count \in Nat
  BY <1>1, AutomationAssumption DEF Invocations
<1>3. \A x \in Copies : x.count >= k => x.count >= j
  BY <1>2
<1> QED BY <1>1, <1>3 DEF Reached

\* Copies keep their versions.
LEMMA CopiesHold ==
    ASSUME AeInv, AeInv', CopiesOK, Drift, Traces
    PROVE  CopiesOK'
<1>1. Copies \subseteq Invocations /\ aeStore.inv \in Copies /\ aeToken \in Nat
  BY CopiesTyped
<1>2. (Copies \subseteq Invocations /\ aeStore.inv \in Copies)'
  BY CopiesTyped, PTL
<1>3. aeStore.inv.ver \in Nat /\ aeStore'.inv.ver \in Nat /\ aeStore.inv.ver <= aeStore'.inv.ver
  BY <1>1, <1>2 DEF Drift, Follows, Invocations
<1> SUFFICES ASSUME NEW y \in Copies'
             PROVE  /\ y.ver <= aeStore'.inv.ver + 1
                    /\ y.tok = 0 <=> y.ver = 0
                    /\ y.tok = 0 => y.count = 0
  BY DEF CopiesOK
<1>4. y.tok \in Nat /\ y.ver \in Nat
  BY <1>2 DEF Invocations
<1>5. CASE y.tok = 0 /\ y.ver = 0 /\ y.count = 0
  BY <1>3, <1>5
<1>6. CASE y.tok # 0 /\ \E x \in Copies : MadeFrom(y, x)
  <2>1. PICK x \in Copies : y.tok = x.tok /\ y.ver = x.ver
    BY <1>6 DEF MadeFrom
  <2>2. x.ver <= aeStore.inv.ver + 1 /\ x.ver # 0
    BY <1>6, <2>1 DEF CopiesOK
  <2> QED BY <1>3, <1>4, <1>6, <2>1, <2>2
<1>7. CASE y.tok > aeToken /\ y.count = aeStore.inv.count /\ y.ver = aeStore.inv.ver + 1
  BY <1>1, <1>3, <1>4, <1>7
<1> QED BY <1>5, <1>6, <1>7 DEF Traces

\* What is behind stays behind.
LEMMA CountsHold ==
    ASSUME AeInv, AeInv', CopiesOK, TokenInv, Drift, Descend, Traces
    PROVE  /\ \A k \in Nat : Reached(k) => Reached(k)'
           /\ \A k \in Runs : Shut(k) => Shut(k)'
           /\ \A n \in Runs : Passed(n) => Passed(n)'
<1>1. Copies \subseteq Invocations /\ aeStore.inv \in Copies /\ aeToken \in Nat
  BY CopiesTyped
<1>2. (Copies \subseteq Invocations /\ aeStore.inv \in Copies)'
  BY CopiesTyped, PTL
<1>3. \A x \in Invocations : Beaten(x) => Beaten(x)'
  BY FencesHold DEF Drift
<1>4. \A x, y : MadeFrom(y, x) /\ Beaten(x) => Beaten(y)
  BY DEF MadeFrom, Beaten
<1>5. \A x \in Copies : x.count \in Nat
  BY <1>1, AutomationAssumption DEF Invocations
<1>6. \A x \in Copies' : x.count \in Nat
  BY <1>2, AutomationAssumption DEF Invocations
<1>7. aeStore.inv.ver \in Nat /\ aeStore'.inv.ver \in Nat /\ aeStore.inv.ver <= aeStore'.inv.ver
  BY <1>1, <1>2 DEF Drift, Follows, Invocations
<1>8. ASSUME NEW k \in Nat, Reached(k)
      PROVE  Reached(k)'
  <2>1. CASE k = 0
    <3>1. \A x \in Copies' : x.count >= k
      BY <1>6, <2>1
    <3> QED BY <1>2, <3>1 DEF Reached
  <2>2. CASE k # 0
    <3>1. aeStore'.inv.count >= k
      <4>1. PICK x \in Copies : MadeFrom(aeStore'.inv, x) /\ ~Beaten(x)
        BY DEF Traces
      <4>2. x.count >= k /\ x.count <= aeStore'.inv.count
        BY <1>8, <4>1 DEF Reached, MadeFrom
      <4> QED BY <1>2, <1>5, <1>6, <4>2
    <3>2. aeStore.inv.tok # 0 /\ aeStore.inv.ver # 0
      <4>1. aeStore.inv.count >= k /\ aeStore.inv.count \in Nat
        BY <1>1, <1>5, <1>8 DEF Reached
      <4>2. aeStore.inv.count # 0
        BY <2>2, <4>1
      <4> QED BY <1>1, <4>2 DEF CopiesOK
    <3>3. ASSUME NEW y \in Copies' PROVE Beaten(y)' \/ y.count >= k
      <4>1. CASE y.tok = 0 /\ y.ver = 0 /\ y.count = 0
        <5>1. y.ver < aeStore'.inv.ver
          BY <1>7, <3>2, <4>1
        <5> QED BY <5>1 DEF Beaten
      <4>2. CASE \E x \in Copies : MadeFrom(y, x)
        <5>1. PICK x \in Copies : MadeFrom(y, x)
          BY <4>2
        <5>2. CASE Beaten(x)
          <6>1. Beaten(y) /\ y \in Invocations
            BY <1>2, <1>4, <5>1, <5>2
          <6> QED BY <1>3, <6>1
        <5>3. CASE x.count >= k
          <6>1. x.count <= y.count
            BY <5>1 DEF MadeFrom
          <6> QED BY <1>5, <1>6, <5>3, <6>1
        <5> QED BY <1>8, <5>2, <5>3 DEF Reached
      <4>3. CASE y.count = aeStore.inv.count
        BY <1>8, <4>3 DEF Reached
      <4> QED BY <4>1, <4>2, <4>3 DEF Traces
    <3> QED BY <3>1, <3>3 DEF Reached
  <2> QED BY <2>1, <2>2
<1>9. ASSUME NEW k \in Runs, Shut(k)
      PROVE  Shut(k)'
  BY <1>9, AttemptsDrift DEF Shut, TerminalAttempt
<1>10. ASSUME NEW n \in Runs, Passed(n)
       PROVE  Passed(n)'
  <2> SUFFICES ASSUME NEW k \in 1..(n - 1) PROVE Shut(k)' \/ Reached(k)'
    BY DEF Passed
  <2>1. k \in Runs /\ k \in Nat
    BY AutomationAssumption DEF Runs
  <2>2. Shut(k) \/ Reached(k)
    BY <1>10 DEF Passed
  <2> QED BY <1>8, <1>9, <2>1, <2>2
<1> QED BY <1>8, <1>9, <1>10

\* Nothing is past what the record is.
LEMMA NotBeaten ==
    ASSUME AeInv
    PROVE  /\ ~Beaten(aeStore.inv)
           /\ \A x, z \in Invocations : MadeFrom(z, x) /\ ~Stale(aeStore.inv, z) => ~Beaten(x)
<1>1. aeStore.inv.ver \in Nat
  BY CopiesTyped DEF Invocations
<1>2. ~Beaten(aeStore.inv)
  BY <1>1 DEF Beaten
<1>3. ASSUME NEW x \in Invocations, NEW z \in Invocations, MadeFrom(z, x), ~Stale(aeStore.inv, z)
      PROVE  ~Beaten(x)
  BY <1>3 DEF Beaten, Stale, MadeFrom
<1> QED BY <1>2, <1>3

\* A worker's copies come from its copy of the invocation.
LEMMA WorkerTraces ==
    ASSUME AeInv, AeInv', ClaimInv, CopiesOK, NEW w \in AeWorkers, NEW y \in AeWorkerType, NEW c \in AeCommands,
           WorkerMoves(w, y, c)
    PROVE  Traces
<1> DEFINE x == aeWorker[w]
<1>1. Copies \subseteq Invocations /\ aeStore.inv \in Copies /\ x.inv \in Copies
  BY CopiesTyped DEF Copies
<1>2. \A z \in Copies' : z \in Copies \/ z = y.inv \/ (c.kind = "invocation" /\ z = c.inv)
  BY WorkerDescends
<1>3. \A z \in Copies : MadeFrom(z, z)
  BY <1>1, MadeFromTyped
<1>4. /\ y.pc \in Claimless => y.inv = NewInvocation
      /\ y.pc \notin Claimless => x.pc \notin Claimless /\ MadeFrom(y.inv, x.inv)
      /\ c.kind = "invocation" => x.pc \notin Claimless /\ MadeFrom(c.inv, x.inv)
  BY DEF WorkerMoves, Moves, Sends
<1>5. x.pc \notin Claimless => x.inv.tok # 0
  BY DEF ClaimInv, ClaimOK
<1>6. NewInvocation.tok = 0 /\ NewInvocation.ver = 0 /\ NewInvocation.count = 0
  BY DEF NewInvocation
<1>7. ASSUME NEW z \in Copies' PROVE (z.tok = 0 /\ z.ver = 0 /\ z.count = 0) \/ (z.tok # 0 /\ \E u \in Copies : MadeFrom(z, u))
  <2>1. CASE z \in Copies
    BY <2>1, <1>3 DEF CopiesOK
  <2>2. CASE z = y.inv
    BY <2>2, <1>1, <1>4, <1>5, <1>6 DEF MadeFrom
  <2>3. CASE c.kind = "invocation" /\ z = c.inv
    BY <2>3, <1>1, <1>4, <1>5 DEF MadeFrom
  <2> QED BY <1>2, <1>7, <2>1, <2>2, <2>3
<1>8. \E u \in Copies : MadeFrom(aeStore'.inv, u) /\ ~Beaten(u)
  <2>1. \/ aeStore'.inv = aeStore.inv
        \/ c.kind = "invocation" /\ aeStore'.inv = c.inv /\ ~Stale(aeStore.inv, c.inv)
    BY CommandEffect DEF WorkerMoves, AeInv, AeTypeOK
  <2>2. CASE aeStore'.inv = aeStore.inv
    BY <2>2, <1>1, <1>3, NotBeaten
  <2>3. CASE c.kind = "invocation" /\ aeStore'.inv = c.inv /\ ~Stale(aeStore.inv, c.inv)
    <3>1. c.inv \in Invocations
      BY <2>3 DEF AeCommands, InvocationPuts
    <3> QED BY <2>3, <3>1, <1>1, <1>4, NotBeaten
  <2> QED BY <2>1, <2>2, <2>3
<1> QED BY <1>7, <1>8 DEF Traces

\* An output that is applied is the first one, of the last run that has begun.
LEMMA OutputAdds ==
    ASSUME AeInv, RecordsOK, RunsOK, NEW c, NEW n \in Runs, NEW V, Adds(c, n), Legal(c, V),
           aeStore.inv.count < n, aeStore.receipt # "expired"
    PROVE  /\ \A m \in Runs : aeStore.out[m] = 0
           /\ \A m \in Runs : m > n => ~Begun(m)
<1>1. aeStore \in AeStoreType
  BY DEF AeInv, AeTypeOK
<1>2. ~SomeOutput
  <2>1. aeStore.receipt = "none"
    BY <1>1 DEF Adds, ReceiptFound, AeStoreType
  <2> QED BY <2>1 DEF RecordsOK
<1>3. \A m \in Runs : aeStore.out[m] = 0
  <2>1. \A m \in Runs : aeStore.out[m] \in Nat /\ ~(aeStore.out[m] > 0)
    BY <1>1, <1>2 DEF AeStoreType, SomeOutput
  <2> QED BY <2>1
<1>4. ASSUME NEW m \in Runs, m > n, Begun(m) PROVE FALSE
  <2>1. Passed(m)
    BY <1>4 DEF RunsOK
  <2>2. n \in 1..(m - 1)
    BY <1>4, AutomationAssumption DEF Runs
  <2>3. Shut(n) \/ Reached(n)
    BY <2>1, <2>2 DEF Passed
  <2>4. aeStore.att[n].state = "succeeded"
    BY DEF Adds, Legal
  <2>5. Reached(n)
    BY <2>3, <2>4 DEF Shut
  <2>6. aeStore.inv.count >= n
    BY <2>5 DEF Reached
  <2>7. aeStore.inv.count \in Nat /\ n \in Nat
    BY <1>1, AutomationAssumption DEF AeStoreType, Invocations, Runs
  <2> QED BY <2>6, <2>7
<1> QED BY <1>3, <1>4

\* A run begins with a worker that looks the output up before.
LEMMA WorkerBegins ==
    ASSUME AeInv, AeInv', ClaimInv, OutcomeInv, NEW w \in AeWorkers, NEW y \in AeWorkerType, NEW c \in AeCommands,
           WorkerMoves(w, y, c), NEW n \in Runs, Begun(n)'
    PROVE  Begun(n) \/ (y.pc = "begin" /\ aeWorker[w].pc = "execute" /\ n = aeWorker[w].n /\ ~ReceiptFound)
<1> DEFINE x == aeWorker[w]
<1>0. \A v \in AeWorkers : aeWorker'[v] = IF v = w THEN y ELSE aeWorker[v]
  BY WorkerCommits
<1>1. /\ c.kind = "attempt" => c.n = x.n /\ (aeStore.att[x.n].state # "none" \/ x.pc = "begin")
      /\ y.pc = "begin" => x.pc = "execute" /\ y.n = x.n /\ ~ReceiptFound
      /\ \A d \in aeLate' : d \in aeLate \/ d = c
  BY DEF WorkerMoves, Sends, Counts
<1>2. c.kind = "attempt" /\ c.n = n => Begun(n)
  BY <1>1 DEF Begun
<1>3. aeStore'.att[n] = aeStore.att[n] \/ (c.kind = "attempt" /\ c.n = n)
  BY CommandEffect DEF WorkerMoves, AeInv, AeTypeOK
<1>4. CASE aeStore'.att[n].state # "none"
  BY <1>2, <1>3, <1>4 DEF Begun
<1>5. CASE \E d \in aeLate' : d.kind = "attempt" /\ d.n = n
  BY <1>1, <1>2, <1>5 DEF Begun
<1>6. CASE \E v \in AeWorkers : aeWorker'[v].pc = "begin" /\ aeWorker'[v].n = n
  BY <1>0, <1>1, <1>6 DEF Begun
<1> QED BY <1>4, <1>5, <1>6 DEF Begun

\* What holds of the counts while a worker moves.
LEMMA WorkerHolds ==
    ASSUME AeInv, AeInv', ClaimInv, OutcomeInv, CountInv, NEW w \in AeWorkers, NEW y \in AeWorkerType,
           NEW c \in AeCommands, WorkerMoves(w, y, c)
    PROVE  /\ CopiesOK'
           /\ \A k \in Nat : Reached(k) => Reached(k)'
           /\ \A k \in Runs : Shut(k) => Shut(k)'
           /\ \A n \in Runs : Passed(n) => Passed(n)'
           /\ aeWorker[w].pc \in Executing => /\ aeWorker[w].n = aeWorker[w].inv.count + 1
                                              /\ aeStore.inv.tok = aeWorker[w].inv.tok => aeStore.inv.count < aeWorker[w].n
           /\ aeStore'.receipt = "expired" => aeStore.receipt = "expired" /\ aeWorker[w].pc \in Quiet
<1> DEFINE x == aeWorker[w]
<1>1. Drift /\ Descend
  BY WorkerCommits
<1>2. Traces
  BY WorkerTraces DEF CountInv
<1>3. /\ CopiesOK'
      /\ \A k \in Nat : Reached(k) => Reached(k)'
      /\ \A k \in Runs : Shut(k) => Shut(k)'
      /\ \A n \in Runs : Passed(n) => Passed(n)'
  BY <1>1, <1>2, CopiesHold, CountsHold DEF CountInv, ClaimInv
<1>4. ASSUME x.pc \in Executing
      PROVE  x.n = x.inv.count + 1 /\ (aeStore.inv.tok = x.inv.tok => aeStore.inv.count < x.n)
  <2>1. x.n = x.inv.count + 1
    BY <1>4 DEF OutcomeInv, WorkerOK
  <2>2. x.pc \notin Claimless
    BY <1>4 DEF Executing, Claimless, Preparing, Publishing, Ending
  <2>3. \A u \in Copies : u.tok = x.inv.tok => u.count <= x.inv.count
    BY <2>2 DEF CountInv, CountOK
  <2>4. aeStore.inv \in Copies /\ aeStore.inv.count \in Nat
    BY CopiesTyped, AutomationAssumption DEF Invocations
  <2>5. x.inv.count \in Nat
    BY AutomationAssumption DEF AeInv, AeTypeOK, AeWorkerType, Invocations
  <2>6. aeStore.inv.tok = x.inv.tok => aeStore.inv.count <= x.inv.count
    BY <2>3, <2>4
  <2> QED BY <2>1, <2>4, <2>5, <2>6
<1>5. aeStore'.receipt = "expired" => aeStore.receipt = "expired"
  <2>1. \/ aeStore'.receipt = aeStore.receipt
        \/ aeStore'.receipt \in {"retained", "released"}
    BY CommandEffect DEF WorkerMoves, AeInv, AeTypeOK
  <2> QED BY <2>1
<1>6. aeStore.receipt = "expired" => x.pc \in Quiet
  BY DEF CountInv, CountOK
<1> QED BY <1>3, <1>4, <1>5, <1>6

\* The runs after a worker's step.
LEMMA WorkerKeepsRuns ==
    ASSUME AeInv, AeInv', ClaimInv, OutcomeInv, CountInv, NEW w \in AeWorkers, NEW y \in AeWorkerType,
           NEW c \in AeCommands, WorkerMoves(w, y, c)
    PROVE  RunsOK'
<1> DEFINE x == aeWorker[w]
<1>1. /\ RunsOK /\ RecordsOK /\ aeStore \in AeStoreType /\ aeStore' \in AeStoreType
  BY DEF CountInv, OutcomeInv, AeInv, AeTypeOK
<1>2. \A n \in Runs : Passed(n) => Passed(n)'
  BY WorkerHolds
<1>3. x.pc = "execute" => Passed(x.n)
  BY DEF CountInv, CountOK
<1>4. \A n \in Runs : Begun(n)' =>
          Begun(n) \/ (y.pc = "begin" /\ x.pc = "execute" /\ n = x.n /\ ~ReceiptFound)
  BY WorkerBegins
<1>5. \A n \in Runs : Begun(n)' => Passed(n)'
  BY <1>1, <1>2, <1>3, <1>4 DEF RunsOK
<1>6. x.pc = "execute" /\ ~ReceiptFound => \A n \in Runs : ~(aeStore.out[n] > 0)
  <2> SUFFICES ASSUME x.pc = "execute", ~ReceiptFound PROVE ~SomeOutput
    BY DEF SomeOutput
  <2>1. aeStore.receipt = "expired" => x.pc \in Quiet
    BY DEF CountInv, CountOK
  <2>2. aeStore.receipt # "expired"
    BY <2>1 DEF Quiet, Recovering
  <2>3. aeStore.receipt = "none"
    BY <1>1, <2>2 DEF ReceiptFound, AeStoreType
  <2> QED BY <1>1, <2>3 DEF RecordsOK
<1>7. CASE aeStore'.out = aeStore.out
  <2>1. \A n, m \in Runs : aeStore'.out[n] > 0 /\ m > n => ~Begun(m)'
    BY <1>1, <1>4, <1>6, <1>7 DEF RunsOK
  <2>2. ~AppliedAgain'
    BY <1>1, <1>7 DEF RunsOK, AppliedAgain
  <2> QED BY <1>5, <2>1, <2>2 DEF RunsOK
<1>8. CASE aeStore'.out # aeStore.out
  <2>1. /\ c.kind = "output" /\ Adds(c, c.n) /\ c.n \in Runs
        /\ \A n \in Runs : aeStore'.out[n] = IF n = c.n THEN aeStore.out[n] + 1 ELSE aeStore.out[n]
    <3> USE CommandEffect DEF WorkerMoves, AeInv, AeTypeOK
    <3>1. \/ UNCHANGED <<aeStore.out, aeStore.receipt>>
          \/ /\ c.kind = "output" /\ Adds(c, c.n) /\ c.n \in Runs /\ aeStore'.receipt = "retained"
             /\ \A n \in Runs : aeStore'.out[n] = IF n = c.n THEN aeStore.out[n] + 1 ELSE aeStore.out[n]
          \/ aeStore.receipt = "retained" /\ aeStore'.receipt = "released" /\ UNCHANGED aeStore.out
      OBVIOUS
    <3> QED BY ONLY <3>1, <1>8
  <2>2. x.pc = "commit" /\ c.n = x.n /\ aeStore.inv.tok = x.inv.tok
    BY <2>1 DEF WorkerMoves, Sends, Adds, FencePasses
  <2>3. aeStore.inv.count < c.n
    <3>1. x.pc \in Executing
      BY <2>2 DEF Executing, Publishing
    <3> QED BY <3>1, <2>2, WorkerHolds
  <2>4. aeStore.receipt # "expired"
    <3>1. aeStore.receipt = "expired" => x.pc \in Quiet
      BY DEF CountInv, CountOK
    <3> QED BY <2>2, <3>1 DEF Quiet, Recovering
  <2>5. Legal(c, Leaving(w, y))
    BY DEF WorkerMoves
  <2>6. /\ \A m \in Runs : aeStore.out[m] = 0
        /\ \A m \in Runs : m > c.n => ~Begun(m)
    BY <1>1, <2>1, <2>3, <2>4, <2>5, OutputAdds
  <2>7. \A n \in Runs : Begun(n)' => Begun(n)
    BY <1>4, <2>2
  <2>8. \A n \in Runs : aeStore'.out[n] = IF n = c.n THEN 1 ELSE 0
    BY <2>1, <2>6
  <2>9. \A n, m \in Runs : aeStore'.out[n] > 0 /\ m > n => ~Begun(m)'
    BY <2>6, <2>7, <2>8
  <2>10. ~AppliedAgain'
    BY <2>8 DEF AppliedAgain
  <2> QED BY <1>5, <2>9, <2>10 DEF RunsOK
<1> QED BY <1>7, <1>8

\* The outputs after a worker's step.
LEMMA WorkerKeepsOutputs ==
    ASSUME AeInv, AeInv', ClaimInv, OutcomeInv, CountInv, NEW w \in AeWorkers, NEW y \in AeWorkerType,
           NEW c \in AeCommands, WorkerMoves(w, y, c)
    PROVE  OutputsOK'
<1> DEFINE x == aeWorker[w]
<1>1. /\ \A z \in Copies' : z \in Copies \/ z = y.inv \/ (c.kind = "invocation" /\ z = c.inv)
      /\ \A d \in Outputs' : d \in Outputs \/ (d = c /\ d \in aeLate' /\ d.kind = "output")
  BY WorkerDescends
<1>2. /\ y.pc \in Claimless => y.inv = NewInvocation
      /\ y.pc \notin Claimless => x.pc \notin Claimless /\ MadeFrom(y.inv, x.inv)
      /\ c.kind = "invocation" => /\ x.pc \notin Claimless /\ MadeFrom(c.inv, x.inv)
                                  /\ x.pc \in Ending => c.inv.status # "running"
      /\ c.kind = "output" => x.pc = "commit" /\ c.n = x.n /\ c.tok = x.inv.tok
      /\ c.kind = "output" /\ c \in aeLate' => y.pc \in Ending
      /\ x.pc \in Ending => y.pc \in Ending \cup Claimless
      /\ y.pc \notin Claimless \cup {"put early run"} => y.inv.count = x.inv.count /\ y.inv.status = x.inv.status
  BY DEF WorkerMoves, Moves, Sends, Counts
<1>3. NewInvocation.tok = 0
  BY DEF NewInvocation
<1>4. Ending \cap (Claimless \cup {"put early run"}) = {}
  BY DEF Ending, Claimless
<1>5. /\ \A d \in Outputs : d.tok # 0 /\ (d.tok = x.inv.tok => x.pc \in Ending)
      /\ x.inv \in Copies
  BY DEF ClaimInv, ClaimOK, TokenInv, PassedOver, Copies
<1>6. ASSUME NEW d \in Outputs, NEW z \in Copies', z.tok = d.tok, z.status = "running"
      PROVE  z.count < d.n
  <2>1. \A u \in Copies : u.tok = d.tok /\ u.status = "running" => u.count < d.n
    BY DEF CountInv, OutputsOK
  <2>2. CASE z = y.inv
    <3>1. y.pc \notin Claimless
      BY <1>2, <1>3, <1>5, <1>6, <2>2
    <3>2. x.pc \in Ending
      BY <1>2, <1>5, <1>6, <2>2, <3>1 DEF MadeFrom
    <3>3. y.inv.count = x.inv.count /\ y.inv.status = x.inv.status /\ y.inv.tok = x.inv.tok
      BY <1>2, <1>4, <3>1, <3>2 DEF MadeFrom
    <3> QED BY <1>5, <1>6, <2>1, <2>2, <3>3
  <2>3. CASE c.kind = "invocation" /\ z = c.inv
    BY <1>2, <1>5, <1>6, <2>3 DEF MadeFrom
  <2> QED BY <1>1, <1>6, <2>1, <2>2, <2>3
<1>7. ASSUME c.kind = "output", c \in aeLate', NEW z \in Copies', z.tok = c.tok
      PROVE  z.count < c.n
  <2>1. c.n = x.inv.count + 1 /\ x.pc \notin Claimless
    <3>1. x.pc \in Executing /\ x.pc \notin Claimless /\ c.n = x.n
      BY <1>2, <1>7 DEF Executing, Publishing, Claimless
    <3> QED BY <3>1, WorkerHolds
  <2>2. \A u \in Copies : u.tok = x.inv.tok => u.count <= x.inv.count
    BY <2>1 DEF CountInv, CountOK
  <2>3. z \in Copies \/ z = y.inv
    BY <1>1, <1>7
  <2>4. z.count <= x.inv.count
    <3>1. CASE z \in Copies
      BY <1>2, <1>7, <2>2, <3>1
    <3>2. CASE z = y.inv
      <4>1. y.inv.count = x.inv.count
        BY <1>2, <1>4, <1>7
      <4>2. x.inv.count <= x.inv.count
        BY <1>5, <2>2
      <4> QED BY <3>2, <4>1, <4>2
    <3> QED BY <2>3, <3>1, <3>2
  <2>5. z.count \in Nat /\ x.inv.count \in Nat
    <3>1. x.inv \in Invocations
      BY <1>5, CopiesTyped
    <3>2. z \in Invocations
      <4>1. (Copies \subseteq Invocations)'
        BY CopiesTyped, PTL
      <4> QED BY <1>7, <4>1
    <3> QED BY <3>1, <3>2, AutomationAssumption DEF Invocations
  <2> QED BY <2>1, <2>4, <2>5
<1>8. aeStore'.receipt = "expired" => Outputs' = {}
  <2> SUFFICES ASSUME aeStore'.receipt = "expired" PROVE Outputs' = {}
    OBVIOUS
  <2>1. aeStore.receipt = "expired" /\ x.pc \in Quiet
    BY WorkerHolds
  <2>2. Outputs = {}
    BY <2>1 DEF CountInv, OutputsOK
  <2>3. c.kind # "output"
    BY <1>2, <2>1 DEF Quiet, Recovering
  <2> QED BY <1>1, <2>2, <2>3
<1>9. ASSUME NEW d \in Outputs', NEW z \in Copies', z.tok = d.tok, z.status = "running" PROVE z.count < d.n
  BY <1>1, <1>6, <1>7, <1>9
<1> QED BY <1>8, <1>9 DEF OutputsOK

\* Counting.
LEMMA NextNumber ==
    /\ \A a \in Nat : a >= a
    /\ \A a, b \in Nat : a = b + 1 => a # 0 /\ a - 1 = b
    /\ \A a, b \in Nat : a = b + 1 => \A k \in 1..(a - 1) : k \in Nat /\ k <= b /\ (k = b \/ (k <= b - 1 /\ b - 1 \in Nat))
OBVIOUS

\* A claim that was accepted is the only one of its version: the invocation
\* counts what the claim does.
LEMMA ClaimAccepted ==
    ASSUME AeInv, AeInv', ClaimInv, OutcomeInv, CountInv, NEW w \in AeWorkers, NEW y \in AeWorkerType,
           NEW c \in AeCommands, WorkerMoves(w, y, c), y.pc = "claimed"
    PROVE  Reached(y.inv.count)'
<1> DEFINE x == aeWorker[w]
<1>1. /\ x.pc = "put claim" /\ y.inv.count = x.inv.count /\ MadeFrom(y.inv, x.inv) /\ aeStore'.inv.tok = y.inv.tok
      /\ c.kind = "invocation" => MadeFrom(c.inv, x.inv) /\ c.inv.count <= y.inv.count
  BY DEF WorkerMoves, Moves, Counts, Sends, Claimless, Claiming
<1>2. /\ aeStore.inv.tok # x.inv.tok /\ x.inv.tok # 0
      /\ \A d \in Flying : d.kind = "invocation" => d.inv.tok # x.inv.tok
      /\ \A v \in AeWorkers : aeWorker[v].inv.tok = x.inv.tok => v = w
  BY <1>1 DEF ClaimInv, ClaimOK, TokenInv, Claimless, Claiming
<1>3. \A u \in Copies : u.tok = x.inv.tok => u = x.inv
  BY <1>2 DEF Copies
<1>4. /\ Copies \subseteq Invocations /\ aeStore.inv \in Copies /\ x.inv \in Copies
  BY CopiesTyped DEF Copies
<1>5. (Copies \subseteq Invocations /\ aeStore.inv \in Copies)'
  BY CopiesTyped, PTL
<1>6. c.kind = "invocation" /\ aeStore'.inv = c.inv /\ ~Stale(aeStore.inv, c.inv)
  <2>1. \/ aeStore'.inv = aeStore.inv
        \/ c.kind = "invocation" /\ aeStore'.inv = c.inv /\ ~Stale(aeStore.inv, c.inv)
    BY CommandEffect DEF WorkerMoves, AeInv, AeTypeOK
  <2> QED BY <1>1, <1>2, <2>1 DEF MadeFrom
<1>7. aeStore'.inv.ver = x.inv.ver /\ aeStore'.inv.tok = x.inv.tok /\ aeStore'.inv.count >= x.inv.count
  <2>1. x.inv.count \in Nat /\ c.inv.count \in Nat
    BY <1>4, <1>5, <1>6, AutomationAssumption DEF Invocations
  <2> QED BY <1>1, <1>6, <2>1 DEF MadeFrom
<1>8. x.inv.ver = aeStore.inv.ver + 1
  <2>1. x.inv.ver <= aeStore.inv.ver + 1 /\ x.inv.ver # 0 /\ (aeStore.inv.tok = 0 => aeStore.inv.ver = 0)
    BY <1>2, <1>4 DEF CountInv, CopiesOK
  <2>2. x.inv.ver \in Nat /\ aeStore.inv.ver \in Nat
    BY <1>4 DEF Invocations
  <2>3. ~(x.inv.ver < aeStore.inv.ver)
    BY <1>6, <1>7 DEF Stale
  <2>4. x.inv.ver # aeStore.inv.ver
    <3>1. aeStore.inv.tok # 0 => x.inv.ver # aeStore.inv.ver
      BY <1>2, <1>6, <1>7 DEF Stale
    <3> QED BY <2>1, <3>1
  <2> QED BY <2>1, <2>2, <2>3, <2>4
<1>9. ASSUME NEW z \in Copies' PROVE Beaten(z)' \/ z.count >= y.inv.count
  <2>1. z \in Copies \/ z = y.inv \/ z = c.inv
    <3>1. \A u \in Copies' : u \in Copies \/ u = y.inv \/ (c.kind = "invocation" /\ u = c.inv)
      BY WorkerDescends
    <3> QED BY <3>1, <1>9
  <2>2. CASE z \in Copies
    <3>1. CASE z.tok = x.inv.tok
      <4>1. x.inv.count \in Nat
        BY <1>4, AutomationAssumption DEF Invocations
      <4>2. z.count = y.inv.count
        BY <2>2, <3>1, <1>1, <1>3
      <4>3. z.count >= y.inv.count
        BY <4>1, <4>2, <1>1, NextNumber
      <4> QED BY <4>3
    <3>2. CASE z.tok # x.inv.tok
      <4>1. z.ver <= aeStore'.inv.ver
        BY <2>2, <1>7, <1>8 DEF CountInv, CopiesOK
      <4>2. z.ver \in Nat /\ aeStore'.inv.ver \in Nat
        BY <1>4, <1>5, <2>2 DEF Invocations
      <4>3. z.ver < aeStore'.inv.ver \/ z.ver = aeStore'.inv.ver
        BY <4>1, <4>2
      <4> QED BY <4>3, <3>2, <1>2, <1>7 DEF Beaten
    <3> QED BY <3>1, <3>2
  <2>3. CASE z = y.inv
    <3>1. z.count \in Nat
      BY <1>5, <1>9, AutomationAssumption DEF Invocations
    <3>2. z.count >= y.inv.count
      BY <2>3, <3>1
    <3> QED BY <3>2
  <2>4. CASE z = c.inv
    BY <2>4, <1>1, <1>6, <1>7
  <2> QED BY <2>1, <2>2, <2>3, <2>4
<1> QED BY <1>1, <1>7, <1>9 DEF Reached

\* What the worker knows after its step.
LEMMA WorkerCountsOn ==
    ASSUME AeInv, AeInv', ClaimInv, OutcomeInv, CountInv, NEW w \in AeWorkers, NEW y \in AeWorkerType,
           NEW c \in AeCommands, WorkerMoves(w, y, c)
    PROVE  CountOK(y)'
<1> DEFINE x == aeWorker[w]
<1>1. /\ \A k \in Nat : Reached(k) => Reached(k)'
      /\ \A k \in Runs : Shut(k) => Shut(k)'
      /\ \A n \in Runs : Passed(n) => Passed(n)'
      /\ aeStore'.receipt = "expired" => aeStore.receipt = "expired" /\ x.pc \in Quiet
  BY WorkerHolds
<1>2. Counts(x, y) /\ Moves(x, y) /\ Sends(x, y, c) /\ CountOK(x) /\ WorkerOK(x)
  BY DEF WorkerMoves, CountInv, OutcomeInv
<1>3. x.inv.count \in Nat /\ y.n \in Nat /\ x.n \in Nat /\ (y.n # 0 => y.n \in Runs)
  <2>1. x \in AeWorkerType
    BY DEF AeInv, AeTypeOK
  <2> QED BY <2>1, AutomationAssumption DEF AeWorkerType, Invocations, Runs
<1>4. y.pc = "put early run" => Shut(y.n)' /\ Reached(y.n - 1)'
  <2> SUFFICES ASSUME y.pc = "put early run" PROVE Shut(y.n)' /\ Reached(y.n - 1)'
    OBVIOUS
  <2>1. x.pc = "claimed" /\ y.n = x.inv.count + 1 /\ Shut(y.n)
    BY <1>2 DEF Counts
  <2>2. Reached(x.inv.count)
    BY <1>2, <2>1 DEF CountOK
  <2>3. y.n \in Runs /\ y.n - 1 = x.inv.count
    <3>1. y.n # 0 /\ y.n - 1 = x.inv.count
      BY <1>3, <2>1, NextNumber
    <3> QED BY <1>3, <3>1
  <2>4. Shut(y.n)'
    BY <1>1, <2>1, <2>3
  <2>5. PICK j \in Nat : j = x.inv.count
    BY <1>3
  <2>6. Reached(j)'
    BY <1>1, <2>2, <2>5
  <2>7. y.n - 1 = j
    BY <2>3, <2>5
  <2> QED BY <2>4, <2>6, <2>7
<1>5. y.pc = "execute" => Passed(y.n)'
  <2> SUFFICES ASSUME y.pc = "execute" PROVE Passed(y.n)'
    OBVIOUS
  <2>1. CASE x.pc = "claimed" /\ y.n = x.inv.count + 1
    <3>1. Reached(x.inv.count)
      BY <1>2, <2>1 DEF CountOK
    <3>2. ASSUME NEW k \in 1..(y.n - 1) PROVE Reached(k)
      <4>1. k \in Nat /\ k <= x.inv.count
        BY <1>3, <2>1, NextNumber
      <4> QED BY <1>3, <3>1, <4>1, ReachedDown
    <3>3. y.n \in Runs
      BY <1>3, <2>1, NextNumber
    <3> QED BY <1>1, <3>2, <3>3 DEF Passed
  <2>2. CASE x.pc = "put early run" /\ y.n = x.n + 1
    <3>1. Shut(x.n) /\ Reached(x.n - 1) /\ x.n = x.inv.count
      BY <1>2, <2>2 DEF CountOK, WorkerOK
    <3>4. \A k \in 1..(y.n - 1) : k \in Nat /\ (k = x.n \/ (k <= x.n - 1 /\ x.n - 1 \in Nat))
      BY ONLY <1>3, <2>2, NextNumber
    <3>2. ASSUME NEW k \in 1..(y.n - 1) PROVE Shut(k) \/ Reached(k)
      <4>1. k \in Nat /\ (k = x.n \/ (k <= x.n - 1 /\ x.n - 1 \in Nat))
        BY <3>2, <3>4
      <4> QED BY <3>1, <4>1, ReachedDown
    <3>3. y.n \in Runs
      BY <1>3, <2>2, NextNumber
    <3> QED BY <1>1, <3>2, <3>3 DEF Passed
  <2> QED BY <1>2, <2>1, <2>2 DEF Counts
<1>6. y.pc \notin Claimless => \A z \in Copies' : z.tok = y.inv.tok => z.count <= y.inv.count
  <2> SUFFICES ASSUME y.pc \notin Claimless, NEW z \in Copies', z.tok = y.inv.tok PROVE z.count <= y.inv.count
    OBVIOUS
  <2>1. z \in Copies \/ z = y.inv \/ (c.kind = "invocation" /\ z = c.inv)
    BY WorkerDescends
  <2>2. x.pc \notin Claimless /\ y.inv.tok = x.inv.tok /\ x.inv.count <= y.inv.count
    BY <1>2 DEF Moves, MadeFrom
  <2>3. y.inv.count \in Nat
    BY AutomationAssumption DEF AeWorkerType, Invocations
  <2>4. CASE z \in Copies
    <3>1. z.count <= x.inv.count
      BY <1>2, <2>2, <2>4 DEF CountOK
    <3>2. z.count \in Nat
      BY <2>4, CopiesTyped, AutomationAssumption DEF Invocations
    <3> QED BY <1>3, <2>2, <2>3, <3>1, <3>2
  <2>5. CASE z = y.inv
    BY <2>3, <2>5
  <2>6. CASE c.kind = "invocation" /\ z = c.inv
    BY <1>2, <2>6 DEF Sends
  <2> QED BY <2>1, <2>4, <2>5, <2>6
<1>7. aeStore'.receipt = "expired" => y.pc \in Quiet
  <2> SUFFICES ASSUME aeStore.receipt = "expired", x.pc \in Quiet, y.pc \notin Quiet PROVE FALSE
    BY <1>1
  <2>1. ~Recoverable
    BY <1>2 DEF Counts
  <2>2. PICK n \in Runs : aeStore.out[n] > 0
    BY DEF OutcomeInv, RecordsOK, SomeOutput
  <2>3. aeStore.att[n].state = "succeeded"
    BY <2>2 DEF OutcomeInv, RecordsOK
  <2>4. n \in Tried /\ \A m \in Tried : ~(m > n)
    BY <2>2, <2>3 DEF Tried, CountInv, RunsOK, Begun
  <2>5. Tried \subseteq Nat
    BY AutomationAssumption DEF Tried, Runs
  <2>6. \A m \in Tried : m <= n
    BY <2>4, <2>5
  <2>7. \A p \in Tried : (\A m \in Tried : m <= p) => p = n
    <3> SUFFICES ASSUME NEW p \in Tried, \A m \in Tried : m <= p PROVE p = n
      OBVIOUS
    <3>1. p \in Nat /\ n \in Nat /\ n <= p /\ p <= n
      BY <2>4, <2>5, <2>6
    <3> QED BY <3>1
  <2>8. LastRun = n
    BY <2>4, <2>6, <2>7 DEF LastRun
  <2> QED BY <2>1, <2>3, <2>4, <2>8 DEF Recoverable
<1>8. y.pc = "claimed" => Reached(y.inv.count)'
  BY ClaimAccepted
<1> QED BY <1>4, <1>5, <1>6, <1>7, <1>8 DEF CountOK

\* The counts after a worker's step.
LEMMA WorkerKeepsCounts ==
    ASSUME AeInv, AeInv', ClaimInv, OutcomeInv, CountInv, NEW w \in AeWorkers, NEW y \in AeWorkerType,
           NEW c \in AeCommands, WorkerMoves(w, y, c)
    PROVE  CountInv'
<1> DEFINE x == aeWorker[w]
<1>1. /\ CopiesOK'
      /\ \A k \in Nat : Reached(k) => Reached(k)'
      /\ \A k \in Runs : Shut(k) => Shut(k)'
      /\ \A n \in Runs : Passed(n) => Passed(n)'
      /\ aeStore'.receipt = "expired" => aeStore.receipt = "expired"
  BY WorkerHolds
<1>2. \A v \in AeWorkers : aeWorker'[v] = IF v = w THEN y ELSE aeWorker[v]
  BY WorkerCommits
<1>3. ASSUME NEW v \in AeWorkers, v # w PROVE CountOK(aeWorker[v])'
  <2>1. PICK z \in AeWorkerType : z = aeWorker[v]
    BY DEF AeInv, AeTypeOK
  <2>2. CountOK(z) /\ WorkerOK(z) /\ Sane(z)
    BY <2>1 DEF CountInv, OutcomeInv, AeInv
  <2>3. z.inv.count \in Nat
    BY AutomationAssumption DEF AeWorkerType, Invocations
  <2>4. z.pc = "put early run" => z.n \in Runs /\ z.n - 1 \in Nat
    <3>1. z.pc = "put early run" => z.n \in Runs
      BY <2>2 DEF Sane, BeforeRun
    <3>2. \A k \in Runs : k - 1 \in Nat
      BY AutomationAssumption DEF Runs
    <3> QED BY <3>1, <3>2
  <2>5. z.pc = "execute" => z.n \in Runs
    <3>1. z.pc = "execute" => z.n = z.inv.count + 1
      BY <2>2 DEF WorkerOK, Executing
    <3> QED BY <2>3, <3>1, AutomationAssumption DEF AeWorkerType, Runs
  <2>6. z.pc \notin Claimless => \A u \in Copies' : u.tok = z.inv.tok => u.count <= z.inv.count
    <3> SUFFICES ASSUME z.pc \notin Claimless, NEW u \in Copies', u.tok = z.inv.tok PROVE u.count <= z.inv.count
      OBVIOUS
    <3>1. u \in Copies \/ u = y.inv \/ (c.kind = "invocation" /\ u = c.inv)
      BY WorkerDescends
    <3>2. z.inv.tok # 0 /\ z.inv.tok # x.inv.tok
      BY <1>3, <2>1 DEF ClaimInv, TokenInv, ClaimOK
    <3>3. /\ y.pc \in Claimless => y.inv = NewInvocation
          /\ y.pc \notin Claimless => y.inv.tok = x.inv.tok
          /\ c.kind = "invocation" => c.inv.tok = x.inv.tok
      BY DEF WorkerMoves, Moves, Sends, MadeFrom
    <3>4. NewInvocation.tok = 0
      BY DEF NewInvocation
    <3>5. u \in Copies
      BY <3>1, <3>2, <3>3, <3>4
    <3> QED BY <2>2, <3>5 DEF CountOK
  <2>7. CountOK(z)'
    BY <1>1, <2>2, <2>3, <2>4, <2>5, <2>6 DEF CountOK
  <2> QED BY <1>2, <1>3, <2>1, <2>7 DEF CountOK
<1>4. CountOK(aeWorker[w])'
  <2>1. CountOK(y)'
    BY WorkerCountsOn
  <2> QED BY <1>2, <2>1 DEF CountOK
<1>5. RunsOK' /\ OutputsOK'
  BY WorkerKeepsRuns, WorkerKeepsOutputs
<1> QED BY <1>1, <1>3, <1>4, <1>5 DEF CountInv

\* The counts after a worker read the invocation to claim it.
LEMMA ClaimTakenKeepsCounts ==
    ASSUME AeInv, AeInv', ClaimInv, OutcomeInv, CountInv, NEW w \in AeWorkers, NEW y \in AeWorkerType, ClaimTaken(w, y)
    PROVE  CountInv'
<1>0. /\ Copies \subseteq Invocations /\ aeStore.inv \in Copies /\ aeToken \in Nat /\ TokenInv /\ CopiesOK
      /\ aeWorker \in [AeWorkers -> AeWorkerType]
  BY CopiesTyped DEF ClaimInv, CountInv, AeInv, AeTypeOK
<1>1. /\ aeStore' = aeStore /\ Flying' = Flying /\ Outputs' = Outputs /\ aeToken' = aeToken + 1 /\ aeLate' = aeLate
      /\ \A v \in AeWorkers : aeWorker'[v] = IF v = w THEN y ELSE aeWorker[v]
      /\ y.inv.tok = aeToken + 1 /\ y.inv.count = aeStore.inv.count /\ y.inv.ver = aeStore.inv.ver + 1
  BY <1>0 DEF ClaimTaken, Flying, Outputs
<1>2. \A z \in Copies' : z \in Copies \/ z = y.inv
  BY <1>1 DEF Copies
<1>3. \A z \in Copies : z.tok \in Nat /\ z.tok <= aeToken /\ MadeFrom(z, z)
  BY <1>0, MadeFromTyped DEF TokenInv, Invocations
<1>4. \A z \in Copies : z.tok # y.inv.tok
  BY <1>0, <1>1, <1>3
<1>5. aeToken + 1 > aeToken /\ aeToken + 1 # 0
  BY <1>0
<1>6. Descend
  BY <1>0, <1>1, <1>2, <1>3, <1>5 DEF Descend
<1>7. Traces
  <2>1. ASSUME NEW z \in Copies
        PROVE  \/ z.tok = 0 /\ z.ver = 0 /\ z.count = 0
               \/ z.tok # 0 /\ \E u \in Copies : MadeFrom(z, u)
    BY <1>0, <1>3 DEF CopiesOK
  <2>2. ~Beaten(aeStore.inv)
    BY NotBeaten
  <2> QED BY <1>0, <1>1, <1>2, <1>3, <1>5, <2>1, <2>2 DEF Traces
<1>8. Drift
  BY <1>1, NothingDrifts
<1>9. CopiesOK'
  BY <1>0, <1>7, <1>8, CopiesHold
<1>10. /\ \A k \in Nat : Reached(k) => Reached(k)'
       /\ \A k \in Runs : Shut(k) => Shut(k)'
       /\ \A n \in Runs : Passed(n) => Passed(n)'
  BY <1>0, <1>6, <1>7, <1>8, CountsHold
<1>11. /\ y.pc \in {"put claim", "put recovery claim"}
       /\ y.pc = "put claim" => aeWorker[w].pc = "claim"
  BY DEF ClaimTaken
<1>12. RunsOK'
  <2>1. \A n \in Runs : Begun(n)' => Begun(n)
    BY <1>1, <1>11 DEF Begun
  <2>2. AppliedAgain' <=> AppliedAgain
    BY <1>1 DEF AppliedAgain
  <2> QED BY <1>1, <1>10, <2>1, <2>2 DEF RunsOK, CountInv
<1>13. OutputsOK'
  <2>1. \A d \in Outputs : d.tok <= aeToken
    BY <1>0 DEF TokenInv
  <2>2. \A d \in Outputs : d.tok \in Nat
    BY DEF Outputs, AeInv, AeTypeOK, AeCommands, InvocationPuts
  <2>3. \A d \in Outputs : d.tok # y.inv.tok
    BY <1>0, <1>1, <2>1, <2>2
  <2>4. \A d \in Outputs : \A z \in Copies' : z.tok = d.tok => z \in Copies
    BY <1>2, <2>3
  <2> QED BY <1>1, <2>4 DEF OutputsOK, CountInv
<1>14. ASSUME NEW v \in AeWorkers PROVE CountOK(aeWorker[v])'
  <2>1. CASE v = w
    <3>1. CountOK(y)'
      <4>1. \A z \in Copies' : z.tok = y.inv.tok => z.count <= y.inv.count
        <5>1. y.inv.count \in Nat
          BY AutomationAssumption DEF AeWorkerType, Invocations
        <5>2. y.inv.count <= y.inv.count
          BY <5>1
        <5> QED BY <1>2, <1>4, <5>2
      <4>2. aeStore'.receipt = "expired" => y.pc \in Quiet
        <5>1. aeStore.receipt = "expired" => aeWorker[w].pc \in Quiet
          BY DEF CountInv, CountOK
        <5> QED BY <1>1, <1>11, <5>1 DEF Quiet, Recovering
      <4> QED BY <4>1, <4>2, <1>11 DEF CountOK
    <3> QED BY <2>1, <3>1, <1>1 DEF CountOK
  <2>2. CASE v # w
    <3>1. PICK z \in AeWorkerType : z = aeWorker[v]
      BY <1>0
    <3>2. CountOK(z) /\ WorkerOK(z) /\ Sane(z)
      BY <3>1 DEF CountInv, OutcomeInv, AeInv
    <3>3. z.inv.count \in Nat
      BY AutomationAssumption DEF AeWorkerType, Invocations
    <3>4. z.pc = "put early run" => z.n \in Runs /\ z.n - 1 \in Nat
      <4>1. z.pc = "put early run" => z.n \in Runs
        BY <3>2 DEF Sane, BeforeRun
      <4>2. \A k \in Runs : k - 1 \in Nat
        BY AutomationAssumption DEF Runs
      <4> QED BY <4>1, <4>2
    <3>5. z.pc = "execute" => z.n \in Runs
      BY <3>2 DEF Sane, BeforeRun
    <3>6. z.pc \notin Claimless => \A u \in Copies' : u.tok = z.inv.tok => u.count <= z.inv.count
      <4>1. z.inv \in Copies
        BY <3>1 DEF Copies
      <4> QED BY <1>2, <1>4, <3>2, <4>1 DEF CountOK
    <3>7. CountOK(z)'
      BY <1>1, <1>10, <3>2, <3>3, <3>4, <3>5, <3>6 DEF CountOK
    <3> QED BY <1>1, <2>2, <3>1, <3>7 DEF CountOK
  <2> QED BY <2>1, <2>2
<1> QED BY <1>9, <1>12, <1>13, <1>14 DEF CountInv

\* A step of nobody's, without a request: a late command is applied, or time passes.
Settles ==
    /\ UNCHANGED aeWorker
    /\ \A y \in Copies' : \E x \in Copies : y.tok = x.tok /\ y.ver = x.ver /\ y.count = x.count /\ y.status = x.status
    /\ \E x \in Copies : MadeFrom(aeStore'.inv, x) /\ ~Beaten(x)
    /\ Outputs' \subseteq Outputs
    /\ \A n \in Runs : Begun(n)' => Begun(n)
    /\ \/ aeStore'.out = aeStore.out
       \/ \E c \in Outputs : /\ c.n \in Runs /\ Adds(c, c.n)
                             /\ \A n \in Runs : aeStore'.out[n] = IF n = c.n THEN aeStore.out[n] + 1 ELSE aeStore.out[n]
    /\ aeStore'.receipt = "expired" =>
          \/ aeStore.receipt = "expired"
          \/ Outputs' = {} /\ \A w \in AeWorkers : aeWorker[w].pc \in {"idle", "dead"}

\* The counts after such a step.
LEMMA SettledKeeps ==
    ASSUME AeInv, AeInv', ClaimInv, OutcomeInv, CountInv, Drift, Descend, Settles
    PROVE  CountInv'
<1>0. /\ Copies \subseteq Invocations /\ aeStore.inv \in Copies /\ TokenInv /\ CopiesOK /\ RunsOK /\ RecordsOK /\ OutputsOK
      /\ aeWorker \in [AeWorkers -> AeWorkerType] /\ aeWorker' = aeWorker
  BY CopiesTyped DEF ClaimInv, CountInv, OutcomeInv, AeInv, AeTypeOK, Settles
<1>00. \A y \in Copies' : y.count \in Nat
  <2>1. (Copies \subseteq Invocations)'
    BY CopiesTyped, PTL
  <2> QED BY <2>1, AutomationAssumption DEF Invocations
<1>1. \A y \in Copies' : \E x \in Copies : y.tok = x.tok /\ y.ver = x.ver /\ y.count = x.count /\ y.status = x.status
  BY DEF Settles
<1>2. Traces
  <2>1. \A y \in Copies' : \/ y.tok = 0 /\ y.ver = 0 /\ y.count = 0
                           \/ y.tok # 0 /\ \E x \in Copies : MadeFrom(y, x)
    <3> SUFFICES ASSUME NEW y \in Copies'
                 PROVE  (y.tok = 0 /\ y.ver = 0 /\ y.count = 0) \/ (y.tok # 0 /\ \E x \in Copies : MadeFrom(y, x))
      OBVIOUS
    <3>1. PICK x \in Copies : y.tok = x.tok /\ y.ver = x.ver /\ y.count = x.count
      BY <1>1
    <3>2. x.tok = 0 => x.ver = 0 /\ x.count = 0
      BY <1>0 DEF CopiesOK
    <3>3. MadeFrom(x, x)
      BY <1>0, MadeFromTyped
    <3>4. MadeFrom(y, x)
      BY <3>1, <3>3 DEF MadeFrom
    <3> QED BY <3>1, <3>2, <3>4
  <2> QED BY <2>1 DEF Settles, Traces
<1>3. CopiesOK'
  BY <1>0, <1>2, CopiesHold
<1>4. /\ \A k \in Nat : Reached(k) => Reached(k)'
      /\ \A k \in Runs : Shut(k) => Shut(k)'
      /\ \A n \in Runs : Passed(n) => Passed(n)'
  BY <1>0, <1>2, CountsHold
<1>5. \A n \in Runs : Begun(n)' => Begun(n) /\ Passed(n)'
  BY <1>0, <1>4 DEF Settles, RunsOK
<1>6. RunsOK'
  <2>1. CASE aeStore'.out = aeStore.out
    <3>1. AppliedAgain' <=> AppliedAgain
      BY <2>1 DEF AppliedAgain
    <3>2. \A n, m \in Runs : aeStore'.out[n] > 0 /\ m > n => ~Begun(m)'
      BY <1>0, <1>5, <2>1 DEF RunsOK
    <3> QED BY <1>0, <1>5, <3>1, <3>2 DEF RunsOK
  <2>2. CASE aeStore'.out # aeStore.out
    <3>1. PICK c \in Outputs : /\ c.n \in Runs /\ Adds(c, c.n)
                               /\ \A n \in Runs : aeStore'.out[n] = IF n = c.n THEN aeStore.out[n] + 1 ELSE aeStore.out[n]
      BY <2>2 DEF Settles
    <3>2. Legal(c, {})
      BY DEF OutcomeInv, Flying, Outputs
    <3>3. aeStore.inv.count < c.n
      BY <1>0, <3>1 DEF OutputsOK, Adds, FencePasses
    <3>4. aeStore.receipt # "expired"
      BY <1>0 DEF OutputsOK
    <3>5. /\ \A m \in Runs : aeStore.out[m] = 0
          /\ \A m \in Runs : m > c.n => ~Begun(m)
      BY <1>0, <3>1, <3>2, <3>3, <3>4, OutputAdds
    <3>6. \A n \in Runs : aeStore'.out[n] = IF n = c.n THEN 1 ELSE 0
      BY <3>1, <3>5
    <3>7. \A n, m \in Runs : aeStore'.out[n] > 0 /\ m > n => ~Begun(m)'
      BY <1>5, <3>5, <3>6
    <3>8. ~AppliedAgain'
      BY <3>6 DEF AppliedAgain
    <3> QED BY <1>5, <3>7, <3>8 DEF RunsOK
  <2> QED BY <2>1, <2>2
<1>7. OutputsOK'
  <2>1. ASSUME NEW d \in Outputs', NEW z \in Copies', z.tok = d.tok, z.status = "running" PROVE z.count < d.n
    <3>1. PICK x \in Copies : z.tok = x.tok /\ z.count = x.count /\ z.status = x.status
      BY <1>1
    <3>2. d \in Outputs
      BY DEF Settles
    <3> QED BY <1>0, <2>1, <3>1, <3>2 DEF OutputsOK
  <2>2. aeStore'.receipt = "expired" => Outputs' = {}
    BY <1>0 DEF Settles, OutputsOK
  <2> QED BY <2>1, <2>2 DEF OutputsOK
<1>8. ASSUME NEW v \in AeWorkers PROVE CountOK(aeWorker[v])'
  <2>1. PICK z \in AeWorkerType : z = aeWorker[v]
    BY <1>0
  <2>2. CountOK(z) /\ WorkerOK(z) /\ Sane(z)
    BY <2>1 DEF CountInv, OutcomeInv, AeInv
  <2>3. z.inv.count \in Nat
    BY AutomationAssumption DEF AeWorkerType, Invocations
  <2>4. z.pc = "put early run" => z.n \in Runs /\ z.n - 1 \in Nat
    <3>1. z.pc = "put early run" => z.n \in Runs
      BY <2>2 DEF Sane, BeforeRun
    <3>2. \A k \in Runs : k - 1 \in Nat
      BY AutomationAssumption DEF Runs
    <3> QED BY <3>1, <3>2
  <2>5. z.pc = "execute" => z.n \in Runs
    BY <2>2 DEF Sane, BeforeRun
  <2>6. z.pc \notin Claimless => \A u \in Copies' : u.tok = z.inv.tok => u.count <= z.inv.count
    <3> SUFFICES ASSUME z.pc \notin Claimless, NEW u \in Copies', u.tok = z.inv.tok PROVE u.count <= z.inv.count
      OBVIOUS
    <3>1. PICK x \in Copies : u.tok = x.tok /\ u.count = x.count
      BY <1>1
    <3> QED BY <2>2, <3>1 DEF CountOK
  <2>7. aeStore'.receipt = "expired" => z.pc \in Quiet
    BY <2>1, <2>2 DEF Settles, CountOK, Quiet
  <2>8. CountOK(z)'
    BY <1>4, <2>2, <2>3, <2>4, <2>5, <2>6, <2>7 DEF CountOK
  <2> QED BY <1>0, <2>1, <2>8 DEF CountOK
<1> QED BY <1>3, <1>6, <1>7, <1>8 DEF CountInv

\* A late command settles.
LEMMA LateSettles ==
    ASSUME AeInv, AeInv', ClaimInv, OutcomeInv, aeRequest.kind = "unused", LateApplied
    PROVE  Settles
<1>1. PICK c \in aeLate : /\ aeLate' = aeLate \ {c} /\ Writes(c)
                          /\ UNCHANGED <<aeWorker, aeToken, aeRequest>>
  BY DEF LateApplied, Writes
<1>2. c \in AeCommands /\ aeStore \in AeStoreType
  BY DEF AeInv, AeTypeOK
<1>3. /\ Flying' \subseteq Flying /\ Outputs' \subseteq Outputs /\ c \in Flying
      /\ c.kind = "output" => c \in Outputs
  BY <1>1 DEF Flying, Outputs
<1>4. \/ aeStore'.inv = aeStore.inv
      \/ c.kind = "invocation" /\ aeStore'.inv = c.inv /\ ~Stale(aeStore.inv, c.inv)
  BY <1>1, <1>2, CommandEffect
<1>5. /\ aeStore.inv \in Copies /\ Copies \subseteq Invocations /\ \A x \in Copies : MadeFrom(x, x)
      /\ c.kind = "invocation" => c.inv \in Copies
  BY <1>3, CopiesTyped, MadeFromTyped DEF Copies
<1>6. Copies' \subseteq Copies
  BY <1>1, <1>3, <1>4, <1>5 DEF Copies
<1>7. \A y \in Copies' : \E x \in Copies : y.tok = x.tok /\ y.ver = x.ver /\ y.count = x.count /\ y.status = x.status
  BY <1>6
<1>8. \E x \in Copies : MadeFrom(aeStore'.inv, x) /\ ~Beaten(x)
  <2>1. CASE aeStore'.inv = aeStore.inv
    BY <2>1, <1>5, NotBeaten
  <2>2. CASE c.kind = "invocation" /\ aeStore'.inv = c.inv /\ ~Stale(aeStore.inv, c.inv)
    BY <2>2, <1>5, NotBeaten
  <2> QED BY <1>4, <2>1, <2>2
<1>9. ASSUME NEW n \in Runs, Begun(n)' PROVE Begun(n)
  <2>1. aeStore'.att[n] = aeStore.att[n] \/ (c.kind = "attempt" /\ c.n = n)
    BY <1>1, <1>2, CommandEffect
  <2> QED BY <1>1, <1>9, <2>1 DEF Begun
<1>10. \/ UNCHANGED <<aeStore.out, aeStore.receipt>>
       \/ /\ c.kind = "output" /\ Adds(c, c.n) /\ c.n \in Runs /\ aeStore'.receipt = "retained"
          /\ \A n \in Runs : aeStore'.out[n] = IF n = c.n THEN aeStore.out[n] + 1 ELSE aeStore.out[n]
       \/ aeStore.receipt = "retained" /\ aeStore'.receipt = "released" /\ UNCHANGED aeStore.out
  BY <1>1, <1>2, CommandEffect
<1>11. aeStore'.receipt = "expired" => aeStore.receipt = "expired"
  BY <1>10
<1>12. \/ aeStore'.out = aeStore.out
       \/ \E d \in Outputs : /\ d.n \in Runs /\ Adds(d, d.n)
                             /\ \A n \in Runs : aeStore'.out[n] = IF n = d.n THEN aeStore.out[n] + 1 ELSE aeStore.out[n]
  BY ONLY <1>3, <1>10
<1> QED BY <1>1, <1>3, <1>7, <1>8, <1>9, <1>11, <1>12 DEF Settles

\* Time settles, and so does a step that changes nothing.
LEMMA TimeSettles ==
    ASSUME AeInv, AeInv', ClaimInv, OutcomeInv, aeRequest.kind = "unused",
           LeaseExpires \/ ReceiptExpires \/ UNCHANGED aeVars
    PROVE  Settles
<1>0. aeStore \in AeStoreType /\ aeStore.inv \in Copies /\ Copies \subseteq Invocations
  BY CopiesTyped DEF AeInv, AeTypeOK
<1>1. /\ aeWorker' = aeWorker /\ aeLate' = aeLate /\ aeRequest' = aeRequest
      /\ aeStore'.att = aeStore.att /\ aeStore'.out = aeStore.out
  BY <1>0 DEF LeaseExpires, ReceiptExpires, aeVars, AeStoreType
<1>2. /\ aeStore'.inv.tok = aeStore.inv.tok /\ aeStore'.inv.ver = aeStore.inv.ver
      /\ aeStore'.inv.count = aeStore.inv.count /\ aeStore'.inv.status = aeStore.inv.status
  BY <1>0 DEF LeaseExpires, ReceiptExpires, aeVars, AeStoreType, Invocations
<1>3. Flying' = Flying /\ Outputs' = Outputs
  BY <1>1 DEF Flying, Outputs
<1>4. \A y \in Copies' : y = aeStore'.inv \/ y \in Copies
  BY <1>1, <1>3 DEF Copies
<1>5. \A y \in Copies' : \E x \in Copies : y.tok = x.tok /\ y.ver = x.ver /\ y.count = x.count /\ y.status = x.status
  BY <1>0, <1>2, <1>4
<1>6. MadeFrom(aeStore'.inv, aeStore.inv) /\ ~Beaten(aeStore.inv)
  <2>1. MadeFrom(aeStore.inv, aeStore.inv)
    BY <1>0, MadeFromTyped
  <2> QED BY <1>2, <2>1, NotBeaten DEF MadeFrom
<1>7. \A n \in Runs : Begun(n)' => Begun(n)
  BY <1>1 DEF Begun
<1>8. aeStore'.receipt = "expired" =>
         \/ aeStore.receipt = "expired"
         \/ Outputs' = {} /\ \A w \in AeWorkers : aeWorker[w].pc \in {"idle", "dead"}
  <2>1. CASE ReceiptExpires
    <3>1. aeLate = {} /\ \A w \in AeWorkers : aeWorker[w].pc \in {"idle", "dead"}
      BY <2>1 DEF ReceiptExpires, At
    <3> QED BY <1>3, <3>1 DEF Outputs
  <2>2. CASE LeaseExpires \/ UNCHANGED aeVars
    BY <1>0, <2>2 DEF LeaseExpires, aeVars, AeStoreType
  <2> QED BY <2>1, <2>2
<1> QED BY <1>0, <1>1, <1>3, <1>5, <1>6, <1>7, <1>8 DEF Settles

\* A new invocation has no runs.
LEMMA CountStarts == AeInit => CountInv
<1> SUFFICES ASSUME AeInit PROVE CountInv
  OBVIOUS
<1>1. /\ aeStore.inv = NewInvocation /\ aeLate = {} /\ Outputs = {} /\ Flying = {} /\ aeStore.receipt = "none"
      /\ \A n \in Runs : aeStore.out[n] = 0 /\ aeStore.att[n].state = "none"
      /\ \A w \in AeWorkers : aeWorker[w] = Idle
  BY DEF AeInit, Outputs, Flying, NoAttempt
<1>2. Idle.pc = "idle" /\ Idle.inv = NewInvocation
  BY DEF Idle
<1>3. Copies = {NewInvocation}
  BY <1>1, <1>2 DEF Copies
<1>4. NewInvocation.ver = 0 /\ NewInvocation.tok = 0 /\ NewInvocation.count = 0
  BY DEF NewInvocation
<1>5. CopiesOK
  BY <1>1, <1>3, <1>4 DEF CopiesOK
<1>6. RunsOK
  <2>1. \A n \in Runs : ~Begun(n)
    BY <1>1, <1>2 DEF Begun
  <2>2. ~AppliedAgain
    BY <1>1 DEF AppliedAgain
  <2> QED BY <1>1, <2>1, <2>2 DEF RunsOK
<1>7. OutputsOK
  BY <1>1 DEF OutputsOK
<1>8. CountOK(Idle)
  BY <1>1, <1>2 DEF CountOK, Claimless, Quiet
<1> QED BY <1>1, <1>5, <1>6, <1>7, <1>8 DEF CountInv

\* The counts stay in order over every step until somebody retries or cancels.
LEMMA CountStep ==
    ASSUME AeInv, AeInv', ClaimInv, OutcomeInv, aeRequest.kind = "unused" => CountInv,
           [AeNext]_aeVars, aeRequest'.kind = "unused"
    PROVE  CountInv'
<1>1. ASSUME NEW w \in AeWorkers, WorkerStep(w) \/ Dies(w) PROVE CountInv'
  <2>1. CASE \E y \in AeWorkerType : ClaimTaken(w, y)
    <3>1. CountInv
      BY <2>1 DEF ClaimTaken
    <3> QED BY <2>1, <3>1, ClaimTakenKeepsCounts
  <2>2. CASE Progress(w)
    <3>1. PICK y \in AeWorkerType, c \in AeCommands : WorkerMoves(w, y, c)
      BY <2>2 DEF Progress
    <3>2. CountInv
      BY <3>1 DEF WorkerMoves
    <3> QED BY <3>1, <3>2, WorkerKeepsCounts
  <2> QED BY <1>1, <2>1, <2>2, WorkerProgress
<1>2. CASE RetryInvocation \/ CancelInvocation \/ RequestPut
  BY <1>2 DEF RetryInvocation, CancelInvocation, RequestPut, PutInvocation
<1>3. CASE LateApplied \/ LeaseExpires \/ ReceiptExpires \/ UNCHANGED aeVars
  <2>1. aeRequest' = aeRequest
    BY <1>3 DEF LateApplied, LeaseExpires, ReceiptExpires, aeVars
  <2>2. Settles
    BY <1>3, <2>1, LateSettles, TimeSettles
  <2>3. Drift /\ Descend
    BY <1>3, OutsideMoves, StutterMoves, RecordsKeepClaims DEF RecordsMove
  <2> QED BY <2>1, <2>2, <2>3, SettledKeeps
<1> QED BY <1>1, <1>2, <1>3 DEF AeNext

\* OutputOnce: for any number of workers, attempts, claims and faults, an
\* invocation that nobody retries or cancels changes the graph at most once, also
\* after the receipt of the change has expired.
THEOREM OutputsOnce == AeSpec => []OutputOnce
<1> DEFINE Inv == aeRequest.kind = "unused" => CountInv
<1>1. AeInit => Inv
  BY CountStarts
<1>2. AeInv /\ AeInv' /\ (ClaimInv /\ OutcomeInv) /\ Inv /\ [AeNext]_aeVars => Inv'
  BY CountStep
<1>3. Inv => OutputOnce
  BY DEF CountInv, RunsOK, OutputOnce
<1> HIDE DEF Inv
<1> QED BY <1>1, <1>2, <1>3, AutomationInvariant, OutcomesInvariant, PTL DEF AeSpec
=============================================================================
