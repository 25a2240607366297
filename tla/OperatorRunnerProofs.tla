------------------------ MODULE OperatorRunnerProofs ------------------------
(***************************************************************************)
(* What is proved of OperatorRunner, for any number of runs, workers,      *)
(* operators and jobs: a run keeps what the executor promises (IInv of     *)
(* AdoptionExecutorProofs), binds no VM that is gone, and starts no guest  *)
(* that is stopped.                                                        *)
(***************************************************************************)
EXTENDS OperatorRunner, AdoptionExecutorProofs

----------------------------------------------------------------------------
(* The invariants.                                                         *)

\* What a run has read and decided, by where it is.
RunsWellFormed ==
    \A r \in Runners :
      /\ run[r].pc = "session" => run[r].worker \in Workers
      /\ run[r].pc = "grant" =>
           /\ run[r].from \in {"submission_unknown", "start_unknown"}
           /\ run[r].to \in {"planned", "deploy_succeeded", "verifying"}
           /\ run[r].to = "planned" => run[r].from = "submission_unknown"

\* A VM that a deletion may still reach belongs to a claim that is never bound
\* again, and a run about to bind has seen a VM that its claim still protects.
Ending == {"retiring", "cleanup", "released"}
DeletionsAuthorized ==
    \A j \in JobIds :
      jobs[j].kind = "destroy" /\ jobs[j].status \in {"working", "ok"} =>
        claim \in Ending
BindersSawVm ==
    \A r \in Runners :
      run[r].pc = "bind" /\ claim \in {"reserved", "bound"} => Present

\* Only one run is past its authority, and only its session is at work.
RunsExclude ==
    \A r, q \in Runners : Inside(r) /\ Inside(q) => r = q
SessionsOwned ==
    \A w \in Workers : sess[w].pc # "idle" =>
      \E r \in Runners : run[r].pc = "session" /\ run[r].worker = w

\* The states on the way of a guest that is stopped; a worker acquires the row
\* in the first ones only.
Advanced == {"planned", "deploy_submitting", "deploy_submitted",
             "submission_unknown", "verifying"}
OnTheWay == Advanced \cup
    {"deploy_succeeded", "succeeded", "failed", "cleanup_required"}

\* No session has loaded or decided a start.
SessionSpares(s, state) ==
    /\ s.pc \in {"observe", "check", "write"} => s.from = state
    /\ s.pc = "observe" => state \in Advanced
    /\ s.pc \in {"check", "write"} =>
         /\ s.to \in OnTheWay
         /\ s.to \in {"verifying", "succeeded"} <=>
              state \in {"verifying", "succeeded"}
    /\ s.pc = "call" =>
         state = "deploy_submitting" /\ s.to = "deploy_submitting"
    /\ s.pc = "finish" => state = "verifying"
SessionsSpare == \A w \in Workers : SessionSpares(sess[w], row.state)

\* Where a run may be, and with which row.
RunsSpare ==
    \A r \in Runners :
      /\ run[r].pc \notin {"retry", "grant"}
      /\ run[r].pc = "wait" => row.state \in Advanced
      /\ run[r].pc \in {"bind", "settle"} => row.state = "deploy_succeeded"
      /\ run[r].pc = "bind" => run[r].from = "deploy_succeeded"
      /\ run[r].pc = "settle" => claim # "reserved"

\* The claim of a stopped guest is bound under a run that settles it, or for
\* verification.
BindingSettles ==
    /\ claim = "bound" => row.state \in {"verifying", "succeeded"}
                          \/ \E r \in Runners : run[r].pc = "settle"
    /\ row.state \in {"verifying", "succeeded"} => claim # "reserved"

StoppedSpared ==
    /\ ~scheduled
    /\ ledger.starts = 0 /\ row.state \in OnTheWay
    /\ RunsExclude /\ SessionsOwned /\ SessionsSpare /\ RunsSpare
    /\ BindingSettles

----------------------------------------------------------------------------
(* A run keeps the executor's invariant.                                   *)

TypedIInv == IInv /\ RTypeOK /\ RunsWellFormed

\* The executor's own steps keep it.
LEMMA ExecutorStepKeeps ==
  IInv /\ [Next]_vars => IInv'
  BY TypeKept, SessionsKept, RequestsKept, CleanupSawVmKept, ReleasedKept,
     CreditKept
  DEF IInv

\* The steps of a run that the executor does not have.
OwnStep(r) ==
    \/ Bind(r) \/ Settle(r) \/ Grant(r) \/ Refused(r) \/ StopRun(r)
    \/ SessionStep(r) /\ source = "stopped" /\ ActivateStopped(run[r].worker)

\* Every other step of a run, the service or CloudStack is one of Next, or
\* leaves the executor alone.
LEMMA StepKinds ==
  ASSUME TypedIInv, RNext
  PROVE  [Next]_vars \/ \E r \in Runners : OwnStep(r)
<1>1. CASE Service
  BY <1>1 DEF Service, Next
<1>2. CASE Outside
  BY <1>2 DEF Outside, Next, CloudStack, Worker
<1>3. ASSUME NEW r \in Runners, StartRun(r) \/ RunStep(r) \/ StopRun(r)
      PROVE  [Next]_vars \/ OwnStep(r)
  <2>1. CASE \/ StartRun(r) \/ EnterRun(r) \/ Startup(r) \/ Retry(r)
             \/ RecoverStopped(r) \/ Load(r) \/ Complete(r) \/ After(r)
    <3>1. UNCHANGED vars
      BY <2>1 DEF StartRun, EnterRun, Startup, Retry, RecoverStopped, Load,
         Complete, After, RunOnly, vars
    <3> QED
      BY <3>1
  <2>2. ASSUME NEW w \in Workers, Reconcile(r, w) PROVE [Next]_vars
    BY <2>2 DEF Reconcile, Next, Worker
  <2>3. run[r].pc = "session" => run[r].worker \in Workers
    BY DEF TypedIInv, RunsWellFormed
  <2>4. CASE SubmitWithin(r)
    BY <2>3, <2>4 DEF SubmitWithin, Next, Worker
  <2>5. CASE SessionStep(r)
    BY <2>3, <2>5
    DEF SessionStep, WorkerStep, OwnStep, Next, Worker, TypedIInv, RTypeOK
  <2> QED
    BY <1>3, <2>1, <2>2, <2>4, <2>5 DEF RunStep, OwnStep
<1> QED
  BY <1>1, <1>2, <1>3 DEF RNext

\* Nor do the steps of its own disturb the invariant: a bind and a retry only
\* move what the executor leaves to others, and a session that is refused its
\* submission, or dies, has one right less.
LEMMA OwnStepKeeps ==
  ASSUME TypedIInv, NEW r \in Runners, OwnStep(r)
  PROVE  IInv'
<1>1. CASE Bind(r)
  <2>1. claim # "released" /\ claim' = "bound"
    BY <1>1 DEF Bind
  <2>2. UNCHANGED <<row, live, sess, op, vm, jobs, ledger>>
    BY <1>1 DEF Bind
  <2> QED
    BY <2>1, <2>2
    DEF TypedIInv, IInv, ETypeOK, ClaimStates, SessionsWellFormed,
        RequestsWellFormed, CleanupSawVm, ReleasedVmIsGone,
        DeploysWithinCredit, DeployCredit, CallerCommitted, MayDeploy
<1>2. CASE Settle(r)
  <2>1. /\ row' = [row EXCEPT !.state = "verifying"]
        /\ row.state = "deploy_succeeded" /\ row.lease = None
        /\ UNCHANGED <<live, sess, op, vm, jobs, claim, ledger>>
    BY <1>2 DEF Settle
  <2>2. row \in Row /\ row' \in Row
    BY <2>1, StateNames DEF TypedIInv, IInv, ETypeOK, Row
  <2>3. row'.state = "verifying" /\ row'.lease = None
    BY <2>1, <2>2 DEF Row
  <2>4. ETypeOK'
    BY <2>1, <2>2 DEF TypedIInv, IInv, ETypeOK
  <2>5. SessionsWellFormed' /\ RequestsWellFormed' /\ ReleasedVmIsGone'
    BY <2>1 DEF TypedIInv, IInv, SessionsWellFormed, RequestsWellFormed,
       ReleasedVmIsGone
  <2>6. CleanupSawVm'
    BY <2>1, <2>3 DEF TypedIInv, IInv, CleanupSawVm, CleaningStates
  <2>7. DeploysWithinCredit'
    <3>1. ~DeployCredit' /\ CallerCommitted'
      BY <2>3, ExecutorConstants DEF DeployCredit, CallerCommitted
    <3> QED
      BY <2>1, <3>1, CreditRule DEF TypedIInv
  <2> QED
    BY <2>4, <2>5, <2>6, <2>7 DEF IInv
<1>3. CASE Grant(r)
  <2> DEFINE from == run[r].from
             to == run[r].to
  <2>1. /\ row' = [row EXCEPT !.state = to]
        /\ row.state = from /\ row.lease = None
        /\ UNCHANGED <<live, sess, op, vm, jobs, claim>>
    BY <1>3 DEF Grant
  <2>2. /\ from \in {"submission_unknown", "start_unknown"}
        /\ to \in {"planned", "deploy_succeeded", "verifying"}
    BY <1>3 DEF Grant, TypedIInv, RunsWellFormed
  <2>3. row \in Row /\ row' \in Row
    BY <2>1, <2>2, StateNames DEF TypedIInv, IInv, ETypeOK, Row
  <2>4. row'.state = to /\ row'.lease = None
    BY <2>1, <2>3 DEF Row
  <2>5. /\ ledger.deploys \in Nat /\ ledger.redeploys \in Nat
        /\ ledger.restarts \in Nat
    BY DEF TypedIInv, IInv, ETypeOK
  <2>6. PICK a \in Nat, b \in Nat :
          /\ ledger' = [ledger EXCEPT !.redeploys = a, !.restarts = b]
          /\ a = IF to = "planned" THEN ledger.redeploys + 1
                 ELSE ledger.redeploys
    <3> DEFINE a == IF to = "planned" THEN ledger.redeploys + 1
                    ELSE ledger.redeploys
               b == IF from = "start_unknown" /\ to = "deploy_succeeded"
                    THEN ledger.restarts + 1 ELSE ledger.restarts
    <3>1. a \in Nat /\ b \in Nat
      BY <2>5
    <3>2. ledger' = [ledger EXCEPT !.redeploys = a, !.restarts = b]
      BY <1>3 DEF Grant, TypedIInv, IInv, ETypeOK
    <3> QED
      BY <3>1, <3>2
  <2>7. /\ ledger' \in [deploys : Nat, starts : Nat, redeploys : Nat,
                        restarts : Nat, cleanups : Nat]
        /\ ledger'.deploys = ledger.deploys
        /\ ledger'.redeploys = IF to = "planned" THEN ledger.redeploys + 1
                               ELSE ledger.redeploys
    BY <2>5, <2>6 DEF TypedIInv, IInv, ETypeOK
  <2>8. ETypeOK'
    BY <2>1, <2>3, <2>7 DEF TypedIInv, IInv, ETypeOK
  <2>9. SessionsWellFormed' /\ RequestsWellFormed' /\ ReleasedVmIsGone'
    BY <2>1 DEF TypedIInv, IInv, SessionsWellFormed, RequestsWellFormed,
       ReleasedVmIsGone
  <2>10. CleanupSawVm'
    BY <2>1, <2>2, <2>4 DEF TypedIInv, IInv, CleanupSawVm, CleaningStates
  <2>11. DeploysWithinCredit'
    <3>1. ~DeployCredit
      BY <2>1, <2>2, ExecutorConstants DEF DeployCredit
    <3>2. CallerCommitted' /\ (DeployCredit' <=> to = "planned")
      BY <2>4, ExecutorConstants DEF DeployCredit, CallerCommitted
    <3> QED
      BY <2>5, <2>7, <3>1, <3>2 DEF TypedIInv, IInv, DeploysWithinCredit
  <2> QED
    BY <2>8, <2>9, <2>10, <2>11 DEF IInv
<1>4. ASSUME NEW w \in Workers, NEW s \in Session, sess' = [sess EXCEPT ![w] = s],
             UNCHANGED <<row, live, op, vm, jobs, claim, ledger>>,
             s.pc = "idle" \/
               /\ s.pc = "check" /\ s.from = row.state
               /\ s.to \in {"submission_unknown", "start_unknown"}
      PROVE  IInv'
  <2>1. /\ sess \in [Workers -> Session]
        /\ sess'[w] = s /\ \A v \in Workers \ {w} : sess'[v] = sess[v]
    BY <1>4 DEF TypedIInv, IInv, ETypeOK
  <2>2. ETypeOK' /\ RequestsWellFormed' /\ ReleasedVmIsGone'
    BY <1>4 DEF TypedIInv, IInv, ETypeOK, RequestsWellFormed, ReleasedVmIsGone
  <2>3. SessionsWellFormed'
    BY <1>4, <2>1 DEF TypedIInv, IInv, SessionsWellFormed
  <2>4. CleanupSawVm'
    BY <1>4, <2>1 DEF TypedIInv, IInv, CleanupSawVm, CleaningStates
  <2>5. DeploysWithinCredit'
    <3>1. (DeployCredit' => DeployCredit) /\ CallerCommitted'
      BY <1>4, <2>1
      DEF TypedIInv, IInv, DeploysWithinCredit, DeployCredit, CallerCommitted,
          MayDeploy
    <3> QED
      BY <1>4, <3>1, CreditRule DEF TypedIInv
  <2> QED
    BY <2>2, <2>3, <2>4, <2>5 DEF IInv
<1>5. CASE Refused(r)
  <2> DEFINE w == run[r].worker
             s == [Idle EXCEPT !.pc = "check", !.from = row.state,
                               !.to = IF Deploys(w) THEN "submission_unknown"
                                      ELSE "start_unknown"]
  <2>1. w \in Workers
    BY <1>5 DEF Refused, TypedIInv, RunsWellFormed
  <2>2. sess' = [sess EXCEPT ![w] = s]
    BY <1>5 DEF Refused
  <2>3. s \in Session
    BY StateNames DEF Idle, Session, TypedIInv, IInv, ETypeOK, Row
  <2>4. /\ s.pc = "check" /\ s.from = row.state
        /\ s.to \in {"submission_unknown", "start_unknown"}
    BY DEF Idle
  <2>5. UNCHANGED <<row, live, op, vm, jobs, claim, ledger>>
    BY <1>5 DEF Refused
  <2> HIDE DEF s, w
  <2> QED
    BY <1>4, <2>1, <2>2, <2>3, <2>4, <2>5
<1>6. CASE StopRun(r)
  <2>1. CASE run[r].worker = None
    BY <1>6, <2>1, ExecutorStepKeeps DEF StopRun, vars, TypedIInv
  <2>2. CASE run[r].worker # None
    <3>1. run[r].worker \in Workers
      BY <2>2 DEF TypedIInv, RTypeOK, Run
    <3>2. /\ sess' = [sess EXCEPT ![run[r].worker] = Idle]
          /\ UNCHANGED <<row, live, op, vm, jobs, claim, ledger>>
      BY <1>6, <2>2 DEF StopRun
    <3>3. Idle.pc = "idle"
      BY DEF Idle
    <3> QED
      BY <1>4, <3>1, <3>2, <3>3, IdleTyped
  <2> QED
    BY <2>1, <2>2
<1>7. CASE SessionStep(r) /\ ActivateStopped(run[r].worker)
  <2> DEFINE w == run[r].worker
  <2>1. w \in Workers
    BY <1>7 DEF SessionStep, TypedIInv, RunsWellFormed
  <2>2. /\ sess[w].pc = "observe" /\ sess[w].from = "verifying"
        /\ claim' = "managed"
        /\ sess' = [sess EXCEPT ![w].pc = "finish"]
        /\ UNCHANGED <<row, live, op, vm, jobs, ledger>>
    BY <1>7 DEF ActivateStopped
  <2>3. /\ sess \in [Workers -> Session] /\ sess' \in [Workers -> Session]
        /\ sess'[w].pc = "finish" /\ sess'[w].from = sess[w].from
        /\ sess'[w].to = sess[w].to
        /\ \A v \in Workers \ {w} : sess'[v] = sess[v]
    BY <2>1, <2>2 DEF TypedIInv, IInv, ETypeOK, Session
  <2> HIDE DEF w
  <2>4. ETypeOK' /\ RequestsWellFormed' /\ ReleasedVmIsGone'
    BY <2>2, <2>3 DEF TypedIInv, IInv, ETypeOK, RequestsWellFormed,
       ReleasedVmIsGone, ClaimStates
  <2>5. SessionsWellFormed'
    BY <2>2, <2>3 DEF TypedIInv, IInv, SessionsWellFormed
  <2>6. CleanupSawVm'
    BY <2>1, <2>2, <2>3 DEF TypedIInv, IInv, CleanupSawVm
  <2>7. DeploysWithinCredit'
    <3>1. (DeployCredit' => DeployCredit) /\ CallerCommitted'
      BY <2>1, <2>2, <2>3
      DEF TypedIInv, IInv, DeploysWithinCredit, DeployCredit, CallerCommitted,
          MayDeploy
    <3> QED
      BY <2>2, <3>1, CreditRule DEF TypedIInv
  <2> QED
    BY <2>4, <2>5, <2>6, <2>7 DEF IInv
<1> QED
  BY <1>1, <1>2, <1>3, <1>5, <1>6, <1>7 DEF OwnStep

\* An idle run is a run.
LEMMA OutTyped ==
  /\ Out \in Run
  /\ Out.pc = "out" /\ Out.worker = None
  BY StateNames DEF Out, Run

\* What a run has read keeps its type.
LEMMA RunsTyped ==
  TypedIInv /\ [RNext]_rvars => RTypeOK' /\ RunsWellFormed'
<1> SUFFICES ASSUME TypedIInv, [RNext]_rvars
             PROVE  RTypeOK' /\ RunsWellFormed'
  OBVIOUS
<1>1. /\ run \in [Runners -> Run] /\ runs \in 0 .. MaxRuns /\ MaxRuns \in Nat
      /\ torn \in BOOLEAN
      /\ row.state \in States
  BY RunnerConstants DEF TypedIInv, RTypeOK, IInv, ETypeOK, Row
<1>2. ASSUME config' = config, run' = run, runs' = runs, torn' = torn
      PROVE  RTypeOK' /\ RunsWellFormed'
  BY <1>2 DEF TypedIInv, RTypeOK, RunsWellFormed, config
<1>3. ASSUME NEW r \in Runners, NEW s \in Run, run' = [run EXCEPT ![r] = s],
             config' = config, runs' \in 0 .. MaxRuns, torn' \in BOOLEAN,
             s.pc = "session" => s.worker \in Workers,
             s.pc = "grant" =>
               /\ s.from \in {"submission_unknown", "start_unknown"}
               /\ s.to \in {"planned", "deploy_succeeded", "verifying"}
               /\ s.to = "planned" => s.from = "submission_unknown"
      PROVE  RTypeOK' /\ RunsWellFormed'
  <2>1. run' \in [Runners -> Run] /\ run'[r] = s
        /\ \A q \in Runners \ {r} : run'[q] = run[q]
    BY <1>1, <1>3
  <2> QED
    BY <1>3, <2>1 DEF TypedIInv, RTypeOK, RunsWellFormed, config
<1>4. ASSUME NEW r \in Runners, StartRun(r) \/ RunStep(r) \/ StopRun(r)
      PROVE  RTypeOK' /\ RunsWellFormed'
  <2> DEFINE a == run[r]
  <2>0. a \in Run
    BY <1>1
  <2>1. CASE StartRun(r)
    <3> DEFINE d == row.state = "planned"
               e == row.state \in {"planned", "deploy_submitted",
                                   "deploy_succeeded", "start_unknown"}
               s == [Out EXCEPT !.pc = "enter", !.deploy = d, !.start = e]
    <3>1. run' = [run EXCEPT ![r] = s] /\ runs' \in 0 .. MaxRuns
          /\ config' = config /\ torn' \in BOOLEAN
      BY <1>1, <2>1 DEF StartRun
    <3>2. d \in BOOLEAN /\ e \in BOOLEAN
      OBVIOUS
    <3> HIDE DEF d, e
    <3>3. s \in Run /\ s.pc = "enter"
      BY <3>2, OutTyped DEF Run
    <3> HIDE DEF s
    <3> QED
      BY <1>3, <3>1, <3>3
  <2>2. ASSUME NEW pc \in {"startup", "retry", "load", "settle"}, Goto(r, pc),
               config' = config, runs' = runs, torn' = torn
        PROVE  RTypeOK' /\ RunsWellFormed'
    <3> DEFINE s == [a EXCEPT !.pc = pc]
    <3>1. s \in Run /\ s.pc = pc
      BY <2>0, <2>2 DEF Run
    <3>2. run' = [run EXCEPT ![r] = s]
      BY <1>1, <2>2 DEF Goto, Run
    <3> HIDE DEF s
    <3> QED
      BY <1>1, <1>3, <2>2, <3>1, <3>2
  <2>3. CASE EnterRun(r)
    BY <2>2, <2>3 DEF EnterRun, RunOnly
  <2>4. ASSUME run' = [run EXCEPT ![r].pc = "bind", ![r].from = row.state],
               RunOnly
        PROVE  RTypeOK' /\ RunsWellFormed'
    <3> DEFINE s == [a EXCEPT !.pc = "bind", !.from = row.state]
    <3>1. s \in Run /\ s.pc = "bind"
      BY <1>1, <2>0 DEF Run
    <3>2. run' = [run EXCEPT ![r] = s]
      BY <1>1, <2>4 DEF Run
    <3>3. config' = config /\ runs' \in 0 .. MaxRuns /\ torn' \in BOOLEAN
      BY <1>1, <2>4 DEF RunOnly
    <3> HIDE DEF s
    <3> QED
      BY <1>3, <3>1, <3>2, <3>3
  <2>5. CASE Startup(r)
    BY <2>2, <2>4, <2>5 DEF Startup, RunOnly
  <2>6. CASE RecoverStopped(r)
    BY <2>4, <2>6 DEF RecoverStopped
  <2>7. CASE Bind(r)
    <3>1. PICK pc \in {"settle", "retry", "load"} : Goto(r, pc)
      BY <2>7 DEF Bind
    <3> QED
      BY <2>2, <2>7, <3>1 DEF Bind
  <2>8. CASE Settle(r) \/ Grant(r) \/ After(r)
    BY <2>2, <2>8 DEF Settle, Grant, After, RunOnly
  <2>9. CASE Retry(r)
    <3>1. PICK to \in RetryTo :
            run' = [run EXCEPT ![r].pc = "grant", ![r].from = row.state,
                               ![r].to = to]
      BY <2>9 DEF Retry
    <3> DEFINE s == [a EXCEPT !.pc = "grant", !.from = row.state, !.to = to]
    <3>2. to \in States
      BY RetryTargets, StateNames
    <3>3. /\ s \in Run /\ s.from = row.state /\ s.to = to
          /\ run' = [run EXCEPT ![r] = s]
      BY <1>1, <2>0, <3>1, <3>2 DEF Run
    <3>4. config' = config /\ runs' \in 0 .. MaxRuns /\ torn' \in BOOLEAN
      BY <1>1, <2>9 DEF Retry, RunOnly
    <3>5. s.pc = "grant"
      BY <2>0 DEF Run
    <3> HIDE DEF s
    <3> QED
      BY <1>3, <3>3, <3>4, <3>5, RetryTargets
  <2>10. CASE Load(r)
    <3> DEFINE s == [a EXCEPT !.pc = "wait", !.from = row.state,
         !.observed = a.observed \cup ({row.state} \cap AmbiguousStates)]
    <3>1. s \in Run /\ s.pc = "wait" /\ run' = [run EXCEPT ![r] = s]
      BY <1>1, <2>0, <2>10 DEF Load, Run
    <3>2. config' = config /\ runs' \in 0 .. MaxRuns /\ torn' \in BOOLEAN
      BY <1>1, <2>10 DEF Load, RunOnly
    <3> HIDE DEF s
    <3> QED
      BY <1>3, <3>1, <3>2
  <2>11. CASE Complete(r)
    BY <1>1, <1>3, <2>11, OutTyped DEF Complete, RunOnly
  <2>12. CASE StopRun(r)
    BY <1>1, <1>3, <2>12, OutTyped DEF StopRun
  <2>13. ASSUME NEW w \in Workers, Reconcile(r, w)
         PROVE  RTypeOK' /\ RunsWellFormed'
    <3> DEFINE s == [a EXCEPT !.pc = "session", !.worker = w]
    <3>1. s \in Run /\ s.worker \in Workers /\ s.pc = "session"
          /\ run' = [run EXCEPT ![r] = s]
      BY <1>1, <2>0, <2>13 DEF Reconcile, Run
    <3>2. config' = config /\ runs' \in 0 .. MaxRuns /\ torn' \in BOOLEAN
      BY <1>1, <2>13 DEF Reconcile
    <3> HIDE DEF s
    <3> QED
      BY <1>3, <3>1, <3>2
  <2>14. CASE SessionStep(r)
    <3> DEFINE s == [a EXCEPT !.pc = "after", !.worker = None]
    <3>1. s \in Run /\ s.pc = "after"
      BY <2>0 DEF Run
    <3>2. run' = run \/ run' = [run EXCEPT ![r] = s]
      BY <1>1, <2>14 DEF SessionStep, Run
    <3>3. config' = config /\ runs' = runs /\ torn' = torn
      BY <2>14 DEF SessionStep
    <3> HIDE DEF s
    <3> QED
      BY <1>1, <1>2, <1>3, <3>1, <3>2, <3>3
  <2>15. CASE SubmitWithin(r)
    <3>1. a.pc = "session" /\ a.worker \in Workers
      BY <2>15 DEF SubmitWithin, TypedIInv, RunsWellFormed
    <3>2. PICK s \in Run : /\ s.pc = a.pc /\ s.worker = a.worker
                           /\ run' = [run EXCEPT ![r] = s]
      <4>1. CASE run' = [run EXCEPT ![r].deploy = FALSE]
        <5>1. run' = [run EXCEPT ![r] = [a EXCEPT !.deploy = FALSE]]
              /\ [a EXCEPT !.deploy = FALSE] \in Run
          BY <1>1, <2>0, <4>1 DEF Run
        <5> QED
          BY <2>0, <5>1 DEF Run
      <4>2. CASE run' = [run EXCEPT ![r].start = FALSE]
        <5>1. run' = [run EXCEPT ![r] = [a EXCEPT !.start = FALSE]]
              /\ [a EXCEPT !.start = FALSE] \in Run
          BY <1>1, <2>0, <4>2 DEF Run
        <5> QED
          BY <2>0, <5>1 DEF Run
      <4> QED
        BY <2>15, <4>1, <4>2 DEF SubmitWithin
    <3>3. config' = config /\ runs' = runs /\ torn' = torn
      BY <2>15 DEF SubmitWithin
    <3> QED
      BY <1>1, <1>3, <3>1, <3>2, <3>3
  <2>16. CASE Refused(r)
    BY <1>2, <2>16 DEF Refused
  <2> QED
    BY <1>4, <2>1, <2>3, <2>5, <2>6, <2>7, <2>8, <2>9, <2>10, <2>11, <2>12,
       <2>13, <2>14, <2>15, <2>16 DEF RunStep
<1>5. CASE Service
  BY <1>2, <1>5 DEF Service
<1>6. CASE Outside
  BY <1>2, <1>6 DEF Outside
<1>7. CASE UNCHANGED rvars
  BY <1>2, <1>7 DEF rvars
<1> QED
  BY <1>4, <1>5, <1>6, <1>7 DEF RNext

\* Initially no run has begun.
LEMMA InitTyped ==
  RInit => TypedIInv
<1> SUFFICES ASSUME RInit PROVE TypedIInv
  OBVIOUS
<1>1. IInv
  BY InitIInv DEF RInit
<1>2. RTypeOK
  <2>1. /\ scheduled \in BOOLEAN /\ torn = FALSE /\ runs = 0
        /\ source \in {"running", "stopped"}
        /\ run = [r \in Runners |-> Out]
    BY DEF RInit
  <2>2. run \in [Runners -> Run] /\ runs \in 0 .. MaxRuns
    BY <2>1, OutTyped, RunnerConstants
  <2> QED
    BY <2>1, <2>2 DEF RTypeOK
<1>3. RunsWellFormed
  BY OutTyped DEF RInit, RunsWellFormed
<1> QED
  BY <1>1, <1>2, <1>3 DEF TypedIInv

\* Runs keep the executor's invariant and their own types.
LEMMA RunsKeepInvariant ==
  RSpec => []TypedIInv
<1>1. TypedIInv /\ [RNext]_rvars => TypedIInv'
  <2> SUFFICES ASSUME TypedIInv, [RNext]_rvars PROVE TypedIInv'
    OBVIOUS
  <2>1. IInv'
    <3>1. CASE RNext
      BY <3>1, StepKinds, OwnStepKeeps, ExecutorStepKeeps DEF TypedIInv
    <3>2. CASE UNCHANGED rvars
      BY <3>2, ExecutorStepKeeps DEF rvars, TypedIInv
    <3> QED
      BY <3>1, <3>2
  <2> QED
    BY <2>1, RunsTyped DEF TypedIInv
<1> QED
  BY <1>1, InitTyped, PTL DEF RSpec

----------------------------------------------------------------------------
(* What the session that may still write holds (SlowInv), where sessions   *)
(* are separated.                                                          *)

\* The steps of a run that the executor does not have keep it as well: a run
\* settles or resumes a row that no worker holds, and a session that is refused
\* its submission stores no more than that it does not know.
LEMMA OwnStepKeepsSlow ==
  ASSUME TypedIInv, SlowInv, NEW r \in Runners, OwnStep(r)
  PROVE  SlowInv'
<1>1. /\ ETypeOK /\ row \in Row /\ sess \in [Workers -> Session]
      /\ ledger.starts \in Nat /\ ledger.restarts \in Nat
  BY DEF TypedIInv, IInv, ETypeOK
<1>2. claim = "managed" => row.state \in Verified
  BY DEF SlowInv, ManagedIsVerified
<1>3. row.lease = None /\ UNCHANGED <<live, sess>> =>
        \A v \in Workers : ~ Busy(v)'
  BY FreeRowNobodyBusy DEF Busy, Backed
<1>4. ASSUME NEW w \in Workers, NEW s \in Session, sess' = [sess EXCEPT ![w] = s],
             UNCHANGED <<row, live, op, jobs, ledger>>,
             claim' = "managed" => row.state \in Verified,
             Backed(w) =>
               \/ s.pc = "idle"
               \/ /\ sess[w].pc # "idle" /\ s.pc # "call"
                  /\ InPhase(s, row.state)
      PROVE  SlowInv'
  <2>1. sess'[w] = s /\ \A v \in Workers \ {w} : sess'[v] = sess[v]
    BY <1>1, <1>4
  <2> QED
    BY <1>1, <1>4, <2>1, SessionsOnlyKeepSlow DEF Backed
<1>5. \A w \in Workers : Backed(w) /\ sess[w].pc # "idle" =>
        InPhase(sess[w], row.state)
  BY DEF SlowInv, SessionInPhase, Busy, Backed
<1>6. CASE Bind(r)
  <2>1. claim' = "bound" /\ UNCHANGED <<row, live, sess, op, vm, jobs, ledger>>
    BY <1>6 DEF Bind
  <2>2. \A j \in JobIds : DestroyPending(j)' => DestroyPending(j)
    BY <2>1 DEF DestroyPending
  <2> QED
    BY <1>1, <2>1, <2>2, OthersKeepSlow
<1>7. CASE Settle(r)
  <2>1. /\ row.lease = None /\ row.state = "deploy_succeeded"
        /\ row' = [row EXCEPT !.state = "verifying"]
        /\ UNCHANGED <<live, sess, op, vm, jobs, claim, ledger>>
    BY <1>7 DEF Settle
  <2>2. row'.state = "verifying"
    BY <1>1, <2>1 DEF Row
  <2>3. /\ row.state \notin Cleaning /\ row'.state \in Verified
        /\ row'.state \notin Deploying
    BY <2>1, <2>2, PhaseNames, PhasesApart DEF Verified
  <2>4. \A v \in Workers : ~ Busy(v)'
    BY <1>3, <2>1
  <2> QED
    BY <1>1, <2>1, <2>3, <2>4, NobodyBusyKeepsSlow
<1>8. CASE Grant(r)
  <2> DEFINE from == run[r].from
             to == run[r].to
  <2>1. /\ row' = [row EXCEPT !.state = to]
        /\ row.state = from /\ row.lease = None
        /\ UNCHANGED <<live, sess, op, vm, jobs, claim>>
    BY <1>8 DEF Grant
  <2>2. /\ from \in {"submission_unknown", "start_unknown"}
        /\ to \in {"planned", "deploy_succeeded", "verifying"}
        /\ to = "planned" => from = "submission_unknown"
    BY <1>8 DEF Grant, TypedIInv, RunsWellFormed
  <2>3. /\ ledger'.starts = ledger.starts
        /\ ledger'.restarts =
             IF from = "start_unknown" /\ to = "deploy_succeeded"
             THEN ledger.restarts + 1 ELSE ledger.restarts
    BY <1>8 DEF Grant, TypedIInv, IInv, ETypeOK
  <2>4. row'.state = to
    BY <1>1, <2>1 DEF Row
  <2> HIDE DEF from, to
  <2>5. row.state \notin Verified /\ row.state \notin Cleaning
    BY <2>1, <2>2, PhaseNames, PhasesApart
  <2>6. \/ /\ ledger'.restarts = ledger.restarts
           /\ row'.state \in Deploying => row.state \in Deploying
        \/ ledger'.restarts = ledger.restarts + 1 /\ ~ StartCredit
    <3>1. CASE from = "submission_unknown"
      BY <2>1, <2>3, <3>1, PhaseNames
    <3>2. CASE from = "start_unknown" /\ to = "deploy_succeeded"
      BY <2>1, <2>3, <3>2, PhaseNames, PhasesApart, ExecutorConstants
      DEF StartCredit
    <3>3. CASE to = "verifying"
      BY <2>3, <2>4, <3>3, PhasesApart DEF Verified
    <3> QED
      BY <2>2, <3>1, <3>2, <3>3
  <2>7. \A v \in Workers : ~ Busy(v)'
    BY <1>3, <2>1
  <2> QED
    BY <1>1, <2>1, <2>3, <2>5, <2>6, <2>7, NobodyBusyKeepsSlow
<1>9. CASE Refused(r)
  <2> DEFINE w == run[r].worker
             s == [Idle EXCEPT !.pc = "check", !.from = row.state,
                               !.to = IF Deploys(w) THEN "submission_unknown"
                                      ELSE "start_unknown"]
  <2>1. w \in Workers
    BY <1>9 DEF Refused, TypedIInv, RunsWellFormed
  <2>2. /\ sess' = [sess EXCEPT ![w] = s] /\ sess[w].pc = "call"
        /\ UNCHANGED <<row, live, op, vm, jobs, claim, ledger>>
    BY <1>9 DEF Refused
  <2>3. s \in Session
    BY StateNames DEF Idle, Session, TypedIInv, IInv, ETypeOK, Row
  <2>4. /\ s.pc = "check" /\ s.from = row.state
        /\ s.to = IF Deploys(w) THEN "submission_unknown" ELSE "start_unknown"
    BY DEF Idle
  <2> HIDE DEF s, w
  <2>5. Backed(w) => IF Deploys(w) THEN row.state \in Deploying
                      ELSE row.state \in Starting
    BY <1>5, <2>1, <2>2 DEF InPhase, Deploys
  <2>6. Backed(w) => InPhase(s, row.state)
    BY <2>4, <2>5, PhaseNames, PhasesApart
    DEF InPhase, SamePhase, Follows, Verified
  <2> QED
    BY <1>2, <1>4, <2>1, <2>2, <2>3, <2>4, <2>6
<1>10. CASE StopRun(r)
  <2>1. UNCHANGED <<row, live, op, vm, jobs, claim, ledger>>
    BY <1>10 DEF StopRun
  <2>2. CASE run[r].worker = None
    <3>1. sess' = sess
      BY <1>10, <2>2 DEF StopRun
    <3> QED
      BY <1>1, <1>2, <2>1, <3>1, SessionsOnlyKeepSlow
  <2>3. CASE run[r].worker # None
    <3>1. run[r].worker \in Workers
      BY <2>3 DEF TypedIInv, RTypeOK, Run
    <3>2. sess' = [sess EXCEPT ![run[r].worker] = Idle]
      BY <1>10, <2>3 DEF StopRun
    <3>3. Idle.pc = "idle"
      BY DEF Idle
    <3> QED
      BY <1>2, <1>4, <2>1, <3>1, <3>2, <3>3, IdleTyped
  <2> QED
    BY <2>2, <2>3
<1>11. CASE SessionStep(r) /\ ActivateStopped(run[r].worker)
  <2> DEFINE w == run[r].worker
             s == [sess[w] EXCEPT !.pc = "finish"]
  <2>1. w \in Workers
    BY <1>11 DEF SessionStep, TypedIInv, RunsWellFormed
  <2>2. /\ sess[w].pc = "observe" /\ row.state = "verifying"
        /\ sess' = [sess EXCEPT ![w] = s]
        /\ UNCHANGED <<row, live, op, vm, jobs, ledger>>
    BY <1>11 DEF ActivateStopped
  <2>3. s \in Session /\ s.pc = "finish"
    BY <1>1, <2>1 DEF Session
  <2> HIDE DEF s, w
  <2>4. row.state \in Verified
    BY <2>2 DEF Verified
  <2>5. InPhase(s, row.state)
    BY <2>3, <2>4 DEF InPhase
  <2> QED
    BY <1>4, <2>1, <2>2, <2>3, <2>4, <2>5
<1> QED
  BY <1>6, <1>7, <1>8, <1>9, <1>10, <1>11 DEF OwnStep

\* So it holds beside the runs too.
LEMMA RunsKeepSlow ==
  ASSUME Separated PROVE RSpec => []SlowInv
<1>1. RInit => SlowInv
  BY InitSlow DEF RInit
<1>2. TypedIInv /\ SlowInv /\ [RNext]_rvars => SlowInv'
  <2> SUFFICES ASSUME TypedIInv, SlowInv, [RNext]_rvars PROVE SlowInv'
    OBVIOUS
  <2>1. CASE RNext
    BY <2>1, StepKinds, OwnStepKeepsSlow, StepKeepsSlow DEF TypedIInv
  <2>2. CASE UNCHANGED rvars
    BY <2>2, StepKeepsSlow DEF rvars, TypedIInv
  <2> QED
    BY <2>1, <2>2
<1> QED
  BY <1>1, <1>2, RunsKeepInvariant, PTL DEF RSpec

----------------------------------------------------------------------------
(* The VM of a guest that is bound.                                        *)

VmInv == TypedIInv /\ BoundVmExists /\ DeletionsAuthorized /\ BindersSawVm

\* In the steps of the executor and of CloudStack a claim that is ending goes
\* on ending, and a VM that is deleted leaves such a claim behind; only the VM
\* of a claim that is ending is open to deletion.
LEMMA ClaimMoves ==
  ASSUME IInv, BoundVmExists, DeletionsAuthorized, [Next]_vars
  PROVE  /\ claim \in Ending => claim' \in Ending
         /\ Present => Present' \/ claim' \in Ending
         /\ BoundVmExists'
         /\ DeletionsAuthorized'
<1> DEFINE Goal == /\ claim \in Ending => claim' \in Ending
                   /\ Present => Present' \/ claim' \in Ending
                   /\ BoundVmExists'
                   /\ DeletionsAuthorized'
<1>1. ASSUME NEW w \in Workers, Worker(w) PROVE Goal
  <2>1. Present' = Present
    BY <1>1, Frames DEF Present
  <2>2. \A j \in JobIds : jobs'[j].kind = "destroy"
                          /\ jobs'[j].status \in {"working", "ok"} =>
          jobs[j] = jobs'[j]
    <3>1. CASE Call(w)
      <4>1. PICK kind \in {"deploy", "start"},
              r \in JobIds \cup {None} : Submit(kind, r)
        BY <3>1 DEF Call
      <4> QED
        BY <4>1 DEF Submit, IInv, ETypeOK
    <3>2. CASE ~Call(w)
      BY <1>1, <3>2 DEF Worker, Acquire, Observe, Check, Write, Activate,
         ActivationPending, Finish, Release, Fail, Expire, SessionOnly
    <3> QED
      BY <3>1, <3>2
  <2>3. \/ claim' = claim
        \/ claim = "bound" /\ claim' = "managed"
        \/ claim' = "released"
    BY <1>1 DEF Worker, Acquire, Observe, Check, Write, Call, Activate,
       ActivationPending, Finish, Release, Fail, Expire, SessionOnly
  <2> QED
    BY <2>1, <2>2, <2>3 DEF BoundVmExists, DeletionsAuthorized, Ending
<1>2. ASSUME NEW o \in Operators, Operator(o) PROVE Goal
  <2>1. claim' = claim /\ Present' = Present
    BY <1>2, Frames DEF Present
  <2>2. \A j \in JobIds : jobs'[j].kind = "destroy"
                          /\ jobs'[j].status \in {"working", "ok"} =>
          jobs[j] = jobs'[j]
    <3>1. CASE Destroy(o)
      <4>1. PICK r : Submit("destroy", r)
        BY <3>1 DEF Destroy
      <4> QED
        BY <4>1 DEF Submit, IInv, ETypeOK
    <3>2. CASE ~Destroy(o)
      BY <1>2, <3>2 DEF Operator, RetryRead, RetryCas, CleanupRead, CleanupCas,
         Answer, OperatorFails, OperatorOnly
    <3> QED
      BY <3>1, <3>2
  <2> QED
    BY <2>1, <2>2 DEF BoundVmExists, DeletionsAuthorized
<1>3. ASSUME NEW j \in JobIds, JobMoves(j) PROVE Goal
  <2>0. /\ jobs \in [JobIds -> Job] /\ vm \in Vm
    BY DEF IInv, ETypeOK
  <2>1. CASE AuthorizeDelete(j)
    <3>1. /\ vm' = vm
          /\ claim' \in Ending
      BY <2>1 DEF AuthorizeDelete, Ending
    <3> QED
      BY <3>1 DEF BoundVmExists, DeletionsAuthorized, Present, Ending
  <2>2. CASE Expunge(j)
    <3>1. claim \in Ending /\ claim' = claim /\ jobs' = jobs
      BY <2>2 DEF Expunge, DeletionsAuthorized
    <3> QED
      BY <3>1 DEF BoundVmExists, DeletionsAuthorized, Ending
  <2>3. CASE StartBinds(j)
    BY <2>3
    DEF StartBinds, BoundVmExists, DeletionsAuthorized, Present, Ending
  <2>4. CASE \/ DeployCreates(j) \/ StartBegins(j) \/ JobSucceeds(j)
             \/ JobFails(j)
    <3>1. /\ claim' = claim
          /\ \A i \in JobIds \ {j} : jobs'[i] = jobs[i]
          /\ jobs'[j].kind = jobs[j].kind
          /\ jobs[j].kind = "destroy" /\ jobs'[j].status \in {"working", "ok"}
               => jobs[j].status = "working"
      BY <2>0, <2>4
      DEF DeployCreates, StartBegins, JobSucceeds, JobFails, JobStep, Job
    <3>2. Present => Present'
      BY <2>0, <2>4 DEF DeployCreates, StartBegins, JobSucceeds, JobFails,
         Present, Vm
    <3> QED
      BY <3>1, <3>2 DEF BoundVmExists, DeletionsAuthorized
  <2> QED
    BY <1>3, <2>1, <2>2, <2>3, <2>4 DEF JobMoves
<1>4. ASSUME AdminMoves PROVE Goal
  <2>0. vm \in Vm /\ jobs' = jobs
    BY <1>4, Frames DEF IInv, ETypeOK
  <2>1. CASE AdminStarts \/ VmStops
    <3>1. /\ Present'
          /\ \/ claim' = claim
             \/ claim = "reserved" /\ claim' = "bound"
      BY <2>0, <2>1 DEF AdminStarts, VmStops, Present, Vm
    <3> QED
      BY <2>0, <3>1 DEF BoundVmExists, DeletionsAuthorized, Ending
  <2>2. CASE AdminExpunges
    BY <2>0, <2>2
    DEF AdminExpunges, BoundVmExists, DeletionsAuthorized, Ending
  <2> QED
    BY <1>4, <2>1, <2>2 DEF AdminMoves
<1>5. CASE UNCHANGED vars
  BY <1>5 DEF vars, BoundVmExists, DeletionsAuthorized, Present
<1> QED
  BY <1>1, <1>2, <1>3, <1>4, <1>5 DEF Next, CloudStack, JobMoves, AdminMoves

\* The same of the steps that are a run's own.
LEMMA OwnClaimMoves ==
  ASSUME VmInv, NEW r \in Runners, OwnStep(r)
  PROVE  /\ claim \in Ending => claim' \in Ending
         /\ Present' = Present
         /\ BoundVmExists'
         /\ DeletionsAuthorized'
<1>1. UNCHANGED <<vm, jobs>>
  BY DEF OwnStep, Bind, Settle, Grant, Refused, StopRun, ActivateStopped
<1>2. \/ claim' = claim
      \/ claim \in {"reserved", "bound"} /\ Present /\ claim' = "bound"
      \/ claim = "bound" /\ claim' = "managed"
  BY DEF OwnStep, Bind, Settle, Grant, Refused, StopRun, ActivateStopped, VmInv,
     BindersSawVm
<1> QED
  BY <1>1, <1>2
  DEF VmInv, BoundVmExists, DeletionsAuthorized, Present, Ending

\* A run comes to its bind having seen the VM.
LEMMA BindersEnter ==
  ASSUME TypedIInv, RNext, NEW r \in Runners, run'[r].pc = "bind"
  PROVE  run[r].pc = "bind" \/ (Present /\ Present')
<1>0. run \in [Runners -> Run]
  BY DEF TypedIInv, RTypeOK
<1>1. ASSUME NEW q \in Runners, StartRun(q) \/ RunStep(q) \/ StopRun(q)
      PROVE  run[r].pc = "bind" \/ (Present /\ Present')
  <2>1. CASE Startup(q)
    BY <1>0, <2>1
    DEF Startup, RecoverableVm, Seen, Present, RunOnly, vars, Goto, Run
  <2>2. CASE RecoverStopped(q)
    BY <1>0, <2>2
    DEF RecoverStopped, RecoverableVm, Seen, Present, RunOnly, vars, Run
  <2>3. ASSUME ~Startup(q), ~RecoverStopped(q) PROVE run[r].pc = "bind"
    <3>1. CASE StartRun(q) \/ StopRun(q)
      <4>1. run'[q].pc \in {"enter", "out"} /\ \A p \in Runners \ {q} :
              run'[p] = run[p]
        BY <1>0, <3>1, OutTyped, Zenon DEF StartRun, StopRun, Out
      <4> QED
        BY <4>1
    <3>5. ASSUME NEW pc \in {"startup", "settle", "retry", "load"}, Goto(q, pc)
          PROVE  run[r].pc = "bind"
      BY <1>0, <3>5 DEF Goto, Run
    <3>6. CASE EnterRun(q) \/ Bind(q) \/ Settle(q)
      BY <3>5, <3>6 DEF EnterRun, Bind, Settle
    <3>2. CASE Retry(q) \/ Grant(q) \/ Load(q) \/ Complete(q) \/ After(q)
      BY <1>0, <3>2 DEF Retry, Grant, Load, Complete, After, Goto, Out, Run
    <3>3. CASE SessionStep(q) \/ SubmitWithin(q) \/ Refused(q)
      BY <1>0, <3>3 DEF SessionStep, SubmitWithin, Refused, Run
    <3>4. ASSUME NEW w \in Workers, Reconcile(q, w) PROVE run[r].pc = "bind"
      BY <1>0, <3>4 DEF Reconcile, Run
    <3> QED
      BY <1>1, <2>3, <3>1, <3>2, <3>3, <3>4, <3>6 DEF RunStep
  <2> QED
    BY <2>1, <2>2, <2>3
<1>2. CASE Service \/ Outside
  BY <1>2 DEF Service, Outside
<1> QED
  BY <1>1, <1>2 DEF RNext

LEMMA RunsKeepVm ==
  RSpec => []VmInv
<1>1. RInit => VmInv
  <2> SUFFICES ASSUME RInit PROVE VmInv
    OBVIOUS
  <2>1. BoundVmExists /\ DeletionsAuthorized
    BY DEF RInit, Init, NoJob, BoundVmExists, DeletionsAuthorized
  <2>2. BindersSawVm
    BY OutTyped DEF RInit, BindersSawVm
  <2> QED
    BY <2>1, <2>2, InitTyped DEF VmInv
<1>2. VmInv /\ TypedIInv' /\ [RNext]_rvars => VmInv'
  <2> SUFFICES ASSUME VmInv, TypedIInv', [RNext]_rvars PROVE VmInv'
    OBVIOUS
  <2>1. CASE UNCHANGED rvars
    BY <2>1
    DEF rvars, vars, VmInv, BoundVmExists, DeletionsAuthorized, BindersSawVm,
        Present
  <2>2. CASE RNext
    <3>1. /\ claim \in Ending => claim' \in Ending
          /\ Present => Present' \/ claim' \in Ending
          /\ BoundVmExists' /\ DeletionsAuthorized'
      BY <2>2, StepKinds, ClaimMoves, OwnClaimMoves DEF VmInv, TypedIInv
    <3>2. BindersSawVm'
      <4> SUFFICES ASSUME NEW r \in Runners, run'[r].pc = "bind",
                          claim' \in {"reserved", "bound"}
                   PROVE  Present'
        BY DEF BindersSawVm
      <4>1. claim' \notin Ending /\ claim \notin Ending
        BY <3>1 DEF Ending
      <4>2. CASE claim \in {"reserved", "bound"}
        BY <2>2, <3>1, <4>1, <4>2, BindersEnter DEF VmInv, BindersSawVm
      <4>3. CASE claim = "managed"
        BY <3>1, <4>1, <4>3 DEF VmInv, BoundVmExists
      <4> QED
        BY <4>1, <4>2, <4>3
        DEF VmInv, TypedIInv, IInv, ETypeOK, ClaimStates, Ending
    <3> QED
      BY <3>1, <3>2 DEF VmInv
  <2> QED
    BY <2>1, <2>2
<1> QED
  BY <1>1, <1>2, RunsKeepInvariant, PTL DEF RSpec

----------------------------------------------------------------------------
(* Runs exclude one another.                                               *)

\* A step of a run moves no other run, and comes within the authority only when
\* none is there.
LEMMA RunMoves ==
  ASSUME TypedIInv, NEW r \in Runners, StartRun(r) \/ RunStep(r) \/ StopRun(r)
  PROVE  /\ \A q \in Runners \ {r} : run'[q] = run[q]
         /\ Inside(r)' => Inside(r) \/ ~RunInside
<1>0. run \in [Runners -> Run]
  BY DEF TypedIInv, RTypeOK
<1>1. CASE StartRun(r) \/ StopRun(r) \/ Complete(r)
  <2>1. run'[r].pc \in {"enter", "out"}
        /\ \A q \in Runners \ {r} : run'[q] = run[q]
    <3>1. CASE StartRun(r)
      BY <1>0, <3>1, Zenon DEF StartRun, Out
    <3>2. CASE StopRun(r) \/ Complete(r)
      BY <1>0, <3>2, OutTyped DEF StopRun, Complete
    <3> QED
      BY <1>1, <3>1, <3>2
  <2> QED
    BY <2>1 DEF Inside
<1>2. CASE EnterRun(r)
  BY <1>0, <1>2 DEF EnterRun, Goto, Inside
<1>3. CASE \/ Startup(r) \/ Bind(r) \/ Settle(r) \/ Retry(r) \/ Grant(r)
           \/ RecoverStopped(r) \/ Load(r) \/ After(r)
  BY <1>0, <1>3 DEF Startup, Bind, Settle, Retry, Grant, RecoverStopped, Load,
     After, Goto, Inside
<1>4. CASE \/ SessionStep(r) \/ SubmitWithin(r) \/ Refused(r)
           \/ \E w \in Workers : Reconcile(r, w)
  BY <1>0, <1>4 DEF SessionStep, SubmitWithin, Refused, Reconcile, Inside
<1> QED
  BY <1>1, <1>2, <1>3, <1>4 DEF RunStep

LEMMA ExclusionKept ==
  ASSUME TypedIInv, RunsExclude, [RNext]_rvars
  PROVE  RunsExclude'
<1>1. CASE run' = run
  BY <1>1 DEF RunsExclude, Inside
<1>2. ASSUME NEW r \in Runners, StartRun(r) \/ RunStep(r) \/ StopRun(r)
      PROVE  RunsExclude'
  BY <1>2, RunMoves DEF RunsExclude, Inside, RunInside
<1> QED
  BY <1>1, <1>2 DEF RNext, Service, Outside, rvars

----------------------------------------------------------------------------
(* The guest that is stopped.                                              *)

\* What a worker decides on the way, before there is anything to verify.
LEMMA DecideSpares ==
  ASSUME NEW from \in Advanced \ {"verifying"}
  PROVE  Decide(from) \in OnTheWay \ {"verifying", "succeeded"}
<1>1. CASE from \in WaitingStates
  <2>1. Decide(from) = AfterSubmission(Seen)
    BY <1>1 DEF Decide, WaitingStates, StartingStates
  <2> QED
    BY <2>1 DEF AfterSubmission, OnTheWay, Advanced
<1>2. CASE from = "planned"
  <2>1. Decide(from) =
          IF Seen = "absent" THEN "deploy_submitting" ELSE AfterSubmission(Seen)
    BY <1>2 DEF Decide, WaitingStates, StartingStates
  <2> QED
    BY <2>1 DEF AfterSubmission, OnTheWay, Advanced
<1>3. CASE from = "deploy_submitted"
  <2>1. Decide(from) \in {"failed", "cleanup_required", "deploy_succeeded",
                          "deploy_submitted"}
    BY <1>3 DEF Decide, WaitingStates, StartingStates
  <2> QED
    BY <2>1 DEF OnTheWay, Advanced
<1> QED
  BY <1>1, <1>2, <1>3 DEF Advanced, WaitingStates

\* A run that is inside is alone, with the session it drives.
LEMMA Alone ==
  ASSUME TypedIInv, StoppedSpared, NEW r \in Runners, Inside(r)
  PROVE  /\ \A q \in Runners \ {r} : run[q].pc \in {"out", "enter"}
         /\ \A w \in Workers :
              (run[r].pc # "session" \/ run[r].worker # w) =>
                sess[w].pc = "idle"
  BY DEF StoppedSpared, RunsExclude, SessionsOwned, Inside

\* A run that moves without its session, on its way to where it may be.
LEMMA WalkSpares ==
  ASSUME TypedIInv, StoppedSpared, RunsExclude', NEW r \in Runners,
         UNCHANGED <<row, sess, claim, ledger, scheduled>>,
         \A q \in Runners \ {r} : run'[q] = run[q],
         run[r].pc \notin {"session", "settle"},
         run'[r].pc \in {"out", "enter", "startup", "load", "wait", "bind"},
         run'[r].pc = "wait" => row.state \in Advanced,
         run'[r].pc = "bind" => /\ row.state = "deploy_succeeded"
                                /\ run'[r].from = "deploy_succeeded"
  PROVE  StoppedSpared'
<1>1. SessionsOwned' /\ SessionsSpare'
  BY DEF StoppedSpared, SessionsOwned, SessionsSpare
<1>2. RunsSpare'
  BY DEF StoppedSpared, RunsSpare
<1>3. BindingSettles'
  BY DEF StoppedSpared, BindingSettles
<1> QED
  BY <1>1, <1>2, <1>3 DEF StoppedSpared

\* A session that moves under its run.
LEMMA WorkSpares ==
  ASSUME TypedIInv, StoppedSpared, RunsExclude', NEW r \in Runners,
         run[r].pc = "session",
         UNCHANGED scheduled, ledger'.starts = ledger.starts,
         \A q \in Runners \ {r} : run'[q] = run[q],
         \A v \in Workers \ {run[r].worker} : sess'[v] = sess[v],
         \/ run'[r].pc = "session" /\ run'[r].worker = run[r].worker
         \/ run'[r].pc = "after" /\ sess'[run[r].worker].pc = "idle",
         SessionSpares(sess'[run[r].worker], row'.state),
         row'.state \in OnTheWay,
         row'.state \in {"verifying", "succeeded"} <=>
           row.state \in {"verifying", "succeeded"},
         claim' \in {claim, "managed"}
  PROVE  StoppedSpared'
<1>1. /\ \A q \in Runners \ {r} : run[q].pc \in {"out", "enter"}
      /\ \A w \in Workers \ {run[r].worker} : sess[w].pc = "idle"
  BY Alone DEF Inside
<1>2. SessionsOwned'
  BY <1>1 DEF SessionsOwned
<1>3. SessionsSpare'
  BY <1>1 DEF SessionsSpare, SessionSpares
<1>4. RunsSpare'
  BY <1>1 DEF RunsSpare
<1>5. BindingSettles'
  BY <1>1 DEF StoppedSpared, BindingSettles
<1> QED
  BY <1>2, <1>3, <1>4, <1>5 DEF StoppedSpared

\* The steps of a session under a run.
LEMMA SessionStepSpares ==
  ASSUME TypedIInv, StoppedSpared, RunsExclude', source = "stopped",
         NEW r \in Runners, SessionStep(r)
  PROVE  StoppedSpared'
<1> DEFINE w == run[r].worker
           s == sess[w]
<1>1. /\ run[r].pc = "session" /\ w \in Workers
      /\ run \in [Runners -> Run] /\ sess \in [Workers -> Session]
      /\ row \in Row
  BY DEF SessionStep, TypedIInv, RunsWellFormed, RTypeOK, IInv, ETypeOK
<1>2. /\ SessionSpares(s, row.state) /\ row.state \in OnTheWay
      /\ s.pc \in {"check", "write"} /\ s.to = "deploy_submitting" =>
           s.from = "planned"
  BY <1>1
  DEF StoppedSpared, SessionsSpare, SessionSpares, TypedIInv, IInv,
      SessionsWellFormed
<1>3. /\ \A q \in Runners \ {r} : run'[q] = run[q]
      /\ UNCHANGED scheduled
      /\ \/ run'[r].pc = "session" /\ run'[r].worker = w
         \/ run'[r].pc = "after" /\ sess'[w].pc = "idle"
  BY <1>1 DEF SessionStep, config
<1>4. ASSUME \A v \in Workers \ {w} : sess'[v] = sess[v],
             SessionSpares(sess'[w], row'.state), row'.state \in OnTheWay,
             row'.state \in {"verifying", "succeeded"} <=>
               row.state \in {"verifying", "succeeded"},
             claim' \in {claim, "managed"}, ledger' = ledger
      PROVE  StoppedSpared'
  BY <1>1, <1>3, <1>4, WorkSpares
<1>5. CASE Observe(w)
  <2>1. s.pc = "observe" /\ s.from # "verifying"
    BY <1>5 DEF Observe
  <2>2. Decide(s.from) \in OnTheWay \ {"verifying", "succeeded"}
    BY <1>2, <2>1, DecideSpares DEF SessionSpares
  <2>3. /\ sess'[w].pc = "check" /\ sess'[w].from = s.from
        /\ sess'[w].to = Decide(s.from)
        /\ UNCHANGED <<row, claim, ledger>>
        /\ \A v \in Workers \ {w} : sess'[v] = sess[v]
    BY <1>1, <1>5 DEF Observe, SessionOnly, Session
  <2>4. SessionSpares(sess'[w], row'.state)
    BY <1>2, <2>1, <2>2, <2>3 DEF SessionSpares, Advanced
  <2> QED
    BY <1>2, <1>4, <2>3, <2>4
<1>6. CASE Check(w)
  <2>1. /\ s.pc = "check" /\ sess'[w].pc = "write"
        /\ sess'[w].from = s.from /\ sess'[w].to = s.to
        /\ UNCHANGED <<row, claim, ledger>>
        /\ \A v \in Workers \ {w} : sess'[v] = sess[v]
    BY <1>1, <1>6 DEF Check, SessionOnly, Session
  <2>2. SessionSpares(sess'[w], row'.state)
    BY <1>2, <2>1 DEF SessionSpares
  <2> QED
    BY <1>2, <1>4, <2>1, <2>2
<1>7. CASE Write(w)
  <2>1. /\ s.pc = "write" /\ row'.state = StoredState(s)
        /\ UNCHANGED <<claim, ledger>>
        /\ \A v \in Workers \ {w} : sess'[v] = sess[v]
    BY <1>1, <1>7 DEF Write
  <2>2. /\ row'.state \in OnTheWay
        /\ row'.state \in {"verifying", "succeeded"} <=>
             row.state \in {"verifying", "succeeded"}
    BY <1>2, <2>1 DEF SessionSpares, StoredState
  <2>3. CASE Submits(s)
    <3>1. s.to = "deploy_submitting" /\ s.from = "planned"
      BY <1>2, <2>1, <2>3 DEF SessionSpares, Submits, OnTheWay, Advanced
    <3>2. sess'[w].pc = "call" /\ sess'[w].to = s.to
      BY <1>1, <1>7, <2>3 DEF Write, Session
    <3>3. row'.state = "deploy_submitting"
      BY <2>1, <3>1 DEF StoredState
    <3>4. SessionSpares(sess'[w], row'.state)
      BY <3>1, <3>2, <3>3 DEF SessionSpares
    <3> QED
      BY <1>4, <2>1, <2>2, <3>4
  <2>4. CASE ~Submits(s)
    <3>1. sess'[w].pc = "idle"
      BY <1>1, <1>7, <2>4 DEF Write, Idle
    <3>2. SessionSpares(sess'[w], row'.state)
      BY <3>1 DEF SessionSpares
    <3> QED
      BY <1>4, <2>1, <2>2, <3>2
  <2> QED
    BY <2>3, <2>4
<1>8. CASE ActivationPending(w)
  <2>1. row.state = "verifying"
    BY <1>2, <1>8 DEF ActivationPending, SessionSpares
  <2>2. /\ sess'[w].pc = "check" /\ sess'[w].from = row.state
        /\ sess'[w].to = "verifying"
        /\ UNCHANGED <<row, claim, ledger>>
        /\ \A v \in Workers \ {w} : sess'[v] = sess[v]
    BY <1>1, <1>8 DEF ActivationPending, SessionOnly, Idle
  <2>3. SessionSpares(sess'[w], row'.state)
    BY <2>1, <2>2 DEF SessionSpares, OnTheWay, Advanced
  <2> QED
    BY <1>2, <1>4, <2>2, <2>3
<1>9. CASE Finish(w)
  <2>1. row.state = "verifying"
    BY <1>2, <1>9 DEF Finish, SessionSpares
  <2>2. /\ sess'[w].pc = "check" /\ sess'[w].from = row.state
        /\ sess'[w].to = "succeeded"
        /\ UNCHANGED <<row, claim, ledger>>
        /\ \A v \in Workers \ {w} : sess'[v] = sess[v]
    BY <1>1, <1>9 DEF Finish, SessionOnly, Idle
  <2>3. SessionSpares(sess'[w], row'.state)
    BY <2>1, <2>2 DEF SessionSpares, OnTheWay, Advanced
  <2> QED
    BY <1>2, <1>4, <2>2, <2>3
<1>10. CASE ActivateStopped(w)
  <2>1. /\ row.state = "verifying" /\ sess'[w].pc = "finish"
        /\ claim' = "managed" /\ UNCHANGED <<row, ledger>>
        /\ \A v \in Workers \ {w} : sess'[v] = sess[v]
    BY <1>1, <1>10 DEF ActivateStopped, Session
  <2>2. SessionSpares(sess'[w], row'.state)
    BY <2>1 DEF SessionSpares
  <2> QED
    BY <1>2, <1>4, <2>1, <2>2
<1> QED
  BY <1>5, <1>6, <1>7, <1>8, <1>9, <1>10 DEF SessionStep, WorkerStep

\* What the bounded client lets through, or refuses, is a deployment.
LEMMA SubmissionSpares ==
  ASSUME TypedIInv, StoppedSpared, RunsExclude', NEW r \in Runners,
         SubmitWithin(r) \/ Refused(r)
  PROVE  StoppedSpared'
<1> DEFINE w == run[r].worker
<1>1. /\ run[r].pc = "session" /\ w \in Workers /\ sess[w].pc = "call"
      /\ run \in [Runners -> Run] /\ sess \in [Workers -> Session]
  BY DEF SubmitWithin, Call, Refused, TypedIInv, RunsWellFormed, RTypeOK, IInv,
     ETypeOK
<1>2. /\ row.state = "deploy_submitting" /\ sess[w].to = "deploy_submitting"
      /\ row.state \in OnTheWay
  BY <1>1 DEF StoppedSpared, SessionsSpare, SessionSpares
<1>3. /\ \A q \in Runners \ {r} : run'[q] = run[q]
      /\ UNCHANGED <<scheduled, row, claim>>
      /\ run'[r].pc = "session" /\ run'[r].worker = w
  <2>1. CASE Refused(r)
    BY <1>1, <2>1 DEF Refused, config
  <2>2. CASE SubmitWithin(r)
    <3>1. UNCHANGED <<scheduled, row, claim>>
      BY <2>2 DEF SubmitWithin, Call, config
    <3>2. \/ run' = [run EXCEPT ![r].deploy = FALSE]
          \/ run' = [run EXCEPT ![r].start = FALSE]
      BY <2>2 DEF SubmitWithin
    <3> QED
      BY <1>1, <3>1, <3>2 DEF Run
  <2> QED
    BY <2>1, <2>2
<1>4. /\ ledger'.starts = ledger.starts
      /\ sess'[w].pc = "check" /\ sess'[w].from = row.state
      /\ sess'[w].to \in {"deploy_submitted", "submission_unknown"}
      /\ \A v \in Workers \ {w} : sess'[v] = sess[v]
  <2>1. CASE SubmitWithin(r)
    <3>1. Call(w)
      BY <2>1 DEF SubmitWithin
    <3>2. ledger'.starts = ledger.starts
      BY <1>2, <3>1 DEF Call, TypedIInv, IInv, ETypeOK
    <3>3. PICK j \in JobIds \cup {None} :
            sess' = [sess EXCEPT ![w] =
              [pc |-> "check", from |-> row.state, job |-> j,
               to |-> IF j # None THEN "deploy_submitted"
                      ELSE "submission_unknown"]]
      BY <1>2, <3>1 DEF Call
    <3> QED
      BY <1>1, <3>2, <3>3
  <2>2. CASE Refused(r)
    BY <1>1, <1>2, <2>2 DEF Refused, Deploys, Idle
  <2> QED
    BY <2>1, <2>2
<1>5. SessionSpares(sess'[w], row'.state)
  BY <1>2, <1>3, <1>4 DEF SessionSpares, OnTheWay, Advanced
<1> QED
  BY <1>1, <1>2, <1>3, <1>4, <1>5, WorkSpares

\* The steps of a run outside its sessions.
LEMMA RunStepSpares ==
  ASSUME TypedIInv, StoppedSpared, RunsExclude', source = "stopped", ~torn',
         NEW r \in Runners, StartRun(r) \/ RunStep(r) \/ StopRun(r)
  PROVE  StoppedSpared'
<1>1. /\ run \in [Runners -> Run] /\ row \in Row
      /\ sess \in [Workers -> Session]
      /\ \A q \in Runners \ {r} : run'[q] = run[q]
  BY RunMoves DEF TypedIInv, RTypeOK, IInv, ETypeOK
<1>2. /\ ~scheduled /\ row.state \in OnTheWay /\ ledger.starts = 0
      /\ RunsSpare /\ BindingSettles /\ SessionsSpare /\ SessionsOwned
  BY DEF StoppedSpared
<1>3. row.state \notin {"start_unknown", "start_submitting", "start_submitted"}
      /\ row.state \notin CleaningStates
  BY <1>2 DEF OnTheWay, Advanced, CleaningStates
<1>4. ASSUME RunOnly, run[r].pc \notin {"session", "settle"},
             run'[r].pc \in {"out", "enter", "startup", "load"}
      PROVE  StoppedSpared'
  BY <1>1, <1>4, WalkSpares DEF RunOnly, vars, config
<1>5. CASE StartRun(r)
  <2>1. run[r].pc = "out" /\ run'[r].pc = "enter"
    BY <1>1, <1>5, Zenon DEF StartRun, Out
  <2>2. UNCHANGED <<row, sess, claim, ledger, scheduled>>
    BY <1>5 DEF StartRun, vars, config
  <2> QED
    BY <1>1, <2>1, <2>2, WalkSpares
<1>6. CASE EnterRun(r) \/ After(r)
  BY <1>1, <1>4, <1>6 DEF EnterRun, After, Goto, Run
<1>7. CASE Startup(r)
  <2>1. row.state # "start_unknown" /\ run[r].pc = "startup"
        /\ ~(row.state = "verifying" /\ claim = "reserved")
    BY <1>2, <1>3, <1>7 DEF Startup, BindingSettles
  <2>2. run'[r].pc = "load" /\ RunOnly
    BY <1>1, <1>7, <2>1 DEF Startup, Goto, Run
  <2> QED
    BY <1>4, <2>1, <2>2
<1>8. CASE RecoverStopped(r)
  <2>1. /\ row.state = "deploy_succeeded"
        /\ run[r].pc \notin {"session", "settle"}
        /\ run'[r].pc = "bind" /\ run'[r].from = "deploy_succeeded"
        /\ RunOnly
    BY <1>1, <1>8 DEF RecoverStopped, LeftStopped, Run
  <2> QED
    BY <1>1, <2>1, WalkSpares DEF RunOnly, vars, config
<1>9. CASE Load(r)
  <2>1. /\ run[r].pc = "load" /\ run'[r].pc = "wait"
        /\ row.state # "succeeded" /\ Resumable /\ ~LeftStopped
        /\ RunOnly
    BY <1>1, <1>9 DEF Load, Run
  <2>2. \A q \in Runners : run[q].pc # "settle"
    BY <2>1, Alone DEF Inside
  <2>3. row.state # "deploy_succeeded"
    <3> SUFFICES ASSUME row.state = "deploy_succeeded" PROVE FALSE
      OBVIOUS
    <3>1. claim = "bound"
      BY <2>1 DEF Resumable, PhasePair, LeftStopped
    <3> QED
      BY <1>2, <2>2, <3>1 DEF BindingSettles
  <2>4. row.state \in Advanced
    BY <1>2, <2>1, <2>3
    DEF OnTheWay, Advanced, Resumable, ResumableStates, AmbiguousStates,
        WaitingStates, StartingStates, SubmittedStates
  <2> QED
    BY <1>1, <2>1, <2>4, WalkSpares DEF RunOnly, vars, config
<1>10. CASE Complete(r)
  BY <1>1, <1>4, <1>10, OutTyped DEF Complete
<1>11. CASE Retry(r) \/ Grant(r)
  BY <1>2, <1>11 DEF Retry, Grant, RunsSpare
<1>12. CASE Bind(r)
  <2>1. /\ run[r].pc = "bind" /\ run[r].from = "deploy_succeeded"
        /\ row.state = "deploy_succeeded"
    BY <1>2, <1>12 DEF Bind, RunsSpare
  <2>2. /\ run'[r].pc = "settle" /\ claim' = "bound"
        /\ UNCHANGED <<row, sess, ledger, scheduled>>
    BY <1>1, <1>12, <2>1 DEF Bind, Goto, config, Run
  <2>3. /\ \A q \in Runners \ {r} : run[q].pc \in {"out", "enter"}
        /\ \A w \in Workers : sess[w].pc = "idle"
    BY <2>1, Alone DEF Inside
  <2>4. SessionsOwned' /\ SessionsSpare' /\ RunsSpare' /\ BindingSettles'
    BY <1>1, <2>1, <2>2, <2>3
    DEF SessionsOwned, SessionsSpare, SessionSpares, RunsSpare, BindingSettles
  <2> QED
    BY <1>2, <2>2, <2>4 DEF StoppedSpared
<1>13. CASE Settle(r)
  <2>1. /\ run[r].pc = "settle" /\ run'[r].pc = "load"
        /\ row' = [row EXCEPT !.state = "verifying"]
        /\ UNCHANGED <<sess, claim, ledger, scheduled>>
    BY <1>1, <1>13 DEF Settle, Goto, config, Run
  <2>2. row'.state = "verifying" /\ claim # "reserved"
    BY <1>1, <1>2, <2>1 DEF RunsSpare, Row
  <2>3. /\ \A q \in Runners \ {r} : run[q].pc \in {"out", "enter"}
        /\ \A w \in Workers : sess[w].pc = "idle"
    BY <2>1, Alone DEF Inside
  <2>4. SessionsOwned' /\ SessionsSpare' /\ RunsSpare' /\ BindingSettles'
    BY <1>1, <2>1, <2>2, <2>3
    DEF SessionsOwned, SessionsSpare, SessionSpares, RunsSpare, BindingSettles
  <2>5. row'.state \in OnTheWay
    BY <2>2 DEF OnTheWay, Advanced
  <2> QED
    BY <1>2, <2>1, <2>4, <2>5 DEF StoppedSpared
<1>14. ASSUME NEW w \in Workers, Reconcile(r, w) PROVE StoppedSpared'
  <2>1. /\ run[r].pc = "wait" /\ run'[r].pc = "session" /\ run'[r].worker = w
        /\ row'.state = row.state
        /\ sess'[w].pc = "observe" /\ sess'[w].from = row.state
        /\ \A v \in Workers \ {w} : sess'[v] = sess[v]
        /\ UNCHANGED <<claim, ledger, scheduled>>
    BY <1>1, <1>14 DEF Reconcile, Acquire, Idle, config, Run, Row
  <2>2. row.state \in Advanced
    BY <1>2, <2>1 DEF RunsSpare
  <2>3. /\ \A q \in Runners \ {r} : run[q].pc \in {"out", "enter"}
        /\ \A v \in Workers : sess[v].pc = "idle"
    BY <2>1, Alone DEF Inside
  <2>4. SessionsOwned' /\ SessionsSpare' /\ RunsSpare' /\ BindingSettles'
    BY <1>1, <1>2, <2>1, <2>2, <2>3
    DEF SessionsOwned, SessionsSpare, SessionSpares, RunsSpare, BindingSettles
  <2> QED
    BY <1>2, <2>1, <2>4 DEF StoppedSpared
<1>15. CASE StopRun(r)
  <2>1. /\ run'[r].pc = "out" /\ run[r].pc # "settle"
        /\ UNCHANGED <<row, claim, ledger, scheduled>>
        /\ IF run[r].worker = None THEN sess' = sess
           ELSE sess' = [sess EXCEPT ![run[r].worker] = Idle]
    BY <1>1, <1>15, OutTyped DEF StopRun, config
  <2>2. run[r].pc = "session" => run[r].worker # None
    BY ExecutorConstants DEF TypedIInv, RunsWellFormed
  <2>3. \A w \in Workers : sess'[w].pc = "idle" \/ sess'[w] = sess[w]
    BY <1>1, <2>1 DEF Idle
  <2>4. SessionsOwned'
    <3> SUFFICES ASSUME NEW w \in Workers, sess'[w].pc # "idle"
                 PROVE  \E q \in Runners : run'[q].pc = "session"
                                           /\ run'[q].worker = w
      BY DEF SessionsOwned
    <3>1. PICK q \in Runners : run[q].pc = "session" /\ run[q].worker = w
      BY <1>2, <2>3 DEF SessionsOwned
    <3>2. q # r
      BY <1>1, <2>1, <2>2, <3>1 DEF Idle
    <3> QED
      BY <1>1, <3>1, <3>2
  <2>5. SessionsSpare'
    BY <1>2, <2>1, <2>3 DEF SessionsSpare, SessionSpares
  <2>6. RunsSpare' /\ BindingSettles'
    BY <1>1, <1>2, <2>1 DEF RunsSpare, BindingSettles
  <2> QED
    BY <1>2, <2>1, <2>4, <2>5, <2>6 DEF StoppedSpared
<1> QED
  BY <1>5, <1>6, <1>7, <1>8, <1>9, <1>10, <1>11, <1>12, <1>13, <1>14, <1>15,
     SessionStepSpares, SubmissionSpares
  DEF RunStep

\* CloudStack and its callbacks leave the guest alone: none of them binds it.
LEMMA OutsideSpares ==
  ASSUME TypedIInv, StoppedSpared, RunsExclude', source = "stopped", Outside
  PROVE  StoppedSpared'
<1>1. UNCHANGED <<run, scheduled, sess, ledger>>
  BY DEF Outside, config, DeployCreates, StartBegins, StartBinds,
     AuthorizeDelete, Expunge, JobSucceeds, JobFails, AdminStarts, VmStops,
     AdminExpunges, Expire, CloudStackOnly
<1>2. row.state \notin CleaningStates
  BY DEF StoppedSpared, OnTheWay, Advanced, CleaningStates
<1>3. /\ row' = row
      /\ claim' \in {claim, "retiring"}
  <2>1. CASE CallbacksPass /\ \E j \in JobIds : StartBinds(j)
    BY <2>1 DEF CallbacksPass, StartBinds
  <2>2. ASSUME NEW j \in JobIds, AuthorizeDelete(j)
        PROVE  row' = row /\ claim' \in {claim, "retiring"}
    BY <1>2, <2>2 DEF AuthorizeDelete
  <2>3. CASE CallbacksPass /\ AdminStarts
    BY <2>3 DEF CallbacksPass, AdminStarts, CloudStackOnly
  <2>4. CASE \E j \in JobIds : \/ DeployCreates(j) \/ StartBegins(j)
                               \/ Expunge(j) \/ JobSucceeds(j) \/ JobFails(j)
    BY <2>4 DEF DeployCreates, StartBegins, Expunge, JobSucceeds, JobFails,
       CloudStackOnly
  <2>5. CASE VmStops \/ AdminExpunges \/ \E w \in Workers : Expire(w)
    BY <2>5 DEF VmStops, AdminExpunges, Expire, CloudStackOnly
  <2> QED
    BY <2>1, <2>2, <2>3, <2>4, <2>5 DEF Outside
<1>4. SessionsOwned' /\ SessionsSpare' /\ RunsSpare' /\ BindingSettles'
  BY <1>1, <1>3
  DEF StoppedSpared, SessionsOwned, SessionsSpare, SessionSpares, RunsSpare,
      BindingSettles
<1> QED
  BY <1>1, <1>3, <1>4 DEF StoppedSpared

StoppedInv == RunsExclude /\ (source = "stopped" /\ ~torn => StoppedSpared)

LEMMA RunsSpareStopped ==
  RSpec => []StoppedInv
<1>1. RInit => StoppedInv
  <2> SUFFICES ASSUME RInit PROVE StoppedInv
    OBVIOUS
  <2>1. /\ \A r \in Runners : run[r].pc = "out"
        /\ \A w \in Workers : sess[w].pc = "idle"
        /\ row.state = "planned" /\ claim = "reserved" /\ ledger.starts = 0
        /\ source = "stopped" => ~scheduled
    BY OutTyped DEF RInit, Init, Idle
  <2>2. RunsExclude /\ SessionsOwned /\ SessionsSpare /\ RunsSpare
        /\ BindingSettles
    BY <2>1 DEF RunsExclude, Inside, SessionsOwned, SessionsSpare,
       SessionSpares, RunsSpare, BindingSettles
  <2>3. "planned" \in OnTheWay
    BY DEF OnTheWay, Advanced
  <2>4. scheduled \in BOOLEAN
    BY DEF RInit
  <2> QED
    BY <2>1, <2>2, <2>3, <2>4 DEF StoppedInv, StoppedSpared
<1>2. StoppedInv /\ TypedIInv /\ TypedIInv' /\ [RNext]_rvars => StoppedInv'
  <2> SUFFICES ASSUME StoppedInv, TypedIInv, TypedIInv', [RNext]_rvars
               PROVE  StoppedInv'
    OBVIOUS
  <2>1. RunsExclude'
    BY ExclusionKept DEF StoppedInv
  <2>2. ASSUME source' = "stopped", ~torn' PROVE StoppedSpared'
    <3>1. CASE UNCHANGED rvars
      BY <2>2, <3>1
      DEF rvars, vars, config, StoppedInv, StoppedSpared, RunsExclude, Inside,
          SessionsOwned, SessionsSpare, SessionSpares, RunsSpare,
          BindingSettles
    <3>2. CASE RNext
      <4>1. source = "stopped" /\ ~torn
        <5>1. CASE Service \/ Outside
          BY <2>2, <5>1 DEF Service, Outside, config
        <5>2. ASSUME NEW r \in Runners, StopRun(r)
              PROVE  source = "stopped" /\ ~torn
          BY <2>2, <5>2, Zenon DEF StopRun, config
        <5>3. ASSUME NEW r \in Runners, StartRun(r) \/ RunStep(r)
              PROVE  source = "stopped" /\ ~torn
          BY <2>2, <5>3
          DEF StartRun, RunStep, EnterRun, Startup, Bind, Settle, Retry, Grant,
              RecoverStopped, Load, Complete, SessionStep, SubmitWithin,
              Refused, After, Reconcile, RunOnly, config
        <5> QED
          BY <3>2, <5>1, <5>2, <5>3 DEF RNext
      <4>2. StoppedSpared
        BY <4>1 DEF StoppedInv
      <4>3. ~Service
        BY <4>2 DEF Service, StoppedSpared
      <4> QED
        BY <2>1, <2>2, <3>2, <4>1, <4>2, <4>3, RunStepSpares, OutsideSpares
        DEF RNext
    <3> QED
      BY <3>1, <3>2
  <2> QED
    BY <2>1, <2>2 DEF StoppedInv
<1> QED
  BY <1>1, <1>2, RunsKeepInvariant, PTL DEF RSpec

----------------------------------------------------------------------------
(* The theorems.                                                           *)

\* What a run has read, decided and may still submit keeps its type.
THEOREM RunTypes ==
  RSpec => []RTypeOK
<1>1. TypedIInv => RTypeOK
  BY DEF TypedIInv
<1> QED
  BY <1>1, RunsKeepInvariant, PTL

\* A run calls deployVirtualMachine only as granted, by an operator or by its
\* own recovery, beside the scheduled executor's promises.
THEOREM RunsDeployAsGranted ==
  RSpec => []DeploysAreGranted
<1>1. TypedIInv => DeploysAreGranted
  <2> SUFFICES ASSUME TypedIInv PROVE DeploysAreGranted
    OBVIOUS
  <2>1. ledger.deploys \in Nat /\ ledger.redeploys \in Nat
    BY DEF TypedIInv, IInv, ETypeOK
  <2> QED
    BY <2>1 DEF TypedIInv, IInv, DeploysWithinCredit, DeploysAreGranted
<1> QED
  BY <1>1, RunsKeepInvariant, PTL

\* Under runs too a claim is released only once its VM is gone for good.
THEOREM RunsReleaseAbsentVms ==
  RSpec => []ReleasedVmIsGone
<1>1. TypedIInv => ReleasedVmIsGone
  BY DEF TypedIInv, IInv
<1> QED
  BY <1>1, RunsKeepInvariant, PTL

\* No bind, of a callback or of a run, comes after the deletion of the VM.
THEOREM BoundVmsExist ==
  RSpec => []BoundVmExists
<1>1. VmInv => BoundVmExists
  BY DEF VmInv
<1> QED
  BY <1>1, RunsKeepVm, PTL

\* No run, retry or callback has CloudStack start a guest that is stopped.
THEOREM StoppedGuestsStayStopped ==
  RSpec => []StoppedGuestNotStarted
<1>1. StoppedInv /\ TypedIInv => StoppedGuestNotStarted
  <2> SUFFICES ASSUME StoppedInv, TypedIInv, source = "stopped",
                      ledger.starts > 0, ~torn
               PROVE  FALSE
    BY DEF StoppedGuestNotStarted, TypedIInv, RTypeOK
  <2>1. ledger.starts = 0
    BY DEF StoppedInv, StoppedSpared
  <2> QED
    BY <2>1
<1> QED
  BY <1>1, RunsSpareStopped, RunsKeepInvariant, PTL

\* With runs that retry on their own initiative too, startVirtualMachine is
\* called once, and once more for each retry.
THEOREM RunsStartAsGranted ==
  ASSUME Separated PROVE RSpec => []StartsAreGranted
<1>1. TypedIInv /\ SlowInv => StartsAreGranted
  BY SlowIsSafe DEF TypedIInv
<1> QED
  BY <1>1, RunsKeepInvariant, RunsKeepSlow, PTL

\* Nor does a run bring a claim under management that a deletion may reach.
THEOREM RunsCleanupSparesManaged ==
  ASSUME Separated PROVE RSpec => []CleanupSparesManaged
<1>1. TypedIInv /\ SlowInv => CleanupSparesManaged
  BY SlowIsSafe DEF TypedIInv
<1> QED
  BY <1>1, RunsKeepInvariant, RunsKeepSlow, PTL

=============================================================================
