----------------------- MODULE AdoptionExecutorProofs -----------------------
(***************************************************************************)
(* What is proved of AdoptionExecutor, for any number of workers,          *)
(* operators and jobs.                                                     *)
(*                                                                         *)
(* Whatever the pace, and without the write authority, IInv is inductive:  *)
(* a cleanup has seen its VM, a worker that decided to roll back saw it    *)
(* gone, and the one right to call deployVirtualMachine is in the row or   *)
(* with the worker that holds it.                                          *)
(***************************************************************************)
EXTENDS AdoptionExecutor, TLAPS

----------------------------------------------------------------------------
(* The invariant.                                                          *)

\* What a session has loaded and decided, by where it is.
SessionsWellFormed ==
    \A w \in Workers :
      /\ sess[w].pc = "observe" => sess[w].from \in ActiveStates
      /\ sess[w].pc \in {"check", "write", "call"} =>
           /\ sess[w].to # "planned"
           /\ sess[w].to = "deploy_submitting" => sess[w].from = "planned"
      /\ sess[w].pc = "call" => Submits(sess[w])

RequestsWellFormed ==
    \A o \in Operators :
      /\ op[o].pc = "retry" =>
           /\ op[o].from \in {"submission_unknown", "start_unknown"}
           /\ op[o].to \in {"planned", "deploy_succeeded", "verifying"}
           /\ op[o].to = "planned" => op[o].from = "submission_unknown"
           /\ op[o].from = "submission_unknown" => op[o].to # "verifying"
      /\ op[o].pc \in {"destroy", "answer"} => op[o].from = "cleanup_submitting"
      /\ op[o].pc = "answer" =>
           op[o].to \in {"cleanup_submitting", "cleanup_submitted"}

\* A cleanup starts from a VM that was seen.
CleanupSawVm ==
    /\ row.state \in CleaningStates \cup {"rolled_back"} => vm.life # "none"
    /\ \A w \in Workers :
         /\ sess[w].pc # "idle" /\ sess[w].from \in CleaningStates =>
              vm.life # "none"
         /\ sess[w].pc \in {"check", "write"}
              /\ sess[w].to \in CleaningStates => vm.life # "none"
         /\ sess[w].pc \in {"check", "write"} /\ sess[w].to = "rolled_back" =>
              vm.life = "gone"
    /\ \A o \in Operators :
         op[o].pc \in {"cleanup", "destroy", "answer"} => vm.life # "none"

\* The session that holds the row may still call deployVirtualMachine.
MayDeploy(s) ==
    \/ s.pc \in {"observe", "check", "write"} /\ s.from = "planned"
    \/ s.pc = "call" /\ s.to = "deploy_submitting"

DeployCredit ==
    \/ row.state = "planned"
    \/ row.lease \in Workers /\ MayDeploy(sess[row.lease])

\* A session that is about to call it has committed its state.
CallerCommitted ==
    row.lease \in Workers /\ sess[row.lease].pc = "call"
      /\ sess[row.lease].to = "deploy_submitting" => row.state # "planned"

DeploysWithinCredit ==
    /\ ledger.deploys + (IF DeployCredit THEN 1 ELSE 0) <= 1 + ledger.redeploys
    /\ CallerCommitted

IInv ==
    /\ ETypeOK /\ SessionsWellFormed /\ RequestsWellFormed
    /\ CleanupSawVm /\ ReleasedVmIsGone /\ DeploysWithinCredit

----------------------------------------------------------------------------
(* Lemmas about the decisions.                                             *)

\* What a worker decides is a state, never "planned"; only a session of a
\* cleanup decides for cleanup states, and it rolls back an absent VM only.
LEMMA DecideFacts ==
  ASSUME ETypeOK, NEW from \in ActiveStates
  PROVE  /\ Decide(from) \in States
         /\ Decide(from) # "planned"
         /\ Decide(from) = "deploy_submitting" => from = "planned"
         /\ Decide(from) \in CleaningStates \cup {"rolled_back"} =>
              from \in CleaningStates
         /\ Decide(from) = "rolled_back" => ~Present
<1>1. Seen = "absent" => ~Present
  BY DEF Seen, Present, ETypeOK, Vm
<1>2. CASE from \in WaitingStates
  <2>1. Decide(from) = AfterSubmission(Seen)
    BY <1>2 DEF Decide, WaitingStates, StartingStates
  <2>2. Decide(from) \in
          {"submission_unknown", "cleanup_required", "deploy_succeeded"}
    BY <2>1 DEF AfterSubmission
  <2> QED
    BY <2>2 DEF States, ActiveStates, TerminalStates, WaitingStates,
       CleaningStates
<1>3. CASE from = "planned"
  <2>1. Decide(from) =
          IF Seen = "absent" THEN "deploy_submitting" ELSE AfterSubmission(Seen)
    BY <1>3 DEF Decide, WaitingStates, StartingStates
  <2>2. Decide(from) \in {"deploy_submitting", "submission_unknown",
                          "cleanup_required", "deploy_succeeded"}
    BY <2>1 DEF AfterSubmission
  <2> QED
    BY <1>3, <2>2 DEF States, ActiveStates, TerminalStates, WaitingStates,
       CleaningStates
<1>4. CASE from = "deploy_submitted"
  <2>1. Decide(from) \in {"failed", "cleanup_required", "deploy_succeeded",
                          "deploy_submitted"}
    BY <1>4 DEF Decide, WaitingStates, StartingStates
  <2> QED
    BY <2>1 DEF States, ActiveStates, TerminalStates, CleaningStates
<1>5. CASE from = "deploy_succeeded"
  <2>1. Decide(from) \in {"start_submitting", "cleanup_required"}
    BY <1>5 DEF Decide, WaitingStates, StartingStates
  <2> QED
    BY <2>1 DEF States, ActiveStates, TerminalStates, StartingStates,
       CleaningStates
<1>6. CASE from \in StartingStates
  <2>1. Decide(from) \in {"verifying", "start_unknown"}
    BY <1>6 DEF Decide, AfterStart, WaitingStates, StartingStates
  <2> QED
    BY <2>1 DEF States, ActiveStates, TerminalStates, StartingStates,
       CleaningStates
<1>7. CASE from = "start_submitted"
  <2>1. Decide(from) \in {"verifying", "start_unknown", "start_submitted"}
    BY <1>7 DEF Decide, WaitingStates, StartingStates
  <2> QED
    BY <2>1 DEF States, ActiveStates, TerminalStates, StartingStates,
       CleaningStates
<1>8. CASE from \in {"cleanup_submitting", "cleanup_authorized"}
  <2>1. Decide(from) = AfterDestroy(Seen)
    BY <1>8 DEF Decide, WaitingStates, StartingStates
  <2>2. /\ Decide(from) \in
             {"rolled_back", "cleanup_required", "cleanup_submitting"}
        /\ Decide(from) = "rolled_back" => Seen = "absent"
    BY <2>1 DEF AfterDestroy
  <2> QED
    BY <1>1, <1>8, <2>2 DEF States, ActiveStates, TerminalStates,
       CleaningStates
<1>9. CASE from = "cleanup_submitted"
  <2>1. /\ Decide(from) \in
             {"rolled_back", "cleanup_required", "cleanup_submitted"}
        /\ Decide(from) = "rolled_back" => ~Present
    BY <1>9 DEF Decide, WaitingStates, StartingStates
  <2> QED
    BY <1>9, <2>1 DEF States, ActiveStates, TerminalStates, CleaningStates
<1>10. CASE from = "verifying"
  <2>1. Decide(from) = "verifying"
    BY <1>10 DEF Decide, WaitingStates, StartingStates
  <2> QED
    BY <2>1 DEF States, ActiveStates, CleaningStates
<1> QED
  BY <1>2, <1>3, <1>4, <1>5, <1>6, <1>7, <1>8, <1>9, <1>10
  DEF ActiveStates, CleaningStates

\* The literals that the actions store are states.
LEMMA StateNames ==
  /\ ActiveStates \subseteq States /\ CleaningStates \subseteq States
  /\ {"planned", "deploy_submitting", "deploy_submitted", "submission_unknown",
      "deploy_succeeded", "start_submitting", "start_submitted",
      "start_unknown", "verifying", "succeeded", "cleanup_required",
      "cleanup_submitting", "cleanup_authorized", "cleanup_submitted",
      "rolled_back"} \subseteq States
  BY DEF States, ActiveStates, TerminalStates, WaitingStates, StartingStates,
     CleaningStates

\* An idle session is a session and an idle request a request.
LEMMA IdleTyped == Idle \in Session /\ Idle \in Request
  BY StateNames DEF Idle, Session, Request

\* Submitting keeps the table of jobs typed.
LEMMA SubmitTyped ==
  ASSUME ETypeOK, NEW kind \in {"deploy", "start", "destroy"}, NEW r,
         Submit(kind, r)
  PROVE  jobs' \in [JobIds -> Job]
<1>1. jobs \in [JobIds -> Job]
  BY DEF ETypeOK
<1>2. [kind |-> kind, status |-> "pending"] \in Job
  BY DEF Job
<1> QED
  BY <1>1, <1>2 DEF Submit

\* Where a retry may resume.
LEMMA RetryTargets ==
  \A to \in RetryTo :
    /\ to \in {"planned", "deploy_succeeded", "verifying"}
    /\ row.state \in {"submission_unknown", "start_unknown"}
    /\ to = "planned" => row.state = "submission_unknown"
    /\ row.state = "submission_unknown" => to # "verifying"
  BY DEF RetryTo

\* The row, the sessions and CloudStack keep their types.
LEMMA TypeKept ==
  IInv /\ [Next]_vars => ETypeOK'
<1> SUFFICES ASSUME IInv, [Next]_vars PROVE ETypeOK'
  OBVIOUS
<1>1. ASSUME NEW w \in Workers, Worker(w) PROVE ETypeOK'
  <2>1. CASE Acquire(w)
    BY <2>1, ExecutorConstants, StateNames, IdleTyped
    DEF IInv, ETypeOK, Acquire, Idle, Row, Session, ClaimStates
  <2>2. CASE Observe(w)
    BY <2>2, ExecutorConstants, StateNames, IdleTyped, DecideFacts
    DEF IInv, ETypeOK, Observe, SessionOnly, Session, SessionsWellFormed
  <2>3. CASE Check(w)
    BY <2>3, ExecutorConstants, StateNames, IdleTyped
    DEF IInv, ETypeOK, Check, SessionOnly, Session
  <2>4. CASE Write(w)
    BY <2>4, ExecutorConstants, StateNames, IdleTyped
    DEF IInv, ETypeOK, Write, StoredState, StoredLease, StoredJob, Submits,
        Row, Session
  <2>5. CASE Call(w)
    <3> DEFINE deploy == sess[w].to = "deploy_submitting"
               to(r) == CASE deploy /\ r # None -> "deploy_submitted"
                          [] deploy /\ r = None -> "submission_unknown"
                          [] ~deploy /\ r # None -> "start_submitted"
                          [] OTHER -> "start_unknown"
    <3>1. PICK r \in JobIds \cup {None} :
            /\ Submit(IF deploy THEN "deploy" ELSE "start", r)
            /\ sess' = [sess EXCEPT ![w] =
                 [pc |-> "check", from |-> row.state, job |-> r, to |-> to(r)]]
            /\ ledger' = IF deploy
                       THEN [ledger EXCEPT !.deploys = ledger.deploys + 1]
                       ELSE [ledger EXCEPT !.starts = ledger.starts + 1]
      BY <2>5 DEF Call
    <3>2a. to(r) \in States
      <4>1. to(r) \in {"deploy_submitted", "submission_unknown",
                      "start_submitted", "start_unknown"}
        OBVIOUS
      <4> QED
        BY <4>1, StateNames
    <3>2. jobs' \in [JobIds -> Job]
      BY <3>1, SubmitTyped DEF IInv
    <3>3. /\ [pc |-> "check", from |-> row.state, job |-> r,
                to |-> to(r)] \in Session
          /\ sess \in [Workers -> Session]
      BY <3>2a DEF IInv, ETypeOK, Row, Session
    <3>4. sess' \in [Workers -> Session]
      BY <3>1, <3>3
    <3>5. ledger' \in [deploys : Nat, starts : Nat, redeploys : Nat,
                       restarts : Nat, cleanups : Nat]
      BY <3>1 DEF IInv, ETypeOK
    <3> QED
      BY <2>5, <3>2, <3>4, <3>5 DEF IInv, ETypeOK, Call
  <2>6. CASE Activate(w)
    BY <2>6, ExecutorConstants, StateNames, IdleTyped
    DEF IInv, ETypeOK, Activate, Session, ClaimStates
  <2>7. CASE ActivationPending(w)
    BY <2>7, ExecutorConstants, StateNames, IdleTyped
    DEF IInv, ETypeOK, ActivationPending, SessionOnly, Idle, Row, Session
  <2>8. CASE Finish(w)
    BY <2>8, ExecutorConstants, StateNames, IdleTyped
    DEF IInv, ETypeOK, Finish, SessionOnly, Idle, Row, Session
  <2>9. CASE Release(w)
    BY <2>9, ExecutorConstants, StateNames, IdleTyped
    DEF IInv, ETypeOK, Release, Idle, MayRelease, Row, ClaimStates
  <2>10. CASE Fail(w)
    BY <2>10, ExecutorConstants, StateNames, IdleTyped
    DEF IInv, ETypeOK, Fail, SessionOnly, Idle
  <2>11. CASE Expire(w)
    BY <2>11, ExecutorConstants, StateNames, IdleTyped
    DEF IInv, ETypeOK, Expire
  <2> QED
    BY <1>1, <2>1, <2>2, <2>3, <2>4, <2>5, <2>6, <2>7, <2>8, <2>9, <2>10,
       <2>11
    DEF Worker
<1>2. ASSUME NEW o \in Operators, Operator(o) PROVE ETypeOK'
  <2>1. CASE RetryRead(o)
    <3>1. PICK to \in RetryTo :
            op' = [op EXCEPT ![o] = [Idle EXCEPT !.pc = "retry",
                                       !.from = row.state, !.to = to]]
      BY <2>1 DEF RetryRead
    <3>2. [Idle EXCEPT !.pc = "retry", !.from = row.state, !.to = to]
            \in Request
      BY RetryTargets, StateNames DEF IInv, ETypeOK, Row, Request, Idle
    <3>3. op' \in [Operators -> Request]
      BY <3>1, <3>2 DEF IInv, ETypeOK
    <3> QED
      BY <2>1, <3>3 DEF IInv, ETypeOK, RetryRead, OperatorOnly
  <2>2. CASE RetryCas(o)
    <3>1. op' = [op EXCEPT ![o] = Idle] /\ row' = [row EXCEPT !.state = op[o].to]
      BY <2>2 DEF RetryCas
    <3>2. op[o].to \in States
      BY DEF IInv, ETypeOK, Request
    <3>3. row' \in Row /\ op' \in [Operators -> Request]
      BY <3>1, <3>2, IdleTyped DEF IInv, ETypeOK, Row
    <3>4. PICK a \in Nat, b \in Nat :
            ledger' = [ledger EXCEPT !.redeploys = a, !.restarts = b]
      <4>1. ledger.redeploys \in Nat /\ ledger.restarts \in Nat
        BY DEF IInv, ETypeOK
      <4> DEFINE a == IF op[o].to = "planned" THEN ledger.redeploys + 1
                      ELSE ledger.redeploys
                 b == IF op[o].from = "start_unknown"
                           /\ op[o].to = "deploy_succeeded"
                      THEN ledger.restarts + 1 ELSE ledger.restarts
      <4>2. a \in Nat /\ b \in Nat
        BY <4>1
      <4>3. ledger' = [ledger EXCEPT !.redeploys = a, !.restarts = b]
        BY <2>2 DEF IInv, ETypeOK, RetryCas
      <4> QED
        BY <4>2, <4>3
    <3>5. ledger' \in [deploys : Nat, starts : Nat, redeploys : Nat,
                       restarts : Nat, cleanups : Nat]
      BY <3>4 DEF IInv, ETypeOK
    <3> QED
      BY <2>2, <3>3, <3>5 DEF IInv, ETypeOK, RetryCas
  <2>3. CASE CleanupRead(o)
    BY <2>3, ExecutorConstants, StateNames, IdleTyped
    DEF IInv, ETypeOK, CleanupRead, OperatorOnly, Idle, Request
  <2>4. CASE CleanupCas(o)
    <3>1. row' \in Row
      BY <2>4, StateNames DEF IInv, ETypeOK, CleanupCas, Row
    <3>2. op' \in [Operators -> Request]
      <4>1. [op[o] EXCEPT !.pc = "destroy", !.from = "cleanup_submitting"]
              \in Request
        BY StateNames DEF IInv, ETypeOK, Request
      <4>2. op' = [op EXCEPT ![o] = [op[o] EXCEPT !.pc = "destroy",
                                       !.from = "cleanup_submitting"]]
        BY <2>4 DEF IInv, ETypeOK, CleanupCas, Request
      <4> QED
        BY <4>1, <4>2 DEF IInv, ETypeOK
    <3>3. ledger' \in [deploys : Nat, starts : Nat, redeploys : Nat,
                       restarts : Nat, cleanups : Nat]
      BY <2>4 DEF IInv, ETypeOK, CleanupCas
    <3> QED
      BY <2>4, <3>1, <3>2, <3>3 DEF IInv, ETypeOK, CleanupCas
  <2>5. CASE Destroy(o)
    <3>1. PICK r \in JobIds \cup {None} :
            /\ Submit("destroy", r)
            /\ op' = [op EXCEPT ![o].pc = "answer", ![o].job = r,
                               ![o].to = IF r # None THEN "cleanup_submitted"
                                         ELSE "cleanup_submitting"]
      BY <2>5 DEF Destroy
    <3>2. jobs' \in [JobIds -> Job]
      BY <3>1, SubmitTyped DEF IInv
    <3>3. op' \in [Operators -> Request]
      <4> DEFINE to == IF r # None THEN "cleanup_submitted"
                       ELSE "cleanup_submitting"
      <4>1. to \in States
        BY StateNames
      <4>2. [op[o] EXCEPT !.pc = "answer", !.job = r, !.to = to] \in Request
        BY <4>1 DEF IInv, ETypeOK, Request
      <4>3. op' = [op EXCEPT ![o] =
                     [op[o] EXCEPT !.pc = "answer", !.job = r, !.to = to]]
        BY <3>1 DEF IInv, ETypeOK, Request
      <4> QED
        BY <4>2, <4>3 DEF IInv, ETypeOK
    <3> QED
      BY <2>5, <3>2, <3>3 DEF IInv, ETypeOK, Destroy
  <2>6. CASE Answer(o)
    BY <2>6, ExecutorConstants, StateNames, IdleTyped
    DEF IInv, ETypeOK, Answer, StoredState, StoredJob, Idle, Row, Request
  <2>7. CASE OperatorFails(o)
    BY <2>7, ExecutorConstants, StateNames, IdleTyped
    DEF IInv, ETypeOK, OperatorFails, OperatorOnly, Idle
  <2> QED
    BY <1>2, <2>1, <2>2, <2>3, <2>4, <2>5, <2>6, <2>7 DEF Operator
<1>3. ASSUME NEW j \in JobIds, \/ DeployCreates(j) \/ StartBegins(j)
                                 \/ StartBinds(j) \/ AuthorizeDelete(j)
                                 \/ Expunge(j) \/ JobSucceeds(j) \/ JobFails(j)
      PROVE  ETypeOK'
  <2>1. CASE DeployCreates(j)
    BY <2>1, ExecutorConstants, StateNames, IdleTyped
    DEF IInv, ETypeOK, DeployCreates, CloudStackOnly, JobStep, Vm, Job
  <2>2. CASE StartBegins(j)
    BY <2>2, ExecutorConstants, StateNames, IdleTyped
    DEF IInv, ETypeOK, StartBegins, CloudStackOnly, JobStep, Vm, Job
  <2>3. CASE StartBinds(j)
    BY <2>3, ExecutorConstants, StateNames, IdleTyped
    DEF IInv, ETypeOK, StartBinds, CloudStackOnly, JobStep, ClaimStates
  <2>4. CASE AuthorizeDelete(j)
    BY <2>4, ExecutorConstants, StateNames, IdleTyped
    DEF IInv, ETypeOK, AuthorizeDelete, JobStep, Row, Job, ClaimStates
  <2>5. CASE Expunge(j)
    BY <2>5, ExecutorConstants, StateNames, IdleTyped
    DEF IInv, ETypeOK, Expunge, CloudStackOnly, JobStep, Vm
  <2>6. CASE JobSucceeds(j)
    BY <2>6, ExecutorConstants, StateNames, IdleTyped
    DEF IInv, ETypeOK, JobSucceeds, CloudStackOnly, JobStep, Vm, Job
  <2>7. CASE JobFails(j)
    BY <2>7, ExecutorConstants, StateNames, IdleTyped
    DEF IInv, ETypeOK, JobFails, CloudStackOnly, JobStep, Vm, Job
  <2> QED
    BY <1>3, <2>1, <2>2, <2>3, <2>4, <2>5, <2>6, <2>7
<1>4. CASE AdminStarts
  BY <1>4, ExecutorConstants, StateNames, IdleTyped
  DEF IInv, ETypeOK, AdminStarts, CloudStackOnly, JobStep, Vm, ClaimStates
<1>5. CASE VmStops
  BY <1>5, ExecutorConstants, StateNames, IdleTyped
  DEF IInv, ETypeOK, VmStops, CloudStackOnly, JobStep, Vm
<1>6. CASE AdminExpunges
  BY <1>6, ExecutorConstants, StateNames, IdleTyped
  DEF IInv, ETypeOK, AdminExpunges, CloudStackOnly, JobStep, Vm, ClaimStates
<1>7. CASE UNCHANGED vars
  BY <1>7, ExecutorConstants, StateNames, IdleTyped DEF IInv, ETypeOK, vars
<1> QED
  BY <1>1, <1>2, <1>3, <1>4, <1>5, <1>6, <1>7 DEF Next, CloudStack

\* What CloudStack does to a job, and without one.
JobMoves(j) ==
    \/ DeployCreates(j) \/ StartBegins(j) \/ StartBinds(j)
    \/ AuthorizeDelete(j) \/ Expunge(j) \/ JobSucceeds(j) \/ JobFails(j)
AdminMoves == AdminStarts \/ VmStops \/ AdminExpunges

\* Which part of the system each actor leaves alone.
LEMMA Frames ==
  /\ \A w \in Workers : Worker(w) => UNCHANGED <<op, vm>>
  /\ \A o \in Operators : Operator(o) => UNCHANGED <<live, sess, vm, claim>>
  /\ \A j \in JobIds : JobMoves(j) => UNCHANGED <<live, sess, op, ledger>>
  /\ AdminMoves => UNCHANGED <<row, live, sess, op, ledger, jobs>>
<1>1. \A w \in Workers : Worker(w) => UNCHANGED <<op, vm>>
  BY DEF Worker, Acquire, Observe, Check, Write, Call, Activate,
     ActivationPending, Finish, Release, Fail, Expire, SessionOnly
<1>2. \A o \in Operators : Operator(o) => UNCHANGED <<live, sess, vm, claim>>
  BY DEF Operator, RetryRead, RetryCas, CleanupRead, CleanupCas, Destroy,
     Answer, OperatorFails, OperatorOnly
<1>3. \A j \in JobIds : JobMoves(j) => UNCHANGED <<live, sess, op, ledger>>
  BY DEF JobMoves, DeployCreates, StartBegins, StartBinds, AuthorizeDelete,
     Expunge, JobSucceeds, JobFails, CloudStackOnly
<1>4. AdminMoves => UNCHANGED <<row, live, sess, op, ledger, jobs>>
  BY DEF AdminMoves, AdminStarts, VmStops, AdminExpunges, CloudStackOnly
<1> QED
  BY <1>1, <1>2, <1>3, <1>4

\* What sessions have decided stays well-formed: Observe decides by Decide.
LEMMA SessionsKept ==
  IInv /\ [Next]_vars => SessionsWellFormed'
<1> SUFFICES ASSUME IInv, [Next]_vars PROVE SessionsWellFormed'
  OBVIOUS
<1>1. ASSUME NEW w \in Workers, Worker(w) PROVE SessionsWellFormed'
  <2>1. CASE Acquire(w)
    BY <2>1
    DEF IInv, ETypeOK, Session, SessionsWellFormed, Submits, Acquire, Idle,
        Row
  <2>2. CASE Observe(w)
    BY <2>2, DecideFacts
    DEF IInv, ETypeOK, Session, SessionsWellFormed, Submits, Observe,
        SessionOnly
  <2>3. CASE Check(w)
    BY <2>3
    DEF IInv, ETypeOK, Session, SessionsWellFormed, Submits, Check,
        SessionOnly
  <2>4. CASE Write(w)
    BY <2>4
    DEF IInv, ETypeOK, Session, SessionsWellFormed, Submits, Write, Idle
  <2>5. CASE Call(w)
    BY <2>5 DEF IInv, ETypeOK, Session, SessionsWellFormed, Submits, Call
  <2>6. CASE Activate(w)
    BY <2>6 DEF IInv, ETypeOK, Session, SessionsWellFormed, Submits, Activate
  <2>7. CASE ActivationPending(w)
    BY <2>7
    DEF IInv, ETypeOK, Session, SessionsWellFormed, Submits,
        ActivationPending, SessionOnly, Idle
  <2>8. CASE Finish(w)
    BY <2>8
    DEF IInv, ETypeOK, Session, SessionsWellFormed, Submits, Finish,
        SessionOnly, Idle
  <2>9. CASE Release(w)
    BY <2>9
    DEF IInv, ETypeOK, Session, SessionsWellFormed, Submits, Release, Idle
  <2>10. CASE Fail(w)
    BY <2>10
    DEF IInv, ETypeOK, Session, SessionsWellFormed, Submits, Fail,
        SessionOnly, Idle
  <2>11. CASE Expire(w)
    BY <2>11 DEF IInv, ETypeOK, Session, SessionsWellFormed, Submits, Expire
  <2> QED
    BY <1>1, <2>1, <2>2, <2>3, <2>4, <2>5, <2>6, <2>7, <2>8, <2>9, <2>10,
       <2>11
    DEF Worker
<1>2. ASSUME NEW o \in Operators, Operator(o) PROVE SessionsWellFormed'
  BY <1>2, Frames DEF IInv, SessionsWellFormed, Submits
<1>3. ASSUME NEW j \in JobIds, JobMoves(j) PROVE SessionsWellFormed'
  BY <1>3, Frames DEF IInv, SessionsWellFormed, Submits
<1>4. ASSUME AdminMoves PROVE SessionsWellFormed'
  BY <1>4, Frames DEF IInv, SessionsWellFormed, Submits
<1>5. CASE UNCHANGED vars
  BY <1>5 DEF vars, IInv, SessionsWellFormed, Submits
<1> QED
  BY <1>1, <1>2, <1>3, <1>4, <1>5 DEF Next, CloudStack, JobMoves, AdminMoves

\* A request stays what its route checked.
LEMMA RequestsKept ==
  IInv /\ [Next]_vars => RequestsWellFormed'
<1> SUFFICES ASSUME IInv, [Next]_vars PROVE RequestsWellFormed'
  OBVIOUS
<1>1. ASSUME NEW w \in Workers, Worker(w) PROVE RequestsWellFormed'
  BY <1>1, Frames DEF IInv, RequestsWellFormed
<1>2. ASSUME NEW o \in Operators, Operator(o) PROVE RequestsWellFormed'
  <2>1. CASE RetryRead(o)
    <3>1. PICK to \in RetryTo :
            op' = [op EXCEPT ![o] = [Idle EXCEPT !.pc = "retry",
                                       !.from = row.state, !.to = to]]
      BY <2>1 DEF RetryRead
    <3>2. /\ op'[o].pc = "retry" /\ op'[o].from = row.state
          /\ op'[o].to = to
      BY <3>1 DEF IInv, ETypeOK, Idle
    <3>3. \A p \in Operators \ {o} : op'[p] = op[p]
      BY <3>1 DEF IInv, ETypeOK
    <3> QED
      BY <3>2, <3>3, RetryTargets DEF IInv, RequestsWellFormed
  <2>2. CASE RetryCas(o)
    BY <2>2 DEF IInv, ETypeOK, Request, RequestsWellFormed, RetryCas, Idle
  <2>3. CASE CleanupRead(o)
    BY <2>3
    DEF IInv, ETypeOK, Request, RequestsWellFormed, CleanupRead,
        OperatorOnly, Idle
  <2>4. CASE CleanupCas(o)
    BY <2>4 DEF IInv, ETypeOK, Request, RequestsWellFormed, CleanupCas
  <2>5. CASE Destroy(o)
    BY <2>5 DEF IInv, ETypeOK, Request, RequestsWellFormed, Destroy
  <2>6. CASE Answer(o)
    BY <2>6 DEF IInv, ETypeOK, Request, RequestsWellFormed, Answer, Idle
  <2>7. CASE OperatorFails(o)
    BY <2>7
    DEF IInv, ETypeOK, Request, RequestsWellFormed, OperatorFails,
        OperatorOnly, Idle
  <2> QED
    BY <1>2, <2>1, <2>2, <2>3, <2>4, <2>5, <2>6, <2>7 DEF Operator
<1>3. ASSUME NEW j \in JobIds, JobMoves(j) PROVE RequestsWellFormed'
  BY <1>3, Frames DEF IInv, RequestsWellFormed
<1>4. ASSUME AdminMoves PROVE RequestsWellFormed'
  BY <1>4, Frames DEF IInv, RequestsWellFormed
<1>5. CASE UNCHANGED vars
  BY <1>5 DEF vars, IInv, RequestsWellFormed
<1> QED
  BY <1>1, <1>2, <1>3, <1>4, <1>5 DEF Next, CloudStack, JobMoves, AdminMoves

\* A VM that was once created is never none again, and gone for good.
LEMMA VmOnward ==
  ASSUME ETypeOK, [Next]_vars
  PROVE  /\ vm.life # "none" => vm'.life # "none"
         /\ vm.life = "gone" => vm'.life = "gone"
<1>1. ASSUME NEW j \in JobIds, JobMoves(j)
      PROVE  /\ vm.life # "none" => vm'.life # "none"
             /\ vm.life = "gone" => vm'.life = "gone"
  BY <1>1 DEF JobMoves, DeployCreates, StartBegins, StartBinds,
     AuthorizeDelete, Expunge, JobSucceeds, JobFails, ETypeOK, Vm
<1>2. CASE AdminMoves
  BY <1>2 DEF AdminMoves, AdminStarts, VmStops, AdminExpunges, ETypeOK, Vm
<1> QED
  BY <1>1, <1>2, Frames DEF Next, CloudStack, JobMoves, AdminMoves, vars

\* Whoever enters a cleanup state, or decides to roll back, has seen the VM.
LEMMA CleanupSawVmKept ==
  IInv /\ [Next]_vars => CleanupSawVm'
<1> SUFFICES ASSUME IInv, [Next]_vars PROVE CleanupSawVm'
  OBVIOUS
<1>1. ASSUME NEW w \in Workers, Worker(w) PROVE CleanupSawVm'
  <2>1. CASE Acquire(w)
    BY <2>1, VmOnward
    DEF IInv, ETypeOK, CleanupSawVm, Acquire, Idle, Row, Session
  <2>2. CASE Observe(w)
    <3>1. /\ sess'[w].pc = "check" /\ sess'[w].from = sess[w].from
          /\ sess'[w].to = Decide(sess[w].from)
          /\ \A v \in Workers \ {w} : sess'[v] = sess[v]
      BY <2>2 DEF Observe, IInv, ETypeOK, Session
    <3>2. /\ Decide(sess[w].from) \in CleaningStates \cup {"rolled_back"} =>
               sess[w].from \in CleaningStates
          /\ Decide(sess[w].from) = "rolled_back" => ~Present
      BY <2>2, DecideFacts DEF Observe, IInv, SessionsWellFormed
    <3>3. sess[w].from \in CleaningStates => vm.life # "none"
      BY <2>2 DEF Observe, IInv, CleanupSawVm
    <3>4. UNCHANGED <<row, op, vm>>
      BY <2>2 DEF Observe, SessionOnly
    <3> QED
      BY <3>1, <3>2, <3>3, <3>4 DEF IInv, CleanupSawVm, Present
  <2>3. CASE Check(w)
    BY <2>3, VmOnward
    DEF IInv, ETypeOK, CleanupSawVm, Check, SessionOnly, Session
  <2>4. CASE Write(w)
    BY <2>4, VmOnward
    DEF IInv, ETypeOK, CleanupSawVm, Write, StoredState, StoredLease,
        StoredJob, Submits, Idle, Session, Row, CleaningStates
  <2>5. CASE Call(w)
    BY <2>5, VmOnward
    DEF IInv, ETypeOK, CleanupSawVm, Call, Submit, Session, CleaningStates
  <2>6. CASE Activate(w)
    BY <2>6, VmOnward DEF IInv, ETypeOK, CleanupSawVm, Activate, Session
  <2>7. CASE ActivationPending(w)
    BY <2>7, VmOnward
    DEF IInv, ETypeOK, CleanupSawVm, ActivationPending, SessionOnly, Idle,
        CleaningStates
  <2>8. CASE Finish(w)
    BY <2>8, VmOnward
    DEF IInv, ETypeOK, CleanupSawVm, Finish, SessionOnly, Idle, CleaningStates
  <2>9. CASE Release(w)
    BY <2>9, VmOnward
    DEF IInv, ETypeOK, CleanupSawVm, Release, Idle, MayRelease, Row,
        CleaningStates
  <2>10. CASE Fail(w)
    BY <2>10, VmOnward
    DEF IInv, ETypeOK, CleanupSawVm, Fail, SessionOnly, Idle
  <2>11. CASE Expire(w)
    BY <2>11, VmOnward DEF IInv, ETypeOK, CleanupSawVm, Expire
  <2> QED
    BY <1>1, <2>1, <2>2, <2>3, <2>4, <2>5, <2>6, <2>7, <2>8, <2>9, <2>10,
       <2>11
    DEF Worker
<1>2. ASSUME NEW o \in Operators, Operator(o) PROVE CleanupSawVm'
  <2>1. CASE RetryRead(o)
    BY <2>1, VmOnward
    DEF IInv, ETypeOK, CleanupSawVm, RetryRead, OperatorOnly, RetryTo, Idle
  <2>2. CASE RetryCas(o)
    BY <2>2, VmOnward
    DEF IInv, ETypeOK, CleanupSawVm, RetryCas, Row, Idle, RequestsWellFormed,
        CleaningStates
  <2>3. CASE CleanupRead(o)
    BY <2>3, VmOnward
    DEF IInv, ETypeOK, CleanupSawVm, CleanupRead, OperatorOnly, Idle,
        CleanupVm
  <2>4. CASE CleanupCas(o)
    BY <2>4, VmOnward
    DEF IInv, ETypeOK, CleanupSawVm, CleanupCas, Row, Request, CleaningStates
  <2>5. CASE Destroy(o)
    BY <2>5, VmOnward DEF IInv, ETypeOK, CleanupSawVm, Destroy, Submit
  <2>6. CASE Answer(o)
    BY <2>6, VmOnward
    DEF IInv, ETypeOK, CleanupSawVm, Answer, StoredState, StoredJob, Idle,
        Row, RequestsWellFormed, CleaningStates
  <2>7. CASE OperatorFails(o)
    BY <2>7, VmOnward
    DEF IInv, ETypeOK, CleanupSawVm, OperatorFails, OperatorOnly, Idle
  <2> QED
    BY <1>2, <2>1, <2>2, <2>3, <2>4, <2>5, <2>6, <2>7 DEF Operator
<1>3. ASSUME NEW j \in JobIds, JobMoves(j) PROVE CleanupSawVm'
  <2>1. row'.state = row.state \/ vm'.life # "none"
    BY <1>3 DEF JobMoves, DeployCreates, StartBegins, StartBinds,
       AuthorizeDelete, Expunge, JobSucceeds, JobFails, CloudStackOnly,
       IInv, ETypeOK, Row
  <2> QED
    BY <1>3, <2>1, Frames, VmOnward DEF IInv, CleanupSawVm
<1>4. ASSUME AdminMoves PROVE CleanupSawVm'
  BY <1>4, Frames, VmOnward DEF IInv, CleanupSawVm
<1>5. CASE UNCHANGED vars
  BY <1>5 DEF vars, IInv, CleanupSawVm
<1> QED
  BY <1>1, <1>2, <1>3, <1>4, <1>5 DEF Next, CloudStack, JobMoves, AdminMoves

\* Releasing requires a VM that was seen gone; no other step releases.
LEMMA ReleasedKept ==
  IInv /\ [Next]_vars => ReleasedVmIsGone'
<1> SUFFICES ASSUME IInv, [Next]_vars PROVE ReleasedVmIsGone'
  OBVIOUS
<1>1. ASSUME NEW w \in Workers, Worker(w) PROVE ReleasedVmIsGone'
  <2>1. CASE Release(w)
    <3>1. vm.life = "gone"
      BY <2>1 DEF Release, IInv, CleanupSawVm
    <3> QED
      BY <3>1, VmOnward DEF IInv, ReleasedVmIsGone
  <2>2. CASE Activate(w)
    BY <2>2 DEF Activate, IInv, ReleasedVmIsGone
  <2>3. CASE Worker(w) /\ ~Release(w) /\ ~Activate(w)
    BY <2>3 DEF Worker, Acquire, Observe, Check, Write, Call,
       ActivationPending, Finish, Fail, Expire, SessionOnly, IInv,
       ReleasedVmIsGone
  <2> QED
    BY <1>1, <2>1, <2>2, <2>3
<1>2. ASSUME NEW o \in Operators, Operator(o) PROVE ReleasedVmIsGone'
  BY <1>2, Frames DEF IInv, ReleasedVmIsGone
<1>3. ASSUME NEW j \in JobIds, JobMoves(j) PROVE ReleasedVmIsGone'
  <2>1. claim' = "released" => claim = "released"
    BY <1>3 DEF JobMoves, DeployCreates, StartBegins, StartBinds,
       AuthorizeDelete, Expunge, JobSucceeds, JobFails
  <2> QED
    BY <2>1, VmOnward DEF IInv, ReleasedVmIsGone
<1>4. ASSUME AdminMoves PROVE ReleasedVmIsGone'
  <2>1. claim' = "released" => claim = "released"
    BY <1>4 DEF AdminMoves, AdminStarts, VmStops, AdminExpunges
  <2> QED
    BY <2>1, VmOnward DEF IInv, ReleasedVmIsGone
<1>5. CASE UNCHANGED vars
  BY <1>5 DEF vars, IInv, ReleasedVmIsGone
<1> QED
  BY <1>1, <1>2, <1>3, <1>4, <1>5 DEF Next, CloudStack, JobMoves, AdminMoves

\* A step that neither counts nor earns a call keeps the credit.
LEMMA CreditRule ==
  ASSUME IInv, DeployCredit' => DeployCredit, CallerCommitted',
         ledger'.deploys = ledger.deploys, ledger'.redeploys = ledger.redeploys
  PROVE  DeploysWithinCredit'
<1>1. ledger.deploys \in Nat /\ ledger.redeploys \in Nat
  BY DEF IInv, ETypeOK
<1> QED
  BY <1>1 DEF IInv, DeploysWithinCredit

\* No step earns the right to deploy but a granted retry; a call uses it up.
LEMMA CreditKept ==
  IInv /\ [Next]_vars => DeploysWithinCredit'
<1> SUFFICES ASSUME IInv, [Next]_vars PROVE DeploysWithinCredit'
  OBVIOUS
<1>1. ASSUME NEW w \in Workers, Worker(w) PROVE DeploysWithinCredit'
  <2>1. CASE Acquire(w)
    BY <2>1
    DEF IInv, DeploysWithinCredit, CallerCommitted, DeployCredit, MayDeploy,
        Acquire, Idle, ETypeOK, Row, Session
  <2>2. CASE Observe(w)
    BY <2>2
    DEF IInv, DeploysWithinCredit, CallerCommitted, DeployCredit, MayDeploy,
        Observe, SessionOnly, ETypeOK, Row, Session
  <2>3. CASE Check(w)
    BY <2>3
    DEF IInv, DeploysWithinCredit, CallerCommitted, DeployCredit, MayDeploy,
        Check, SessionOnly, ETypeOK, Row, Session
  <2>4. CASE Write(w)
    <3> DEFINE s == sess[w]
    <3>1. /\ s.to # "planned" /\ s.pc = "write"
          /\ s.to = "deploy_submitting" => s.from = "planned"
      BY <2>4 DEF Write, IInv, SessionsWellFormed
    <3>2. /\ row'.state \in {s.to, row.state}
          /\ s.to = "deploy_submitting" => row'.state = s.to
          /\ row'.lease = IF Submits(s) THEN row.lease ELSE None
          /\ ledger' = ledger
      BY <2>4, <3>1 DEF Write, StoredState, StoredLease
    <3>3. CASE Submits(s)
      <4>1. /\ sess'[w].pc = "call" /\ sess'[w].to = s.to
            /\ sess'[w].from = s.from
            /\ \A v \in Workers \ {w} : sess'[v] = sess[v]
        BY <2>4, <3>3 DEF Write, IInv, ETypeOK, Session
      <4>2. (DeployCredit' => DeployCredit) /\ CallerCommitted'
        BY <3>1, <3>2, <3>3, <4>1
        DEF IInv, DeploysWithinCredit, CallerCommitted, DeployCredit,
            MayDeploy, Submits
      <4> QED
        BY <3>2, <4>2, CreditRule
    <3>4. CASE ~Submits(s)
      <4>1. (DeployCredit' => DeployCredit) /\ CallerCommitted'
        BY <3>1, <3>2, <3>4, ExecutorConstants DEF DeployCredit, CallerCommitted
      <4> QED
        BY <3>2, <4>1, CreditRule
    <3> QED
      BY <3>3, <3>4
  <2>5. CASE Call(w)
    <3>1. /\ row.lease = w /\ row' = row
          /\ sess[w].pc = "call" /\ Submits(sess[w])
      BY <2>5 DEF Call, Holds, IInv, SessionsWellFormed
    <3>2. /\ sess'[w].pc = "check" /\ sess'[w].from = row.state
          /\ ledger'.redeploys = ledger.redeploys
          /\ ledger'.deploys = IF sess[w].to = "deploy_submitting"
                               THEN ledger.deploys + 1 ELSE ledger.deploys
      BY <2>5 DEF Call, IInv, ETypeOK
    <3>3. CallerCommitted' /\ (DeployCredit' <=> row.state = "planned")
      BY <3>1, <3>2 DEF CallerCommitted, DeployCredit, MayDeploy
    <3>4. CASE sess[w].to = "deploy_submitting"
      <4>1. DeployCredit /\ row.state # "planned"
        BY <3>1, <3>4 DEF DeployCredit, MayDeploy, IInv, DeploysWithinCredit,
           CallerCommitted
      <4>2. ledger.deploys \in Nat /\ ledger.redeploys \in Nat
        BY DEF IInv, ETypeOK
      <4> QED
        BY <3>2, <3>3, <3>4, <4>1, <4>2 DEF IInv, DeploysWithinCredit
    <3>5. CASE sess[w].to # "deploy_submitting"
      <4>1. DeployCredit' => DeployCredit
        BY <3>3 DEF DeployCredit
      <4> QED
        BY <3>2, <3>3, <3>5, <4>1, CreditRule
    <3> QED
      BY <3>4, <3>5
  <2>6. CASE Activate(w)
    BY <2>6
    DEF IInv, DeploysWithinCredit, CallerCommitted, DeployCredit, MayDeploy,
        Activate, ETypeOK, Row, Session
  <2>7. CASE ActivationPending(w)
    BY <2>7
    DEF IInv, DeploysWithinCredit, CallerCommitted, DeployCredit, MayDeploy,
        ActivationPending, SessionOnly, Idle, ETypeOK, Row, Session
  <2>8. CASE Finish(w)
    BY <2>8
    DEF IInv, DeploysWithinCredit, CallerCommitted, DeployCredit, MayDeploy,
        Finish, SessionOnly, Idle, ETypeOK, Row, Session
  <2>9. CASE Release(w)
    <3>1. row'.lease = None /\ row'.state = "rolled_back" /\ ledger' = ledger
      BY <2>9 DEF Release, IInv, ETypeOK, Row
    <3>2. ~DeployCredit' /\ CallerCommitted'
      BY <3>1, ExecutorConstants DEF DeployCredit, CallerCommitted
    <3> QED
      BY <3>1, <3>2, CreditRule
  <2>10. CASE Fail(w)
    BY <2>10
    DEF IInv, DeploysWithinCredit, CallerCommitted, DeployCredit, MayDeploy,
        Fail, SessionOnly, Idle, ETypeOK, Row, Session
  <2>11. CASE Expire(w)
    BY <2>11
    DEF IInv, DeploysWithinCredit, CallerCommitted, DeployCredit, MayDeploy,
        Expire, ETypeOK, Row, Session
  <2> QED
    BY <1>1, <2>1, <2>2, <2>3, <2>4, <2>5, <2>6, <2>7, <2>8, <2>9, <2>10,
       <2>11
    DEF Worker
<1>2. ASSUME NEW o \in Operators, Operator(o) PROVE DeploysWithinCredit'
  <2>1. CASE RetryRead(o)
    BY <2>1
    DEF IInv, DeploysWithinCredit, CallerCommitted, DeployCredit, MayDeploy,
        RetryRead, OperatorOnly, RetryTo, Idle, ETypeOK, Row, Session
  <2>2. CASE RetryCas(o)
    <3>1. /\ row.lease = None /\ row'.lease = None
          /\ row'.state = op[o].to /\ row.state = op[o].from
          /\ ledger'.deploys = ledger.deploys
          /\ ledger'.redeploys = IF op[o].to = "planned"
                                 THEN ledger.redeploys + 1
                                 ELSE ledger.redeploys
      BY <2>2 DEF RetryCas, IInv, ETypeOK, Row
    <3>2. row.state # "planned"
      BY <2>2, <3>1 DEF RetryCas, IInv, RequestsWellFormed
    <3>3. ~DeployCredit
      BY <3>1, <3>2, ExecutorConstants DEF DeployCredit
    <3>4. CallerCommitted' /\ (DeployCredit' <=> op[o].to = "planned")
      BY <3>1, ExecutorConstants DEF DeployCredit, CallerCommitted
    <3>5. ledger.deploys \in Nat /\ ledger.redeploys \in Nat
      BY DEF IInv, ETypeOK
    <3> QED
      BY <3>1, <3>3, <3>4, <3>5 DEF IInv, DeploysWithinCredit
  <2>3. CASE CleanupRead(o)
    BY <2>3
    DEF IInv, DeploysWithinCredit, CallerCommitted, DeployCredit, MayDeploy,
        CleanupRead, OperatorOnly, Idle, ETypeOK, Row, Session
  <2>4. CASE CleanupCas(o)
    BY <2>4
    DEF IInv, DeploysWithinCredit, CallerCommitted, DeployCredit, MayDeploy,
        CleanupCas, ETypeOK, Row, Session
  <2>5. CASE Destroy(o)
    BY <2>5
    DEF IInv, DeploysWithinCredit, CallerCommitted, DeployCredit, MayDeploy,
        Destroy, Submit, ETypeOK, Row, Session
  <2>6. CASE Answer(o)
    <3>1. /\ row'.lease = row.lease /\ sess' = sess /\ ledger' = ledger
          /\ row'.state \in {op[o].to, row.state}
      BY <2>6 DEF Answer, StoredState, IInv, ETypeOK, Row
    <3>2. op[o].to # "planned"
      BY <2>6 DEF Answer, IInv, RequestsWellFormed
    <3>3. (DeployCredit' => DeployCredit) /\ CallerCommitted'
      BY <3>1, <3>2
      DEF IInv, DeploysWithinCredit, CallerCommitted, DeployCredit, MayDeploy
    <3> QED
      BY <3>1, <3>3, CreditRule
  <2>7. CASE OperatorFails(o)
    BY <2>7
    DEF IInv, DeploysWithinCredit, CallerCommitted, DeployCredit, MayDeploy,
        OperatorFails, OperatorOnly, Idle, ETypeOK, Row, Session
  <2> QED
    BY <1>2, <2>1, <2>2, <2>3, <2>4, <2>5, <2>6, <2>7 DEF Operator
<1>3. ASSUME NEW j \in JobIds, JobMoves(j) PROVE DeploysWithinCredit'
  <2>1. /\ row \in Row
        /\ row'.lease = row.lease
        /\ row'.state = row.state \/ row'.state # "planned"
    BY <1>3 DEF JobMoves, DeployCreates, StartBegins, StartBinds,
       AuthorizeDelete, Expunge, JobSucceeds, JobFails, CloudStackOnly,
       IInv, ETypeOK, Row
  <2>2. /\ sess' = sess /\ ledger' = ledger
    BY <1>3, Frames
  <2>3. (DeployCredit' => DeployCredit) /\ CallerCommitted'
    BY <2>1, <2>2
    DEF IInv, DeploysWithinCredit, CallerCommitted, DeployCredit, MayDeploy
  <2> QED
    BY <2>2, <2>3, CreditRule
<1>4. ASSUME AdminMoves PROVE DeploysWithinCredit'
  BY <1>4, Frames DEF IInv, DeploysWithinCredit, CallerCommitted,
     DeployCredit, MayDeploy
<1>5. CASE UNCHANGED vars
  BY <1>5 DEF vars, IInv, DeploysWithinCredit, CallerCommitted,
     DeployCredit, MayDeploy
<1> QED
  BY <1>1, <1>2, <1>3, <1>4, <1>5 DEF Next, CloudStack, JobMoves, AdminMoves

----------------------------------------------------------------------------
(* What separates the sessions: the write authority (Fenced), or leases,    *)
(* where no stall separates the check of one from its commit. Then the one *)
(* session that may still write is the one whose lease is in the row, and  *)
(* the row is in the phase which that session has loaded.                  *)

Separated == Fenced \/ Pace # "stalls"

Deploying == WaitingStates \cup
             {"planned", "deploy_submitted", "deploy_succeeded"}
Starting == StartingStates \cup {"start_submitted"}
Verified == {"verifying", "succeeded"}
Cleaning == CleaningStates \cup {"cleanup_required", "rolled_back"}

SamePhase(a, b) ==
    /\ a \in Deploying <=> b \in Deploying
    /\ a \in Starting <=> b \in Starting
    /\ a \in Verified <=> b \in Verified
    /\ a \in Cleaning <=> b \in Cleaning

\* What a worker may store, by the phase of what it loaded.
Follows(from, to) ==
    /\ to \in Deploying => from \in Deploying
    /\ to = "start_submitting" => from \in Deploying
    /\ from \in Starting => to \in Starting \cup {"verifying"}
    /\ from \in Verified => to \in Verified
    /\ from \in Cleaning => to \in Cleaning

InPhase(s, state) ==
    /\ s.pc \in {"observe", "check", "write"} => SamePhase(s.from, state)
    /\ s.pc \in {"check", "write"} => Follows(s.from, s.to)
    /\ s.pc = "call" => IF s.to = "deploy_submitting" THEN state \in Deploying
                        ELSE state \in Starting
    /\ s.pc = "finish" => state \in Verified

\* The authority, or a lease that has not run out, is behind the session.
Backed(w) == Fenced \/ w \in live

Busy(w) == Backed(w) /\ sess[w].pc # "idle"

LiveSessionHolds == \A w \in Workers : Busy(w) => row.lease = w

SessionInPhase == \A w \in Workers : Busy(w) => InPhase(sess[w], row.state)

ManagedIsVerified == claim = "managed" => row.state \in Verified

DestroyPending(j) ==
    jobs[j].kind = "destroy" /\ jobs[j].status \in {"pending", "working"}

DestroyIsCleaning ==
    /\ \A o \in Operators : op[o].pc \in {"destroy", "answer"} =>
         row.state \in Cleaning
    /\ \A j \in JobIds : DestroyPending(j) => row.state \in Cleaning

\* The right to call startVirtualMachine is in a row that still deploys, or
\* with the live session that is about to call it.
MayStart(w) == w \in live /\ sess[w].pc = "call"
                          /\ sess[w].to = "start_submitting"

StartCredit ==
    row.state \in Deploying \/ (row.lease \in Workers /\ MayStart(row.lease))

StartsWithinCredit ==
    ledger.starts + (IF StartCredit THEN 1 ELSE 0) <= 1 + ledger.restarts

SlowInv ==
    /\ LiveSessionHolds /\ SessionInPhase /\ ManagedIsVerified
    /\ DestroyIsCleaning /\ StartsWithinCredit

\* Which phase each state is in.
LEMMA PhaseNames ==
  /\ {"planned", "deploy_submitting", "deploy_submitted", "submission_unknown",
      "deploy_succeeded"} = Deploying
  /\ {"start_submitting", "start_unknown", "start_submitted"} = Starting
  /\ {"cleanup_submitting", "cleanup_authorized", "cleanup_submitted",
      "cleanup_required", "rolled_back"} = Cleaning
  /\ CleaningStates \subseteq Cleaning
  BY DEF Deploying, Starting, Cleaning, WaitingStates, StartingStates,
     CleaningStates

\* No state is in two phases.
LEMMA PhasesApart ==
  /\ Deploying \cap Starting = {} /\ Deploying \cap Verified = {}
  /\ Deploying \cap Cleaning = {} /\ Starting \cap Verified = {}
  /\ Starting \cap Cleaning = {} /\ Verified \cap Cleaning = {}
  BY PhaseNames DEF Verified

\* What a worker decides follows from the phase it loaded.
LEMMA DecideFollows ==
  ASSUME NEW from \in ActiveStates
  PROVE  Follows(from, Decide(from))
<1>1. CASE from \in Deploying
  BY <1>1, PhasesApart DEF Follows
<1>2. CASE from \in Starting
  <2>1. Decide(from) \in {"verifying", "start_unknown", "start_submitted"}
    BY <1>2, PhaseNames DEF Decide, AfterStart, WaitingStates, StartingStates
  <2> QED
    BY <1>2, <2>1, PhaseNames, PhasesApart DEF Follows, Verified
<1>3. CASE from = "verifying"
  <2>1. Decide(from) = "verifying"
    BY <1>3 DEF Decide, WaitingStates, StartingStates
  <2> QED
    BY <1>3, <2>1, PhaseNames DEF Follows, Verified
<1>4. CASE from \in CleaningStates
  <2>1. Decide(from) \in {"rolled_back", "cleanup_required",
                          "cleanup_submitting", "cleanup_submitted"}
    BY <1>4 DEF Decide, AfterDestroy, WaitingStates, StartingStates,
       CleaningStates
  <2>2. from \in Cleaning /\ from \notin Starting /\ from \notin Verified
    BY <1>4, PhaseNames, PhasesApart
  <2> QED
    BY <2>1, <2>2, PhaseNames, PhasesApart DEF Follows
<1> QED
  BY <1>1, <1>2, <1>3, <1>4 DEF ActiveStates, Deploying, Starting

\* A step of sessions alone keeps SlowInv when what each session now is agrees
\* with the row, and none begins a call.
LEMMA SessionsOnlyKeepSlow ==
  ASSUME ETypeOK, SlowInv, UNCHANGED <<row, op, jobs, ledger>>,
         live' \subseteq live,
         \A v \in Workers : Backed(v)' =>
           \/ sess'[v] = sess[v] \/ sess'[v].pc = "idle"
           \/ /\ sess[v].pc # "idle" /\ sess'[v].pc # "call"
              /\ InPhase(sess'[v], row.state),
         claim' = "managed" => row.state \in Verified
  PROVE  SlowInv'
<1>1. LiveSessionHolds'
  BY DEF SlowInv, LiveSessionHolds, Busy, Backed
<1>2. SessionInPhase'
  <2> SUFFICES ASSUME NEW v \in Workers, Backed(v)', sess'[v].pc # "idle"
               PROVE  InPhase(sess'[v], row.state)
    BY DEF SessionInPhase, Busy, Backed, InPhase, SamePhase
  <2> QED
    BY DEF SlowInv, SessionInPhase, Busy, Backed
<1>3. ManagedIsVerified' /\ DestroyIsCleaning'
  BY DEF SlowInv, ManagedIsVerified, DestroyIsCleaning, DestroyPending
<1>4. StartsWithinCredit'
  <2>1. \A v \in Workers : MayStart(v)' => MayStart(v)
    BY DEF MayStart, Backed
  <2>2. StartCredit' => StartCredit
    BY <2>1 DEF StartCredit
  <2>3. ledger.starts \in Nat /\ ledger.restarts \in Nat
    BY DEF ETypeOK
  <2> QED
    BY <2>2, <2>3 DEF SlowInv, StartsWithinCredit
<1> QED
  BY <1>1, <1>2, <1>3, <1>4 DEF SlowInv

\* A step that leaves no session able to write keeps it when the row stays in
\* a phase, or moves as an operator granted.
LEMMA NobodyBusyKeepsSlow ==
  ASSUME ETypeOK, SlowInv, UNCHANGED jobs,
         \A v \in Workers : ~ Busy(v)',
         claim' = "managed" => claim = "managed",
         row.state \in Verified /\ claim' = "managed" => row'.state \in Verified,
         row.state \in Cleaning => row'.state \in Cleaning,
         \A o \in Operators : op'[o].pc \in {"destroy", "answer"} =>
           (op[o].pc \in {"destroy", "answer"} \/ row.state \in Cleaning),
         ledger'.starts = ledger.starts,
         \/ ledger'.restarts = ledger.restarts
            /\ (row'.state \in Deploying => row.state \in Deploying)
         \/ ledger'.restarts = ledger.restarts + 1 /\ ~ StartCredit
  PROVE  SlowInv'
<1>1. LiveSessionHolds' /\ SessionInPhase'
  BY DEF LiveSessionHolds, SessionInPhase
<1>2. ManagedIsVerified'
  BY DEF SlowInv, ManagedIsVerified
<1>3. DestroyIsCleaning'
  BY DEF SlowInv, DestroyIsCleaning, DestroyPending
<1>4. StartsWithinCredit'
  <2>1. StartCredit' => row'.state \in Deploying
    BY DEF StartCredit, MayStart, Busy, Backed
  <2>2. ledger.starts \in Nat /\ ledger.restarts \in Nat
    BY DEF ETypeOK
  <2>3. CASE ledger'.restarts = ledger.restarts
               /\ (row'.state \in Deploying => row.state \in Deploying)
    <3>1. StartCredit' => StartCredit
      BY <2>1, <2>3 DEF StartCredit
    <3> QED
      BY <2>2, <2>3, <3>1 DEF SlowInv, StartsWithinCredit
  <2>4. CASE ledger'.restarts = ledger.restarts + 1 /\ ~ StartCredit
    BY <2>2, <2>4 DEF SlowInv, StartsWithinCredit
  <2> QED
    BY <2>3, <2>4
<1> QED
  BY <1>1, <1>2, <1>3, <1>4 DEF SlowInv

\* A step of CloudStack or of an operator's answer, that leaves the sessions
\* alone and the row where it is or within its cleanup.
LEMMA OthersKeepSlow ==
  ASSUME ETypeOK, SlowInv, UNCHANGED <<live, sess>>,
         ledger'.starts = ledger.starts, ledger'.restarts = ledger.restarts,
         row'.lease = row.lease,
         \/ row'.state = row.state
         \/ row.state \in Cleaning /\ row'.state \in Cleaning,
         claim' = "managed" => claim = "managed",
         \A o \in Operators : op'[o].pc \in {"destroy", "answer"} =>
           op[o].pc \in {"destroy", "answer"},
         \A j \in JobIds : DestroyPending(j)' =>
           (DestroyPending(j) \/ row.state \in Cleaning)
  PROVE  SlowInv'
<1>1. SamePhase(row.state, row'.state)
  BY PhasesApart DEF SamePhase
<1>2. LiveSessionHolds'
  BY DEF SlowInv, LiveSessionHolds, Busy, Backed
<1>3. SessionInPhase'
  <2> SUFFICES ASSUME NEW v \in Workers, Busy(v)
               PROVE  InPhase(sess[v], row'.state)
    BY DEF SessionInPhase, Busy, Backed, InPhase, SamePhase
  <2>1. InPhase(sess[v], row.state)
    BY DEF SlowInv, SessionInPhase
  <2> QED
    BY <1>1, <2>1 DEF InPhase, SamePhase
<1>4. ManagedIsVerified' /\ DestroyIsCleaning'
  BY <1>1 DEF SlowInv, ManagedIsVerified, DestroyIsCleaning, SamePhase
<1>5. StartsWithinCredit'
  <2>1. StartCredit' => StartCredit
    BY <1>1 DEF StartCredit, MayStart, SamePhase
  <2>2. ledger.starts \in Nat /\ ledger.restarts \in Nat
    BY DEF ETypeOK
  <2> QED
    BY <2>1, <2>2 DEF SlowInv, StartsWithinCredit
<1> QED
  BY <1>2, <1>3, <1>4, <1>5 DEF SlowInv

\* A session that may still write is alone.
LEMMA BusyIsAlone ==
  ASSUME SlowInv, NEW w \in Workers, NEW v \in Workers, Busy(w), Busy(v)
  PROVE  v = w
  BY DEF SlowInv, LiveSessionHolds

\* With a lease in no row nobody may write.
LEMMA FreeRowNobodyBusy ==
  ASSUME SlowInv, row.lease = None
  PROVE  \A v \in Workers : ~ Busy(v)
  BY ExecutorConstants DEF SlowInv, LiveSessionHolds

\* The steps of a worker keep it.
LEMMA WorkerKeepsSlow ==
  ASSUME IInv, SlowInv, Separated, NEW w \in Workers, Worker(w)
  PROVE  SlowInv'
<1>1. /\ ETypeOK /\ row \in Row /\ sess \in [Workers -> Session]
      /\ ledger.starts \in Nat /\ ledger.restarts \in Nat
  BY DEF IInv, ETypeOK
<1>2. ASSUME NEW s \in Session, sess' = [sess EXCEPT ![w] = s],
             UNCHANGED <<row, op, jobs, ledger>>, live' \subseteq live,
             claim' = "managed" => row.state \in Verified,
             Backed(w) =>
               \/ s.pc = "idle"
               \/ /\ sess[w].pc # "idle" /\ s.pc # "call"
                  /\ InPhase(s, row.state)
      PROVE  SlowInv'
  <2>1. sess'[w] = s /\ \A v \in Workers \ {w} : sess'[v] = sess[v]
    BY <1>1, <1>2
  <2> QED
    BY <1>1, <1>2, <2>1, SessionsOnlyKeepSlow DEF Backed
<1>3. claim = "managed" => row.state \in Verified
  BY DEF SlowInv, ManagedIsVerified
<1>4. (Backed(w) /\ sess[w].pc # "idle") =>
        (row.lease = w /\ InPhase(sess[w], row.state))
  BY DEF SlowInv, LiveSessionHolds, SessionInPhase, Busy, Backed
<1>5. CASE Acquire(w)
  <2>1. /\ row'.lease = w /\ row'.state = row.state
        /\ sess'[w].pc = "observe" /\ sess'[w].from = row.state
        /\ \A v \in Workers \ {w} : sess'[v] = sess[v]
        /\ live' = live \cup {w} /\ UNCHANGED <<op, jobs, claim, ledger>>
    BY <1>1, <1>5 DEF Acquire, Idle, Row, Session
  <2>2. \A v \in Workers \ {w} : ~ Busy(v)'
    <3>1. CASE Fenced
      BY <1>5, <2>1, <3>1 DEF Acquire, AuthorityFree, Busy, Backed
    <3>2. CASE ~Fenced
      BY <1>5, <2>1, <3>2
      DEF Acquire, Stealable, SlowInv, LiveSessionHolds, Busy, Backed
    <3> QED
      BY <3>1, <3>2
  <2>3. LiveSessionHolds'
    BY <2>1, <2>2 DEF LiveSessionHolds
  <2>4. SessionInPhase'
    BY <2>1, <2>2 DEF SessionInPhase, InPhase, SamePhase
  <2>5. ManagedIsVerified' /\ DestroyIsCleaning'
    BY <2>1 DEF SlowInv, ManagedIsVerified, DestroyIsCleaning, DestroyPending
  <2>6. StartCredit' => StartCredit
    BY <2>1 DEF StartCredit, MayStart
  <2>7. StartsWithinCredit'
    BY <1>1, <2>1, <2>6 DEF SlowInv, StartsWithinCredit
  <2> QED
    BY <2>3, <2>4, <2>5, <2>7 DEF SlowInv
<1>6. CASE Observe(w)
  <2> DEFINE s == [sess[w] EXCEPT !.pc = "check", !.to = Decide(sess[w].from)]
  <2>1. sess[w].pc = "observe" /\ sess[w].from \in ActiveStates
    BY <1>6 DEF Observe, IInv, SessionsWellFormed
  <2>2. Decide(sess[w].from) \in States /\ Follows(sess[w].from, Decide(sess[w].from))
    BY <1>1, <2>1, DecideFacts, DecideFollows
  <2>3. /\ s \in Session /\ s.pc = "check" /\ s.from = sess[w].from
        /\ s.to = Decide(sess[w].from)
    BY <1>1, <2>2 DEF Session
  <2>4. sess' = [sess EXCEPT ![w] = s]
    BY <1>1, <1>6 DEF Observe
  <2> HIDE DEF s
  <2>5. Backed(w) => InPhase(s, row.state)
    BY <1>4, <2>1, <2>2, <2>3 DEF InPhase
  <2> QED
    BY <1>2, <1>3, <1>6, <2>1, <2>3, <2>4, <2>5 DEF Observe, SessionOnly
<1>7. CASE Check(w)
  <2> DEFINE s == [sess[w] EXCEPT !.pc = "write"]
  <2>1. /\ s \in Session /\ s.pc = "write" /\ s.from = sess[w].from
        /\ s.to = sess[w].to
    BY <1>1 DEF Session
  <2>2. sess' = [sess EXCEPT ![w] = s] /\ sess[w].pc = "check"
    BY <1>1, <1>7 DEF Check
  <2> HIDE DEF s
  <2>3. Backed(w) => InPhase(s, row.state)
    BY <1>4, <2>1, <2>2 DEF InPhase
  <2> QED
    BY <1>2, <1>3, <1>7, <2>1, <2>2, <2>3 DEF Check, SessionOnly
<1>8. CASE Write(w)
  <2> DEFINE s == sess[w]
  <2>1. /\ s.pc = "write" /\ Busy(w) /\ row.lease = w
        /\ SamePhase(s.from, row.state) /\ Follows(s.from, s.to)
        /\ s.to = "deploy_submitting" => s.from = "planned"
        /\ UNCHANGED <<op, vm, jobs, claim, ledger>>
    BY <1>4, <1>8
    DEF Write, InPhase, Busy, Backed, Separated, IInv, SessionsWellFormed
  <2>2. /\ row'.state \in {s.to, row.state}
        /\ row'.state = s.to \/ s.to = s.from
        /\ row'.lease = IF Submits(s) THEN w ELSE None
    BY <1>8, <2>1 DEF Write, StoredState, StoredLease
  <2>3. /\ row'.state \in Deploying => row.state \in Deploying
        /\ row.state \in Verified => row'.state \in Verified
        /\ row.state \in Cleaning => row'.state \in Cleaning
    BY <2>1, <2>2 DEF SamePhase, Follows
  <2>4. CASE Submits(s)
    <3>1. /\ sess'[w].pc = "call" /\ sess'[w].to = s.to
          /\ \A v \in Workers \ {w} : sess'[v] = sess[v]
          /\ live' = live
      BY <1>1, <1>8, <2>4 DEF Write, Session
    <3>2. \A v \in Workers \ {w} : ~ Busy(v)'
      BY <2>1, <3>1, BusyIsAlone DEF Busy, Backed
    <3>3. LiveSessionHolds'
      BY <2>2, <2>4, <3>2 DEF LiveSessionHolds
    <3>4. row.state \in Deploying /\ s.from \in Deploying
      BY <2>1, <2>4, PhaseNames DEF Submits, Follows, SamePhase
    <3>5. row'.state = s.to
      BY <2>1, <2>2, <2>4, <3>4, PhaseNames, PhasesApart DEF Submits
    <3>6. SessionInPhase'
      BY <2>4, <3>1, <3>2, <3>5, PhaseNames
      DEF SessionInPhase, InPhase, Submits
    <3>7. ManagedIsVerified' /\ DestroyIsCleaning'
      BY <2>1, <2>3 DEF SlowInv, ManagedIsVerified, DestroyIsCleaning,
         DestroyPending
    <3>8. StartCredit
      BY <3>4 DEF StartCredit
    <3>9. StartsWithinCredit'
      BY <1>1, <2>1, <3>8 DEF SlowInv, StartsWithinCredit
    <3> QED
      BY <3>3, <3>6, <3>7, <3>9 DEF SlowInv
  <2>5. CASE ~ Submits(s)
    <3>1. /\ live' = live \ {w} /\ sess'[w].pc = "idle"
          /\ \A v \in Workers \ {w} : sess'[v] = sess[v]
      BY <1>1, <1>8, <2>5 DEF Write, Idle
    <3>2. \A v \in Workers : ~ Busy(v)'
      BY <2>1, <3>1, BusyIsAlone DEF Busy, Backed
    <3> QED
      BY <1>1, <2>1, <2>3, <3>2, NobodyBusyKeepsSlow
  <2> QED
    BY <2>4, <2>5
<1>9. CASE Call(w)
  <2> DEFINE deploy == sess[w].to = "deploy_submitting"
  <2>1. /\ Busy(w) /\ row.lease = w /\ sess[w].pc = "call" /\ w \in live
        /\ deploy => row.state \in Deploying
        /\ ~deploy => row.state \in Starting
        /\ ~deploy => sess[w].to = "start_submitting"
    BY <1>4, <1>9
    DEF Call, Holds, Busy, Backed, InPhase, IInv, SessionsWellFormed,
       Submits
  <2>2. PICK r \in JobIds \cup {None} :
          /\ Submit(IF deploy THEN "deploy" ELSE "start", r)
          /\ sess' = [sess EXCEPT ![w] =
               [pc |-> "check", from |-> row.state, job |-> r,
                to |-> CASE deploy /\ r # None -> "deploy_submitted"
                         [] deploy /\ r = None -> "submission_unknown"
                         [] ~deploy /\ r # None -> "start_submitted"
                         [] OTHER -> "start_unknown"]]
          /\ UNCHANGED <<row, live, op, vm, claim>>
    BY <1>9 DEF Call
  <2>3. /\ sess'[w].pc = "check" /\ sess'[w].from = row.state
        /\ deploy => sess'[w].to \in {"deploy_submitted", "submission_unknown"}
        /\ ~deploy => sess'[w].to \in {"start_submitted", "start_unknown"}
        /\ \A v \in Workers \ {w} : sess'[v] = sess[v]
    BY <1>1, <2>2
  <2>4. LiveSessionHolds'
    BY <2>1, <2>2, <2>3 DEF SlowInv, LiveSessionHolds, Busy, Backed
  <2>5. SessionInPhase'
    <3>1. InPhase(sess'[w], row.state)
      BY <2>1, <2>3, PhaseNames, PhasesApart DEF InPhase, SamePhase, Follows
    <3>2. \A v \in Workers \ {w} : ~ Busy(v)'
      BY <2>1, <2>2, <2>3, BusyIsAlone DEF Busy, Backed
    <3> QED
      BY <2>2, <3>1, <3>2 DEF SessionInPhase
  <2>6. ManagedIsVerified'
    BY <2>2 DEF SlowInv, ManagedIsVerified
  <2>7. DestroyIsCleaning'
    <3>1. \A j \in JobIds : DestroyPending(j)' => DestroyPending(j)
      BY <2>2 DEF Submit, DestroyPending, ETypeOK, IInv
    <3> QED
      BY <2>2, <3>1 DEF SlowInv, DestroyIsCleaning
  <2>8. StartsWithinCredit'
    <3>1. /\ ledger'.starts = IF deploy THEN ledger.starts ELSE ledger.starts + 1
          /\ ledger'.restarts = ledger.restarts
      BY <1>9 DEF Call, IInv, ETypeOK
    <3>2. StartCredit' => row.state \in Deploying
      BY <2>1, <2>2, <2>3 DEF StartCredit, MayStart
    <3>3. StartCredit
      BY <2>1 DEF StartCredit, MayStart, Busy, Backed
    <3>4. ~deploy => ~StartCredit'
      BY <2>1, <3>2, PhasesApart
    <3> QED
      BY <1>1, <3>1, <3>3, <3>4 DEF SlowInv, StartsWithinCredit
  <2> QED
    BY <2>4, <2>5, <2>6, <2>7, <2>8 DEF SlowInv
<1>10. CASE Activate(w)
  <2> DEFINE s == [sess[w] EXCEPT !.pc = "finish"]
  <2>1. s \in Session /\ s.pc = "finish"
    BY <1>1 DEF Session
  <2>2. sess' = [sess EXCEPT ![w] = s] /\ sess[w].pc = "observe"
    BY <1>1, <1>10 DEF Activate
  <2>3. row.state \in Verified
    BY <1>3, <1>10 DEF Activate, Verified
  <2> HIDE DEF s
  <2>4. InPhase(s, row.state)
    BY <2>1, <2>3 DEF InPhase
  <2> QED
    BY <1>2, <1>10, <2>1, <2>2, <2>3, <2>4 DEF Activate
<1>11. CASE ActivationPending(w)
  <2> DEFINE s == [Idle EXCEPT !.pc = "check", !.from = row.state,
                               !.to = "verifying"]
  <2>1. /\ s \in Session /\ s.pc = "check" /\ s.from = row.state
        /\ s.to = "verifying"
    BY <1>1, StateNames DEF Idle, Session, Row
  <2>2. /\ sess' = [sess EXCEPT ![w] = s] /\ sess[w].pc = "observe"
        /\ sess[w].from = "verifying"
    BY <1>11 DEF ActivationPending
  <2> HIDE DEF s
  <2>3. Backed(w) => row.state \in Verified
    BY <1>4, <2>2 DEF InPhase, SamePhase, Verified
  <2>4. Backed(w) => InPhase(s, row.state)
    BY <2>1, <2>3, PhasesApart DEF InPhase, SamePhase, Follows, Verified
  <2> QED
    BY <1>2, <1>3, <1>11, <2>1, <2>2, <2>4 DEF ActivationPending, SessionOnly
<1>12. CASE Finish(w)
  <2> DEFINE s == [Idle EXCEPT !.pc = "check", !.from = row.state,
                               !.to = "succeeded"]
  <2>1. /\ s \in Session /\ s.pc = "check" /\ s.from = row.state
        /\ s.to = "succeeded"
    BY <1>1, StateNames DEF Idle, Session, Row
  <2>2. /\ sess' = [sess EXCEPT ![w] = s] /\ sess[w].pc = "finish"
        /\ Backed(w)
    BY <1>12 DEF Finish, Holds, Backed
  <2> HIDE DEF s
  <2>3. row.state \in Verified
    BY <1>4, <2>2 DEF InPhase
  <2>4. InPhase(s, row.state)
    BY <2>1, <2>3, PhasesApart DEF InPhase, SamePhase, Follows, Verified
  <2> QED
    BY <1>2, <1>3, <1>12, <2>1, <2>2, <2>4 DEF Finish, SessionOnly
<1>13. CASE Release(w)
  <2>1. /\ row.lease = w /\ Busy(w) /\ row.state \in Cleaning
    BY <1>13, PhaseNames DEF Release, MayRelease, Holds, Busy, Backed
  <2>2. /\ live' = live \ {w} /\ sess'[w].pc = "idle"
        /\ \A v \in Workers \ {w} : sess'[v] = sess[v]
        /\ row'.state = "rolled_back" /\ claim' = "released"
        /\ UNCHANGED <<op, jobs, ledger>>
    BY <1>1, <1>13 DEF Release, Row, Idle
  <2>3. \A v \in Workers : ~ Busy(v)'
    BY <2>1, <2>2, BusyIsAlone DEF Busy, Backed
  <2>4. row'.state \in Cleaning /\ row'.state \notin Deploying
    BY <2>2, PhaseNames, PhasesApart
  <2> QED
    BY <1>1, <2>2, <2>3, <2>4, NobodyBusyKeepsSlow
<1>14. CASE Fail(w)
  <2>1. Idle.pc = "idle"
    BY DEF Idle
  <2> QED
    BY <1>2, <1>3, <1>14, <2>1, IdleTyped DEF Fail, SessionOnly
<1>15. CASE Expire(w)
  <2>1. /\ live' \subseteq live /\ sess' = sess
        /\ UNCHANGED <<row, op, jobs, claim, ledger>>
    BY <1>15 DEF Expire
  <2> QED
    BY <1>1, <1>3, <2>1, SessionsOnlyKeepSlow
<1> QED
  BY <1>5, <1>6, <1>7, <1>8, <1>9, <1>10, <1>11, <1>12, <1>13, <1>14, <1>15
  DEF Worker

\* So do the steps of the operators: a retry or a cleanup needs a row that no
\* worker holds, and an answer comes while the row is still cleaning.
LEMMA OperatorKeepsSlow ==
  ASSUME IInv, SlowInv, NEW o \in Operators, Operator(o)
  PROVE  SlowInv'
<1>1. /\ ETypeOK /\ row \in Row /\ op \in [Operators -> Request]
      /\ ledger.starts \in Nat /\ ledger.restarts \in Nat
  BY DEF IInv, ETypeOK
<1>2. UNCHANGED <<live, sess, claim>>
  BY Frames
<1>3. row.lease = None => \A v \in Workers : ~ Busy(v)'
  BY <1>2, FreeRowNobodyBusy DEF Busy, Backed
<1>4. \A j \in JobIds : DestroyPending(j) => row.state \in Cleaning
  BY DEF SlowInv, DestroyIsCleaning
<1>5. CASE RetryRead(o) \/ CleanupRead(o) \/ OperatorFails(o)
  <2>1. UNCHANGED <<row, jobs, ledger>>
    BY <1>5 DEF RetryRead, CleanupRead, OperatorFails, OperatorOnly
  <2>2. \A q \in Operators \ {o} : op'[q] = op[q]
    BY <1>1, <1>5 DEF RetryRead, CleanupRead, OperatorFails
  <2>3. op'[o].pc \in {"retry", "cleanup", "idle"}
    <3>1. CASE RetryRead(o)
      <4>1. PICK to : op' = [op EXCEPT ![o] = [Idle EXCEPT !.pc = "retry",
                                          !.from = row.state, !.to = to]]
        BY <3>1 DEF RetryRead
      <4> DEFINE q == [Idle EXCEPT !.pc = "retry", !.from = row.state,
                                   !.to = to]
      <4>2. q.pc = "retry"
        BY DEF Idle
      <4>3. op' = [op EXCEPT ![o] = q]
        BY <4>1
      <4> HIDE DEF q
      <4> QED
        BY <1>1, <4>2, <4>3
    <3>2. CASE CleanupRead(o)
      <4> DEFINE q == [Idle EXCEPT !.pc = "cleanup",
                                   !.from = "cleanup_required"]
      <4>1. q.pc = "cleanup"
        BY DEF Idle
      <4>2. op' = [op EXCEPT ![o] = q]
        BY <3>2 DEF CleanupRead
      <4> HIDE DEF q
      <4> QED
        BY <1>1, <4>1, <4>2
    <3>3. CASE OperatorFails(o)
      <4>1. Idle.pc = "idle" /\ op' = [op EXCEPT ![o] = Idle]
        BY <3>3 DEF OperatorFails, Idle
      <4> QED
        BY <1>1, <4>1
    <3> QED
      BY <1>5, <3>1, <3>2, <3>3
  <2>4. \A q \in Operators : op'[q].pc \in {"destroy", "answer"} =>
          op[q].pc \in {"destroy", "answer"}
    BY <2>2, <2>3
  <2>5. \A j \in JobIds : DestroyPending(j)' => DestroyPending(j)
    BY <2>1 DEF DestroyPending
  <2> QED
    BY <1>1, <1>2, <2>1, <2>4, <2>5, OthersKeepSlow
<1>6. CASE RetryCas(o)
  <2>1. /\ row.lease = None /\ row.state = op[o].from /\ row'.state = op[o].to
        /\ op' = [op EXCEPT ![o] = Idle] /\ jobs' = jobs
        /\ ledger'.starts = ledger.starts
        /\ ledger'.restarts =
             IF op[o].from = "start_unknown" /\ op[o].to = "deploy_succeeded"
             THEN ledger.restarts + 1 ELSE ledger.restarts
    BY <1>1, <1>6 DEF RetryCas, Row, ETypeOK
  <2>2. /\ op[o].from \in {"submission_unknown", "start_unknown"}
        /\ op[o].to \in {"planned", "deploy_succeeded", "verifying"}
        /\ op[o].to = "planned" => op[o].from = "submission_unknown"
    BY <1>6 DEF RetryCas, IInv, RequestsWellFormed
  <2>3. row.state \notin Verified /\ row.state \notin Cleaning
    BY <2>1, <2>2, PhaseNames, PhasesApart
  <2>4. \A q \in Operators : op'[q].pc \in {"destroy", "answer"} =>
          op[q].pc \in {"destroy", "answer"}
    BY <1>1, <2>1 DEF Idle
  <2>5. \/ /\ ledger'.restarts = ledger.restarts
           /\ row'.state \in Deploying => row.state \in Deploying
        \/ ledger'.restarts = ledger.restarts + 1 /\ ~ StartCredit
    <3>1. CASE op[o].from = "submission_unknown"
      BY <2>1, <3>1, PhaseNames
    <3>2. CASE op[o].from = "start_unknown" /\ op[o].to = "deploy_succeeded"
      BY <2>1, <3>2, PhaseNames, PhasesApart, ExecutorConstants DEF StartCredit
    <3>3. CASE op[o].to = "verifying"
      BY <2>1, <3>3, PhasesApart DEF Verified
    <3> QED
      BY <2>2, <3>1, <3>2, <3>3
  <2> QED
    BY <1>1, <1>2, <1>3, <2>1, <2>3, <2>4, <2>5, NobodyBusyKeepsSlow
<1>7. CASE CleanupCas(o)
  <2>1. /\ row.lease = None /\ row.state = "cleanup_required"
        /\ row'.state = "cleanup_submitting" /\ jobs' = jobs
        /\ ledger'.starts = ledger.starts /\ ledger'.restarts = ledger.restarts
    BY <1>1, <1>7 DEF CleanupCas, Row, ETypeOK
  <2>2. /\ row.state \in Cleaning /\ row'.state \in Cleaning
        /\ row'.state \notin Deploying
    BY <2>1, PhaseNames, PhasesApart
  <2>3. row.state \notin Verified
    BY <2>2, PhasesApart
  <2>4. \A v \in Workers : ~ Busy(v)'
    BY <1>3, <2>1
  <2> QED
    BY <1>1, <1>2, <2>1, <2>2, <2>3, <2>4, NobodyBusyKeepsSlow
<1>8. CASE Destroy(o)
  <2>1. PICK r \in JobIds \cup {None} : Submit("destroy", r)
    BY <1>8 DEF Destroy
  <2>2. UNCHANGED <<row, ledger>> /\ op[o].pc = "destroy"
    BY <1>8 DEF Destroy
  <2>3. \A q \in Operators : op'[q].pc \in {"destroy", "answer"} =>
          op[q].pc \in {"destroy", "answer"}
    BY <1>1, <1>8 DEF Destroy, Request
  <2>4. row.state \in Cleaning
    BY <2>2 DEF SlowInv, DestroyIsCleaning
  <2>5. /\ row'.lease = row.lease /\ row'.state = row.state
        /\ ledger'.starts = ledger.starts
        /\ ledger'.restarts = ledger.restarts /\ claim' = claim
    BY <1>2, <2>2
  <2>6. \A j \in JobIds : DestroyPending(j)' =>
          (DestroyPending(j) \/ row.state \in Cleaning)
    BY <2>4
  <2> QED
    BY <1>1, <1>2, <2>3, <2>5, <2>6, OthersKeepSlow
<1>9. CASE Answer(o)
  <2>1. /\ row'.lease = row.lease /\ row'.state \in {op[o].to, row.state}
        /\ op[o].pc = "answer" /\ UNCHANGED <<jobs, ledger>>
        /\ op' = [op EXCEPT ![o] = Idle]
    BY <1>1, <1>9 DEF Answer, StoredState, Row
  <2>2. row.state \in Cleaning /\ op[o].to \in Cleaning
    BY <2>1, PhaseNames DEF SlowInv, DestroyIsCleaning, IInv, RequestsWellFormed
  <2>3. \A q \in Operators : op'[q].pc \in {"destroy", "answer"} =>
          op[q].pc \in {"destroy", "answer"}
    BY <1>1, <2>1 DEF Idle
  <2> QED
    BY <1>1, <1>2, <2>1, <2>2, <2>3, OthersKeepSlow
<1> QED
  BY <1>5, <1>6, <1>7, <1>8, <1>9 DEF Operator

\* So do CloudStack, its callbacks and its administrator.
LEMMA CloudStackKeepsSlow ==
  ASSUME IInv, SlowInv, CloudStack
  PROVE  SlowInv'
<1>1. /\ ETypeOK /\ row \in Row /\ jobs \in [JobIds -> Job]
  BY DEF IInv, ETypeOK
<1>2. ASSUME NEW j \in JobIds, JobMoves(j) PROVE SlowInv'
  <2>1. UNCHANGED <<live, sess, op, ledger>>
    BY <1>2, Frames
  <2>2. \A i \in JobIds : DestroyPending(i)' => DestroyPending(i)
    BY <1>1, <1>2 DEF JobMoves, DeployCreates, StartBegins, StartBinds,
       AuthorizeDelete, Expunge, JobSucceeds, JobFails, JobStep,
       DestroyPending, Job
  <2>3. claim' = "managed" => claim = "managed"
    BY <1>2 DEF JobMoves, DeployCreates, StartBegins, StartBinds,
       AuthorizeDelete, Expunge, JobSucceeds, JobFails
  <2>4. row' = row \/ ( /\ row.state \in CleaningStates
                       /\ row' = [row EXCEPT !.state = "cleanup_authorized"] )
    BY <1>2 DEF JobMoves, DeployCreates, StartBegins, StartBinds,
       AuthorizeDelete, Expunge, JobSucceeds, JobFails, CloudStackOnly
  <2>5. /\ row'.lease = row.lease
        /\ \/ row'.state = row.state
           \/ row.state \in Cleaning /\ row'.state \in Cleaning
    BY <1>1, <2>4, PhaseNames DEF Row
  <2> QED
    BY <1>1, <2>1, <2>2, <2>3, <2>5, OthersKeepSlow
<1>3. ASSUME AdminMoves PROVE SlowInv'
  <2>1. UNCHANGED <<row, live, sess, op, ledger, jobs>>
    BY <1>3, Frames
  <2>2. claim' = "managed" => claim = "managed"
    BY <1>3 DEF AdminMoves, AdminStarts, VmStops, AdminExpunges
  <2>3. \A i \in JobIds : DestroyPending(i)' => DestroyPending(i)
    BY <2>1 DEF DestroyPending
  <2> QED
    BY <1>1, <2>1, <2>2, <2>3, OthersKeepSlow
<1> QED
  BY <1>2, <1>3 DEF CloudStack, JobMoves, AdminMoves

\* A planned execution satisfies it, and every step keeps it while the sessions
\* are separated.
LEMMA InitSlow == Init => SlowInv
<1> SUFFICES ASSUME Init PROVE SlowInv
  OBVIOUS
<1>1. LiveSessionHolds /\ SessionInPhase /\ ManagedIsVerified
  BY DEF Init, Idle, LiveSessionHolds, SessionInPhase, ManagedIsVerified,
     Busy
<1>2. DestroyIsCleaning
  BY DEF Init, Idle, NoJob, DestroyIsCleaning, DestroyPending
<1>3. StartsWithinCredit
  BY DEF Init, StartsWithinCredit
<1> QED
  BY <1>1, <1>2, <1>3 DEF SlowInv

LEMMA StepKeepsSlow ==
  ASSUME IInv, SlowInv, Separated, [Next]_vars
  PROVE  SlowInv'
<1>1. CASE UNCHANGED vars
  <2>1. UNCHANGED <<row, live, sess, op, vm, jobs, claim, ledger>>
    BY <1>1 DEF vars
  <2>2. \A i \in JobIds : DestroyPending(i)' => DestroyPending(i)
    BY <2>1 DEF DestroyPending
  <2> QED
    BY <2>1, <2>2, OthersKeepSlow DEF IInv
<1> QED
  BY <1>1, WorkerKeepsSlow, OperatorKeepsSlow, CloudStackKeepsSlow DEF Next

\* What it says of the calls and of the cleanups.
LEMMA SlowIsSafe ==
  ASSUME IInv, SlowInv
  PROVE  StartsAreGranted /\ CleanupSparesManaged
<1>1. StartsAreGranted
  <2>1. ledger.starts \in Nat /\ ledger.restarts \in Nat
    BY DEF IInv, ETypeOK
  <2> QED
    BY <2>1 DEF SlowInv, StartsWithinCredit, StartsAreGranted
<1>2. CleanupSparesManaged
  BY PhasesApart DEF SlowInv, DestroyIsCleaning, DestroyPending,
     ManagedIsVerified, CleanupSparesManaged
<1> QED
  BY <1>1, <1>2

----------------------------------------------------------------------------
(* After a rollback, under the write authority. No session of a route is   *)
(* open beside a worker's, so the worker that rolls back leaves no answer  *)
(* behind that could still be stored.                                      *)

SidesApart ==
    \A w \in Workers, o \in Operators :
      sess[w].pc = "idle" \/ op[o].pc = "idle"

\* Write stores no rollback, Release does.
WritesNoRollback ==
    \A w \in Workers : sess[w].pc = "write" => sess[w].to # "rolled_back"

RolledBackIsLeft ==
    row.state = "rolled_back" =>
      /\ row.lease = None
      /\ \A o \in Operators : op[o].pc \notin {"destroy", "answer"}

FinalInv == SidesApart /\ WritesNoRollback /\ RolledBackIsLeft

\* What each step does to the row of a rolled back execution, and who may roll
\* one back.
LEMMA RollbackSteps ==
  ASSUME IInv, SlowInv, FinalInv, Fenced, [Next]_vars
  PROVE  /\ row.state = "rolled_back" =>
              row'.state = "rolled_back" /\ row'.lease = None
         /\ row'.state = "rolled_back" =>
              \/ row.state = "rolled_back"
              \/ row'.lease = None /\ op' = op /\ \E w \in Workers : Release(w)
<1>1. row \in Row /\ ETypeOK
  BY DEF IInv, ETypeOK
<1>2. \A w \in Workers : row.state = "rolled_back" => sess[w].pc = "idle"
  BY ExecutorConstants
  DEF FinalInv, RolledBackIsLeft, SlowInv, LiveSessionHolds, Busy, Backed
<1>3. ASSUME NEW w \in Workers, Worker(w)
      PROVE  /\ row.state = "rolled_back" =>
                  row'.state = "rolled_back" /\ row'.lease = None
             /\ row'.state = "rolled_back" =>
                  \/ row.state = "rolled_back"
                  \/ row'.lease = None /\ op' = op /\ Release(w)
  <2>1. CASE Acquire(w)
    BY <1>1, <2>1 DEF Acquire, Row, ActiveStates, WaitingStates,
       StartingStates, CleaningStates
  <2>2. CASE Write(w)
    BY <1>2, <2>2 DEF Write, StoredState, FinalInv, WritesNoRollback
  <2>3. CASE Release(w)
    BY <1>1, <1>2, <2>3 DEF Release, Row
  <2>4. CASE \/ Observe(w) \/ Check(w) \/ Call(w) \/ Activate(w)
             \/ ActivationPending(w) \/ Finish(w) \/ Fail(w) \/ Expire(w)
    <3>1. row' = row
      BY <2>4 DEF Observe, Check, Call, Activate, ActivationPending, Finish,
         Fail, Expire, SessionOnly
    <3> QED
      BY <3>1 DEF FinalInv, RolledBackIsLeft
  <2> QED
    BY <1>3, <2>1, <2>2, <2>3, <2>4 DEF Worker
<1>4. ASSUME NEW o \in Operators, Operator(o)
      PROVE  /\ row.state = "rolled_back" =>
                  row'.state = "rolled_back" /\ row'.lease = None
             /\ row'.state = "rolled_back" => row.state = "rolled_back"
  <2>1. CASE RetryCas(o)
    BY <1>1, <2>1 DEF RetryCas, Row, IInv, RequestsWellFormed
  <2>2. CASE CleanupCas(o)
    BY <1>1, <2>2 DEF CleanupCas, Row
  <2>3. CASE Answer(o)
    BY <1>1, <2>3
    DEF Answer, StoredState, Row, FinalInv, RolledBackIsLeft, IInv,
        RequestsWellFormed
  <2>4. CASE \/ RetryRead(o) \/ CleanupRead(o) \/ Destroy(o)
             \/ OperatorFails(o)
    <3>1. row' = row
      BY <2>4 DEF RetryRead, CleanupRead, Destroy, OperatorFails, OperatorOnly
    <3> QED
      BY <3>1 DEF FinalInv, RolledBackIsLeft
  <2> QED
    BY <1>4, <2>1, <2>2, <2>3, <2>4 DEF Operator
<1>5. ASSUME CloudStack \/ UNCHANGED vars
      PROVE  /\ row.state = "rolled_back" =>
                  row'.state = "rolled_back" /\ row'.lease = None
             /\ row'.state = "rolled_back" => row.state = "rolled_back"
  <2>1. row' = row \/ ( /\ row.state \in CleaningStates
                       /\ row' = [row EXCEPT !.state = "cleanup_authorized"] )
    BY <1>5 DEF CloudStack, DeployCreates, StartBegins, StartBinds,
       AuthorizeDelete, Expunge, JobSucceeds, JobFails, CloudStackOnly,
       AdminStarts, VmStops, AdminExpunges, vars
  <2> QED
    BY <1>1, <2>1 DEF Row, CleaningStates, FinalInv, RolledBackIsLeft
<1> QED
  BY <1>3, <1>4, <1>5 DEF Next

\* The authority lets no worker begin beside a route, nor a route beside a
\* worker.
LEMMA SidesStayApart ==
  ASSUME IInv, FinalInv, Fenced, [Next]_vars
  PROVE  SidesApart' /\ WritesNoRollback'
<1>1. sess \in [Workers -> Session] /\ op \in [Operators -> Request]
  BY DEF IInv, ETypeOK
<1>2. Idle.pc = "idle"
  BY DEF Idle
<1>3. ASSUME NEW w \in Workers, Worker(w)
      PROVE  SidesApart' /\ WritesNoRollback'
  <2>1. /\ op' = op /\ \A v \in Workers \ {w} : sess'[v] = sess[v]
        /\ sess'[w].pc # "idle" /\ sess[w].pc = "idle" => AuthorityFree
        /\ sess'[w].pc = "write" => sess'[w].to # "rolled_back"
    <3>1. CASE Acquire(w)
      BY <1>1, <3>1 DEF Acquire, Idle
    <3>2. CASE Check(w)
      BY <1>1, <3>2 DEF Check, SessionOnly, Session
    <3>3. CASE Write(w)
      BY <1>1, <1>2, <3>3 DEF Write, Session
    <3>4. CASE Call(w)
      BY <1>1, <3>4 DEF Call
    <3>5. CASE Observe(w) \/ Activate(w)
      BY <1>1, <3>5 DEF Observe, Activate, SessionOnly, Session
    <3>6. CASE ActivationPending(w) \/ Finish(w)
      BY <1>1, <3>6 DEF ActivationPending, Finish, SessionOnly, Idle
    <3>7. CASE Release(w) \/ Fail(w)
      BY <1>1, <1>2, <3>7 DEF Release, Fail, SessionOnly
    <3>8. CASE Expire(w)
      BY <3>8 DEF Expire, FinalInv, WritesNoRollback
    <3> QED
      BY <1>3, <3>1, <3>2, <3>3, <3>4, <3>5, <3>6, <3>7, <3>8 DEF Worker
  <2>2. SidesApart'
    BY <2>1 DEF FinalInv, SidesApart, AuthorityFree
  <2> QED
    BY <2>1, <2>2 DEF FinalInv, WritesNoRollback
<1>4. ASSUME NEW o \in Operators, Operator(o)
      PROVE  SidesApart' /\ WritesNoRollback'
  <2>1. sess' = sess
    BY <1>4, Frames
  <2>2. /\ \A q \in Operators \ {o} : op'[q] = op[q]
        /\ op'[o].pc # "idle" /\ op[o].pc = "idle" => AuthorityFree
    BY <1>1, <1>2, <1>4
    DEF Operator, RetryRead, RetryCas, CleanupRead, CleanupCas, Destroy,
        Answer, OperatorFails
  <2> QED
    BY <2>1, <2>2
    DEF FinalInv, SidesApart, WritesNoRollback, AuthorityFree
<1>5. ASSUME CloudStack \/ UNCHANGED vars
      PROVE  SidesApart' /\ WritesNoRollback'
  <2>1. UNCHANGED <<sess, op>>
    BY <1>5, Frames DEF CloudStack, JobMoves, AdminMoves, vars
  <2> QED
    BY <2>1 DEF FinalInv, SidesApart, WritesNoRollback
<1> QED
  BY <1>3, <1>4, <1>5 DEF Next

\* So nothing follows a rollback.
LEMMA StepKeepsFinal ==
  ASSUME IInv, SlowInv, FinalInv, Fenced, [Next]_vars
  PROVE  FinalInv' /\ (row.state = "rolled_back" => row'.state = "rolled_back")
<1>1. \A o \in Operators : op'[o].pc \in {"destroy", "answer"} =>
        \/ op[o].pc \in {"destroy", "answer"}
        \/ row'.state # "rolled_back"
  <2>1. ASSUME NEW o \in Operators, Operator(o), NEW q \in Operators,
               op'[q].pc \in {"destroy", "answer"}
        PROVE  \/ op[q].pc \in {"destroy", "answer"}
               \/ row'.state # "rolled_back"
    <3>1. /\ op \in [Operators -> Request] /\ row \in Row /\ Idle.pc = "idle"
      BY DEF IInv, ETypeOK, Idle
    <3>2. CASE CleanupCas(o)
      BY <3>1, <3>2 DEF CleanupCas, Row
    <3>3. CASE Destroy(o)
      BY <2>1, <3>1, <3>3 DEF Destroy
    <3>4. CASE \/ RetryRead(o) \/ CleanupRead(o)
      BY <2>1, <3>1, <3>4 DEF RetryRead, CleanupRead, Idle
    <3>5. CASE RetryCas(o) \/ Answer(o) \/ OperatorFails(o)
      BY <2>1, <3>1, <3>5 DEF RetryCas, Answer, OperatorFails
    <3> QED
      BY <2>1, <3>2, <3>3, <3>4, <3>5 DEF Operator
  <2>2. ASSUME NEW w \in Workers, Worker(w) PROVE op' = op
    BY <2>2, Frames
  <2>3. CloudStack \/ UNCHANGED vars => op' = op
    BY Frames DEF CloudStack, JobMoves, AdminMoves, vars
  <2> QED
    BY <2>1, <2>2, <2>3 DEF Next
<1>2. RolledBackIsLeft'
  <2>1. CASE row.state = "rolled_back"
    BY <1>1, <2>1, RollbackSteps DEF FinalInv, RolledBackIsLeft
  <2>2. ASSUME NEW w \in Workers, Release(w), row'.lease = None, op' = op
        PROVE  RolledBackIsLeft'
    BY <2>2 DEF Release, FinalInv, SidesApart, RolledBackIsLeft
  <2> QED
    BY <2>1, <2>2, RollbackSteps DEF RolledBackIsLeft
<1> QED
  BY <1>2, SidesStayApart, RollbackSteps DEF FinalInv

----------------------------------------------------------------------------
(* The theorems.                                                           *)

\* A planned execution that nobody has touched satisfies the invariant.
LEMMA InitIInv ==
  Init => IInv
<1> SUFFICES ASSUME Init PROVE IInv
  OBVIOUS
<1>1. ETypeOK
  BY ExecutorConstants, StateNames, IdleTyped
  DEF Init, ETypeOK, Row, Vm, Job, NoJob, ClaimStates
<1>2. SessionsWellFormed /\ RequestsWellFormed
  BY DEF Init, Idle, SessionsWellFormed, RequestsWellFormed
<1>3. CleanupSawVm /\ ReleasedVmIsGone
  BY DEF Init, Idle, CleanupSawVm, ReleasedVmIsGone, CleaningStates
<1>4. DeploysWithinCredit
  BY ExecutorConstants
  DEF Init, DeploysWithinCredit, DeployCredit, CallerCommitted
<1> QED
  BY <1>1, <1>2, <1>3, <1>4 DEF IInv

\* The invariant holds of every behaviour, fenced or not, at every pace.
THEOREM ExecutorInvariant ==
  ESpec => []IInv
<1>1. IInv /\ [Next]_vars => IInv'
  BY TypeKept, SessionsKept, RequestsKept, CleanupSawVmKept, ReleasedKept,
     CreditKept
  DEF IInv
<1> QED
  BY <1>1, InitIInv, PTL DEF ESpec

\* The row, the sessions and CloudStack keep the types of their columns.
THEOREM ExecutorTypes ==
  ESpec => []ETypeOK
<1>1. IInv => ETypeOK
  BY DEF IInv
<1> QED
  BY <1>1, ExecutorInvariant, PTL

\* deployVirtualMachine is called once, and once more for each granted retry,
\* whichever sessions crash, stall, or lose their lease.
THEOREM DeploysOnlyAsGranted ==
  ESpec => []DeploysAreGranted
<1>1. IInv => DeploysAreGranted
  <2> SUFFICES ASSUME IInv PROVE DeploysAreGranted
    OBVIOUS
  <2>1. ledger.deploys \in Nat /\ ledger.redeploys \in Nat
    BY DEF IInv, ETypeOK
  <2> QED
    BY <2>1 DEF IInv, DeploysWithinCredit, DeploysAreGranted
<1> QED
  BY <1>1, ExecutorInvariant, PTL

\* A claim is released only once CloudStack's VM is gone for good.
THEOREM ReleaseRequiresAbsence ==
  ESpec => []ReleasedVmIsGone
<1>1. IInv => ReleasedVmIsGone
  BY DEF IInv
<1> QED
  BY <1>1, ExecutorInvariant, PTL

\* Where the authority or prompt commits separate the sessions, the stronger
\* invariant holds too: who may still write is in the phase of the row.
THEOREM SlowExecutorInvariant ==
  ASSUME Separated PROVE ESpec => []SlowInv
<1>1. IInv /\ SlowInv /\ [Next]_vars => SlowInv'
  BY StepKeepsSlow
<1> QED
  BY <1>1, InitSlow, ExecutorInvariant, PTL DEF ESpec

\* startVirtualMachine is called once, and once more for each granted retry,
\* whichever sessions crash or lose their lease; without the authority, unless
\* one stalls between the check of its lease and its commit.
THEOREM StartsOnlyAsGranted ==
  ASSUME Separated PROVE ESpec => []StartsAreGranted
<1>1. IInv /\ SlowInv => StartsAreGranted
  BY SlowIsSafe
<1> QED
  BY <1>1, ExecutorInvariant, SlowExecutorInvariant, PTL

\* Under the same condition no deletion of a cleanup can reach the VM of a claim
\* under management.
THEOREM CleanupNeverMeetsManaged ==
  ASSUME Separated PROVE ESpec => []CleanupSparesManaged
<1>1. IInv /\ SlowInv => CleanupSparesManaged
  BY SlowIsSafe
<1> QED
  BY <1>1, ExecutorInvariant, SlowExecutorInvariant, PTL

\* Under the write authority a rolled back execution stays so, at every pace.
THEOREM RolledBackForGood ==
  ASSUME Fenced PROVE ESpec => RollbackIsFinal
<1>1. Separated
  BY DEF Separated
<1>2. Init => FinalInv
  BY DEF Init, Idle, FinalInv, SidesApart, WritesNoRollback, RolledBackIsLeft
<1>3. IInv /\ SlowInv /\ FinalInv /\ [Next]_vars =>
        FinalInv' /\ [row.state = "rolled_back" => row'.state = "rolled_back"]_vars
  BY StepKeepsFinal
<1> QED
  BY <1>1, <1>2, <1>3, ExecutorInvariant, SlowExecutorInvariant, PTL
  DEF ESpec, RollbackIsFinal

=============================================================================
