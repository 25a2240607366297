-------------------------- MODULE AdoptionExecutor --------------------------
(***************************************************************************)
(* One durable execution of backend/adoption_executor.py: the row of       *)
(* adoption_executions that moves a reserved guest through                 *)
(*   planned -> deploy -> start -> verifying -> succeeded                  *)
(* or back through cleanup, the workers that advance it one step per       *)
(* scheduler tick under a worker lease, the retry and cleanup routes, and  *)
(* the CloudStack side: the VM whose UUID is the execution id and the      *)
(* asynchronous jobs, whose extension callbacks bind the claim or          *)
(* authorize its cleanup.                                                  *)
(*                                                                         *)
(* A worker acquires the row, looks at CloudStack (Observe), checks its    *)
(* lease (Check) and commits (Write): three steps, since the lease may run *)
(* out and other writers may move between them. SQLAlchemy writes the      *)
(* attributes that differ from what the session loaded, WHERE id = ..., so *)
(* a late Write does not notice that the row has moved on. Any exception,  *)
(* and the death of the process, is Fail: nothing more is written and the  *)
(* worker lease stays in the row until it expires.                         *)
(***************************************************************************)
EXTENDS Naturals

CONSTANTS
    Workers,     \* sessions of reconcile_execution, and their lease ids
    Operators,   \* sessions of the retry and cleanup routes
    JobIds,      \* CloudStack asynchronous jobs
    None,        \* SQL NULL
    Fenced,      \* the write authority keeps the sessions above apart
    Pace,        \* how long a worker may take, see Paces
    MaxRequests  \* bound on the retries and cleanups that operators request

\* "prompt": a lease outlives its session; "slow": it may run out under it, but
\* no stall separates the check from its commit; "stalls": one may.
Paces == {"prompt", "slow", "stalls"}

ASSUME ExecutorConstants ==
    /\ Fenced \in BOOLEAN /\ Pace \in Paces /\ MaxRequests \in Nat
    /\ None \notin Workers \cup JobIds

VARIABLES
    row,      \* the adoption_executions row: state, worker lease, job id
    live,     \* the workers whose lease has not run out
    sess,     \* what each worker's session has loaded and decided
    op,       \* the same for each operator's request
    vm,       \* the CloudStack VM with the execution's UUID
    jobs,     \* CloudStack's asynchronous jobs
    claim,    \* the state of the guest's claim, for this generation
    ledger    \* history: submissions made and explicit retries granted

vars == <<row, live, sess, op, vm, jobs, claim, ledger>>

WaitingStates == {"deploy_submitting", "submission_unknown"}
StartingStates == {"start_submitting", "start_unknown"}
CleaningStates == {"cleanup_submitting", "cleanup_authorized",
                   "cleanup_submitted"}
LendingStates == WaitingStates \cup StartingStates \cup
    {"deploy_submitted", "deploy_succeeded", "start_submitted"}
TerminalStates == {"succeeded", "failed", "cleanup_required", "rolled_back"}
ActiveStates == WaitingStates \cup StartingStates \cup CleaningStates \cup
    {"planned", "deploy_submitted", "deploy_succeeded", "start_submitted",
     "verifying"}
States == ActiveStates \cup TerminalStates

Row == [state : States, lease : Workers \cup {None}, job : JobIds \cup {None}]
Session == [pc : {"idle", "observe", "check", "write", "call", "finish"},
            from : States, to : States, job : JobIds \cup {None}]
Request == [pc : {"idle", "retry", "cleanup", "destroy", "answer"},
            from : States, to : States, job : JobIds \cup {None}]
Vm == [life : {"none", "stopped", "starting", "running", "gone"},
       fit : {"exact", "network", "other"}]
Job == [kind : {"none", "deploy", "start", "destroy"},
        status : {"pending", "working", "ok", "failed"}]
ClaimStates == {"reserved", "bound", "managed", "retiring", "cleanup",
                "released"}

Idle == [pc |-> "idle", from |-> "planned", to |-> "planned", job |-> None]
NoJob == [kind |-> "none", status |-> "pending"]

Init ==
    /\ row = [state |-> "planned", lease |-> None, job |-> None]
    /\ live = {}
    /\ sess = [w \in Workers |-> Idle]
    /\ op = [o \in Operators |-> Idle]
    /\ vm = [life |-> "none", fit |-> "exact"]
    /\ jobs = [j \in JobIds |-> NoJob]
    /\ claim = "reserved"
    /\ ledger = [deploys |-> 0, starts |-> 0, redeploys |-> 0, restarts |-> 0,
                 cleanups |-> 0]

----------------------------------------------------------------------------
(* What a session reads.                                                   *)

\* Mutant: the listing forgets the VMs that do not run.
Present_Running == vm.life = "running"

Present == vm.life \notin {"none", "gone"}

\* _load_exact_vm and the strict _vm_matches_plan, folded into one verdict.
Seen == IF ~Present THEN "absent"
        ELSE IF vm.fit # "exact" THEN "mismatch" ELSE vm.life

JobStatus == IF row.job = None THEN "pending" ELSE jobs[row.job].status

Unbound == claim \in {"reserved", "cleanup"}
Requests == ledger.redeploys + ledger.restarts + ledger.cleanups

\* Mutant: the routes do not take the authority.
AuthorityFree_RoutesUnfenced ==
    Fenced => \A w \in Workers : sess[w].pc = "idle"

\* Under the write authority a session or a callback runs alone.
AuthorityFree ==
    Fenced => /\ \A w \in Workers : sess[w].pc = "idle"
              /\ \A o \in Operators : op[o].pc = "idle"

\* But a bind callback borrows the authority of the executor, while the
\* execution deploys or starts; the retry and cleanup routes lend nothing.
BindAdmitted ==
    \/ AuthorityFree
    \/ /\ \A o \in Operators : op[o].pc = "idle"
       /\ row.state \in LendingStates
       /\ claim \in {"reserved", "bound"}

CloudStackOnly == UNCHANGED <<row, live, sess, op, ledger>>
SessionOnly == UNCHANGED <<row, live, op, vm, jobs, claim, ledger>>

Holds(w) == row.lease = w /\ w \in live

----------------------------------------------------------------------------
(* reconcile_execution.                                                    *)

\* Mutant: only a free lease is taken, an expired one never.
Stealable_FreeOnly == row.lease = None

Stealable == row.lease \notin live

Acquire(w) ==
    /\ AuthorityFree
    /\ sess[w].pc = "idle"
    /\ row.state \in ActiveStates
    /\ Stealable
    /\ row' = [row EXCEPT !.lease = w]
    /\ live' = live \cup {w}
    /\ sess' = [sess EXCEPT ![w] = [Idle EXCEPT !.pc = "observe",
                                                !.from = row.state]]
    /\ UNCHANGED <<op, vm, jobs, claim, ledger>>

\* Mutant: an absent VM means that the submission was lost, so submit again.
AfterSubmission_Replays(seen) ==
    CASE seen = "absent" -> "planned"
      [] seen = "mismatch" -> "cleanup_required"
      [] seen = "stopped" -> "deploy_succeeded"
      [] OTHER -> "submission_unknown"

\* The deploy was perhaps submitted: only its VM can tell.
AfterSubmission(seen) ==
    CASE seen = "absent" -> "submission_unknown"
      [] seen = "mismatch" -> "cleanup_required"
      [] seen = "stopped" -> "deploy_succeeded"
      [] OTHER -> "submission_unknown"

\* Mutant: an unknown start is parked in a state that no branch handles.
AfterStart_Misnamed(seen) ==
    IF seen = "running" THEN "verifying" ELSE "start_pending"

\* Mutant: a VM still stopped is started again.
AfterStart_Replays(seen) ==
    CASE seen = "running" -> "verifying"
      [] seen = "stopped" -> "deploy_succeeded"
      [] OTHER -> "start_unknown"

\* The start was perhaps submitted: it is observed, never replayed.
AfterStart(seen) == IF seen = "running" THEN "verifying" ELSE "start_unknown"

\* Mutant: a VM that turns out to run is verified instead.
AfterDestroy_Resumes(seen) ==
    CASE seen = "absent" -> "rolled_back"
      [] seen = "running" -> "verifying"
      [] seen = "mismatch" -> "cleanup_required"
      [] OTHER -> "cleanup_submitting"

\* The deletion was perhaps submitted: it is over when the VM is absent.
AfterDestroy(seen) ==
    CASE seen = "absent" -> "rolled_back"
      [] seen = "mismatch" -> "cleanup_required"
      [] OTHER -> "cleanup_submitting"

\* The state a worker stores, by the state it loaded. "rolled_back" is
\* stored by _finalize_cleanup_release (Release), the others by Write.
Decide(from) ==
    CASE from \in WaitingStates -> AfterSubmission(Seen)
      [] from = "planned" -> IF Seen = "absent" THEN "deploy_submitting"
                             ELSE AfterSubmission(Seen)
      [] from = "deploy_submitted" ->
           CASE JobStatus = "failed" ->
                  IF Present THEN "cleanup_required" ELSE "failed"
             [] JobStatus = "ok" -> IF Seen = "stopped" THEN "deploy_succeeded"
                                    ELSE "cleanup_required"
             [] OTHER -> from
      [] from = "deploy_succeeded" ->
           IF Seen = "stopped" THEN "start_submitting" ELSE "cleanup_required"
      [] from \in StartingStates -> AfterStart(Seen)
      [] from = "start_submitted" ->
           CASE JobStatus = "failed" -> "start_unknown"
             [] JobStatus = "ok" -> "verifying"
             [] OTHER -> from
      [] from \in {"cleanup_submitting", "cleanup_authorized"} ->
           AfterDestroy(Seen)
      [] from = "cleanup_submitted" ->
           CASE JobStatus = "failed" -> "cleanup_required"
             [] JobStatus = "ok" -> IF Present THEN "cleanup_required"
                                    ELSE "rolled_back"
             [] OTHER -> from
      [] OTHER -> from

Observe(w) ==
    /\ sess[w].pc = "observe"
    /\ sess[w].from # "verifying"
    /\ sess' = [sess EXCEPT ![w].pc = "check",
                            ![w].to = Decide(sess[w].from)]
    /\ SessionOnly

\* assert_lease reads the snapshot of its transaction: it notices that the
\* lease has run out, not that the row has another owner.
Check(w) ==
    /\ sess[w].pc = "check"
    /\ sess[w].to # "rolled_back"
    /\ w \in live
    /\ sess' = [sess EXCEPT ![w].pc = "write"]
    /\ SessionOnly

Submits(s) == s.to \in {"deploy_submitting", "start_submitting"}

\* The columns that an UPDATE of the session's changed attributes stores.
StoredState(s) == IF s.to # s.from THEN s.to ELSE row.state
StoredJob(s) == IF s.job # None THEN s.job
                ELSE IF s.to # s.from THEN None ELSE row.job

\* _save frees the lease, the states before a submission keep it.
StoredLease(s) == IF Submits(s) THEN row.lease ELSE None

Write(w) ==
    LET s == sess[w]
    IN /\ s.pc = "write"
       /\ Pace = "stalls" \/ w \in live
       /\ row' = [state |-> StoredState(s), lease |-> StoredLease(s),
                  job |-> StoredJob(s)]
       /\ IF Submits(s)
          THEN /\ sess' = [sess EXCEPT ![w].pc = "call"]
               /\ UNCHANGED live
          ELSE /\ sess' = [sess EXCEPT ![w] = Idle]
               /\ live' = live \ {w}
       /\ UNCHANGED <<op, vm, jobs, claim, ledger>>

\* A call may reach CloudStack or not, and its answer may be lost or carry no
\* job id: r is the job id that the caller learns.
Submit(kind, r) ==
    \/ \E j \in JobIds :
         /\ jobs[j].kind = "none"
         /\ jobs' = [jobs EXCEPT ![j] = [kind |-> kind, status |-> "pending"]]
         /\ r \in {j, None}
    \/ UNCHANGED jobs /\ r = None

\* The state was committed, so this assert_lease reads a new snapshot.
Call(w) ==
    LET deploy == sess[w].to = "deploy_submitting"
    IN \E r \in JobIds \cup {None} :
         /\ sess[w].pc = "call"
         /\ Holds(w)
         /\ Submit(IF deploy THEN "deploy" ELSE "start", r)
         /\ sess' = [sess EXCEPT ![w] =
              [pc |-> "check", from |-> row.state, job |-> r,
               to |-> CASE deploy /\ r # None -> "deploy_submitted"
                        [] deploy /\ r = None -> "submission_unknown"
                        [] ~deploy /\ r # None -> "start_submitted"
                        [] OTHER -> "start_unknown"]]
         /\ ledger' = IF deploy THEN [ledger EXCEPT !.deploys = @ + 1]
                                ELSE [ledger EXCEPT !.starts = @ + 1]
         /\ UNCHANGED <<row, live, op, vm, claim>>

\* The activation route: activate_bound_claim, or the claim was managed before.
Activate(w) ==
    /\ sess[w].pc = "observe" /\ sess[w].from = "verifying"
    /\ \/ /\ row.state = "verifying" /\ Holds(w)
          /\ claim = "bound" /\ Seen = "running"
          /\ claim' = "managed"
       \/ claim = "managed" /\ UNCHANGED claim
    /\ sess' = [sess EXCEPT ![w].pc = "finish"]
    /\ UNCHANGED <<row, live, op, vm, jobs, ledger>>

\* The route answered with an error: try again at the next tick.
ActivationPending(w) ==
    /\ sess[w].pc = "observe" /\ sess[w].from = "verifying"
    /\ row.lease = w
    /\ sess' = [sess EXCEPT ![w] = [Idle EXCEPT !.pc = "check",
                                     !.from = row.state, !.to = "verifying"]]
    /\ SessionOnly

Finish(w) ==
    /\ sess[w].pc = "finish"
    /\ Holds(w)
    /\ sess' = [sess EXCEPT ![w] = [Idle EXCEPT !.pc = "check",
                                     !.from = row.state, !.to = "succeeded"]]
    /\ SessionOnly

\* Mutant: a claim that the callback moved to cleanup is forgotten.
MayRelease_ReservedOnly(w) ==
    row.state \in CleaningStates /\ Holds(w) /\ claim = "reserved"

\* _finalize_cleanup_release: two UPDATEs, both must match a row.
MayRelease(w) == row.state \in CleaningStates /\ Holds(w) /\ Unbound

Release(w) ==
    /\ sess[w].pc = "check" /\ sess[w].to = "rolled_back"
    /\ MayRelease(w)
    /\ row' = [row EXCEPT !.state = "rolled_back", !.lease = None]
    /\ claim' = "released"
    /\ sess' = [sess EXCEPT ![w] = Idle]
    /\ live' = live \ {w}
    /\ UNCHANGED <<op, vm, jobs, ledger>>

\* An exception or the death of the process: the lease stays in the row.
Fail(w) ==
    /\ sess[w].pc # "idle"
    /\ sess' = [sess EXCEPT ![w] = Idle]
    /\ SessionOnly

Expire(w) ==
    /\ w \in live
    /\ Pace = "prompt" => sess[w].pc = "idle"
    /\ live' = live \ {w}
    /\ UNCHANGED <<row, sess, op, vm, jobs, claim, ledger>>

----------------------------------------------------------------------------
(* The operator's routes.                                                  *)

OperatorOnly == UNCHANGED <<row, live, sess, vm, jobs, claim, ledger>>

\* request_execution_retry: where an ambiguous submission may be resumed.
RetryTo ==
    CASE row.state = "submission_unknown" /\ Seen = "absent" -> {"planned"}
      [] row.state = "submission_unknown" /\ Seen = "stopped" ->
           {"deploy_succeeded"}
      [] row.state = "start_unknown" /\ Seen = "running" -> {"verifying"}
      [] /\ row.state = "start_unknown" /\ Seen = "stopped"
         /\ claim \in {"reserved", "bound", "managed"} -> {"deploy_succeeded"}
      [] OTHER -> {}

RetryRead(o) ==
    /\ AuthorityFree
    /\ op[o].pc = "idle" /\ Requests < MaxRequests
    /\ \E to \in RetryTo :
         op' = [op EXCEPT ![o] = [Idle EXCEPT !.pc = "retry",
                                              !.from = row.state, !.to = to]]
    /\ OperatorOnly

RetryCas(o) ==
    LET q == op[o]
    IN /\ q.pc = "retry"
       /\ row.state = q.from /\ row.lease = None
       /\ row' = [row EXCEPT !.state = q.to]
       /\ ledger' = [ledger EXCEPT
            !.redeploys = IF q.to = "planned" THEN @ + 1 ELSE @,
            !.restarts = IF q.from = "start_unknown" /\ q.to = "deploy_succeeded"
                         THEN @ + 1 ELSE @]
       /\ op' = [op EXCEPT ![o] = Idle]
       /\ UNCHANGED <<live, sess, vm, jobs, claim>>

\* request_execution_cleanup: exact but for its NICs, and stopped.
CleanupVm == vm.life = "stopped" /\ vm.fit # "other"

CleanupRead(o) ==
    /\ AuthorityFree
    /\ op[o].pc = "idle" /\ Requests < MaxRequests
    /\ row.state = "cleanup_required"
    /\ Unbound
    /\ CleanupVm
    /\ op' = [op EXCEPT ![o] = [Idle EXCEPT !.pc = "cleanup",
                                            !.from = "cleanup_required"]]
    /\ OperatorOnly

CleanupCas(o) ==
    /\ op[o].pc = "cleanup"
    /\ row.state = "cleanup_required" /\ row.lease = None
    /\ row' = [row EXCEPT !.state = "cleanup_submitting"]
    /\ ledger' = [ledger EXCEPT !.cleanups = @ + 1]
    /\ op' = [op EXCEPT ![o].pc = "destroy", ![o].from = "cleanup_submitting"]
    /\ UNCHANGED <<live, sess, vm, jobs, claim>>

Destroy(o) ==
    \E r \in JobIds \cup {None} :
      /\ op[o].pc = "destroy"
      /\ Submit("destroy", r)
      /\ op' = [op EXCEPT ![o].pc = "answer", ![o].job = r,
                          ![o].to = IF r # None THEN "cleanup_submitted"
                                    ELSE "cleanup_submitting"]
      /\ UNCHANGED <<row, live, sess, vm, claim, ledger>>

\* The answer is stored without a condition.
Answer(o) ==
    /\ op[o].pc = "answer"
    /\ row' = [row EXCEPT !.state = StoredState(op[o]), !.job = StoredJob(op[o])]
    /\ op' = [op EXCEPT ![o] = Idle]
    /\ UNCHANGED <<live, sess, vm, jobs, claim, ledger>>

OperatorFails(o) ==
    /\ op[o].pc # "idle"
    /\ op' = [op EXCEPT ![o] = Idle]
    /\ OperatorOnly

----------------------------------------------------------------------------
(* CloudStack, its jobs and the extension callbacks.                       *)

JobStep(j, kind, from, to) ==
    /\ jobs[j] = [kind |-> kind, status |-> from]
    /\ jobs' = [jobs EXCEPT ![j].status = to]

\* deployVirtualMachine with customid and startvm=false. CloudStack refuses a
\* UUID it has ever used; the VM may differ from the plan.
DeployCreates(j) ==
    /\ vm.life = "none"
    /\ JobStep(j, "deploy", "pending", "working")
    /\ \E fit \in {"exact", "network", "other"} :
         vm' = [life |-> "stopped", fit |-> fit]
    /\ UNCHANGED claim /\ CloudStackOnly

StartBegins(j) ==
    /\ vm.life = "stopped"
    /\ JobStep(j, "start", "pending", "working")
    /\ vm' = [vm EXCEPT !.life = "starting"]
    /\ UNCHANGED claim /\ CloudStackOnly

\* prepare and create call bind_claim.
StartBinds(j) ==
    /\ BindAdmitted
    /\ jobs[j] = [kind |-> "start", status |-> "working"]
    /\ vm.life = "starting" /\ claim = "reserved"
    /\ claim' = "bound"
    /\ UNCHANGED <<vm, jobs>> /\ CloudStackOnly

\* delete asks authorize_cleanup_delete, then retire_claim.
AuthorizeDelete(j) ==
    /\ AuthorityFree
    /\ vm.life = "stopped"
    /\ JobStep(j, "destroy", "pending", "working")
    /\ \/ /\ row.state \in CleaningStates \ {"cleanup_authorized"}
          /\ claim = "reserved"
          /\ row' = [row EXCEPT !.state = "cleanup_authorized"]
          /\ claim' = "cleanup"
       \/ /\ row.state \in CleaningStates /\ claim = "cleanup"
          /\ UNCHANGED <<row, claim>>
       \/ /\ claim \in {"bound", "managed"}
          /\ claim' = "retiring"
          /\ UNCHANGED row
    /\ UNCHANGED <<live, sess, op, vm, ledger>>

\* Expunging may lag behind the end of the job.
Expunge(j) ==
    /\ jobs[j].kind = "destroy" /\ jobs[j].status \in {"working", "ok"}
    /\ vm.life = "stopped"
    /\ vm' = [vm EXCEPT !.life = "gone"]
    /\ UNCHANGED <<jobs, claim>> /\ CloudStackOnly

JobSucceeds(j) ==
    \/ /\ \E kind \in {"deploy", "destroy"} : JobStep(j, kind, "working", "ok")
       /\ UNCHANGED <<vm, claim>> /\ CloudStackOnly
    \/ /\ JobStep(j, "start", "working", "ok")
       /\ vm.life = "starting" /\ claim \in {"bound", "managed"}
       /\ vm' = [vm EXCEPT !.life = "running"]
       /\ UNCHANGED claim /\ CloudStackOnly

JobFails(j) ==
    /\ \/ jobs[j].kind # "none" /\ jobs[j].status = "pending"
       \/ jobs[j].status = "working"
    /\ jobs' = [jobs EXCEPT ![j].status = "failed"]
    /\ vm' = IF jobs[j] = [kind |-> "start", status |-> "working"]
                /\ vm.life = "starting"
             THEN [vm EXCEPT !.life = "stopped"] ELSE vm
    /\ UNCHANGED claim /\ CloudStackOnly

\* An administrator starts the VM by hand, with the same callbacks.
AdminStarts ==
    /\ BindAdmitted
    /\ vm.life = "stopped" /\ claim \in {"reserved", "bound", "managed"}
    /\ vm' = [vm EXCEPT !.life = "running"]
    /\ claim' = IF claim = "reserved" THEN "bound" ELSE claim
    /\ UNCHANGED jobs /\ CloudStackOnly

VmStops ==
    /\ vm.life = "running"
    /\ vm' = [vm EXCEPT !.life = "stopped"]
    /\ UNCHANGED <<jobs, claim>> /\ CloudStackOnly

\* Mutant: only a managed claim is retired with its VM.
AdminExpunges_ManagedOnly ==
    /\ AuthorityFree
    /\ vm.life \in {"stopped", "running"} /\ claim \in {"bound", "managed"}
    /\ vm' = [vm EXCEPT !.life = "gone"]
    /\ claim' = IF claim = "managed" THEN "retiring" ELSE claim
    /\ UNCHANGED jobs /\ CloudStackOnly

\* An administrator expunges an adopted VM: the delete callback retires it.
AdminExpunges ==
    /\ AuthorityFree
    /\ vm.life \in {"stopped", "running"} /\ claim \in {"bound", "managed"}
    /\ vm' = [vm EXCEPT !.life = "gone"]
    /\ claim' = "retiring"
    /\ UNCHANGED jobs /\ CloudStackOnly

----------------------------------------------------------------------------

Worker(w) ==
    \/ Acquire(w) \/ Observe(w) \/ Check(w) \/ Write(w) \/ Call(w)
    \/ Activate(w) \/ ActivationPending(w) \/ Finish(w) \/ Release(w)
    \/ Fail(w) \/ Expire(w)

Operator(o) ==
    \/ RetryRead(o) \/ RetryCas(o) \/ CleanupRead(o) \/ CleanupCas(o)
    \/ Destroy(o) \/ Answer(o) \/ OperatorFails(o)

CloudStack ==
    \/ \E j \in JobIds :
         \/ DeployCreates(j) \/ StartBegins(j) \/ StartBinds(j)
         \/ AuthorizeDelete(j) \/ Expunge(j) \/ JobSucceeds(j) \/ JobFails(j)
    \/ AdminStarts \/ VmStops \/ AdminExpunges

Next ==
    \/ \E w \in Workers : Worker(w)
    \/ \E o \in Operators : Operator(o)
    \/ CloudStack

ESpec == Init /\ [][Next]_vars

\* The scheduler ticks for ever and no step of a session fails every time it is
\* tried; leases run out, jobs end, and a session that began ends.
Fairness ==
    /\ \A w \in Workers :
         /\ SF_vars(Acquire(w)) /\ SF_vars(Observe(w)) /\ SF_vars(Check(w))
         /\ SF_vars(Write(w)) /\ SF_vars(Activate(w)) /\ SF_vars(Finish(w))
         /\ SF_vars(Release(w))
         /\ WF_vars(sess[w].pc # "idle" /\ Worker(w)) /\ WF_vars(Expire(w))
    /\ \A o \in Operators : WF_vars(op[o].pc # "idle" /\ Operator(o))
    /\ \A j \in JobIds : WF_vars(JobSucceeds(j) \/ JobFails(j))

ELiveSpec == ESpec /\ Fairness

----------------------------------------------------------------------------
(* Properties.                                                             *)

\* The row, the sessions and CloudStack keep the types of their columns.
ETypeOK ==
    /\ row \in Row
    /\ live \subseteq Workers
    /\ sess \in [Workers -> Session]
    /\ op \in [Operators -> Request]
    /\ vm \in Vm
    /\ jobs \in [JobIds -> Job]
    /\ claim \in ClaimStates
    /\ ledger \in [deploys : Nat, starts : Nat, redeploys : Nat,
                   restarts : Nat, cleanups : Nat]

\* deployVirtualMachine is called once, and once more for each retry an operator
\* was granted: no crash, lost answer or stolen lease replays it.
DeploysAreGranted == ledger.deploys <= 1 + ledger.redeploys

\* The same of startVirtualMachine.
StartsAreGranted == ledger.starts <= 1 + ledger.restarts

\* A claim is released only once CloudStack's VM is gone for good, whatever job
\* is still in flight and whoever observed it.
ReleasedVmIsGone == claim = "released" => vm.life = "gone"

\* No claim is under management while a deletion that a cleanup requested may
\* still reach its VM.
CleanupSparesManaged ==
    \A j \in JobIds :
      jobs[j].kind = "destroy" /\ jobs[j].status \in {"pending", "working"} =>
        claim # "managed"

\* A rolled back execution stays so: no late answer or observation revives it.
RollbackIsFinal ==
    [][row.state = "rolled_back" => row'.state = "rolled_back"]_vars

\* Whoever dies wherever, an execution reaches a state that ends it, waits for
\* an operator, or waits for CloudStack, unless its claim was retired under it.
ExecutionSettles ==
    row.state \in ActiveStates ~>
      row.state \in TerminalStates \cup
        {"submission_unknown", "start_unknown", "verifying",
         "cleanup_submitting"}
      \/ claim = "retiring"

\* An execution does not wait for verification for ever while its claim is bound
\* and its VM runs as planned.
VerifiedIsManaged ==
    <>[](row.state = "verifying" /\ claim = "bound") => []<>(Seen # "running")

\* A cleanup whose VM is gone is rolled back, or handed to the operator.
AbsentVmEndsCleanup ==
    row.state \in CleaningStates /\ vm.life = "gone" /\ Unbound ~>
      row.state \in {"rolled_back", "cleanup_required"}

\* README: absence of the VM permits the release of a claim in cleanup.
AbsenceReleasesClaim ==
    claim = "cleanup" /\ vm.life = "gone" ~> claim = "released"

\* README: failed pre-bind creation goes reserved -> cleanup -> released.
FailedCreationReleasesClaim ==
    row.state = "failed" /\ claim = "reserved" ~> claim = "released"

=============================================================================
