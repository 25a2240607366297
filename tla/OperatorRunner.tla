--------------------------- MODULE OperatorRunner ---------------------------
(***************************************************************************)
(* backend/adopt_one.py: run_one drives the execution of one guest from a  *)
(* process of its own, while the scheduled executor of the deployed service*)
(* stays disabled. It reuses the worker of AdoptionExecutor, adds two      *)
(* recoveries (a bind whose callback was lost, and guests that are stopped,*)
(* whose VM is bound and verified without a start) and bounds what it may  *)
(* submit by the state it found. `scheduled` tells the two regimes apart:  *)
(* either the scheduler and the routes work on the row, or runs do.        *)
(*                                                                         *)
(* A behaviour begins with the execution planned: reservation and creation *)
(* are AdoptionRegistry's. A run renews its authority with each write, so  *)
(* runs exclude one another; the callbacks may come at any time, more than *)
(* the authority lends them. The catalog and the report are left out.      *)
(***************************************************************************)
EXTENDS AdoptionExecutor

CONSTANTS
    Runners,  \* runs that may overlap
    MaxRuns   \* bound on the runs that are started

ASSUME RunnerConstants == MaxRuns \in Nat

VARIABLES
    scheduled,  \* adoption_executor_enabled of the deployed service
    source,     \* the power state of the guest, frozen in the manifest
    run,        \* where each run is, and what it has read
    runs,       \* runs started
    torn        \* history: a run ended between binding and verifying

config == <<scheduled, source>>
rvars == <<vars, config, run, runs, torn>>

SubmittedStates == {"deploy_submitted", "start_submitted"}
AmbiguousStates == WaitingStates \cup StartingStates
ResumableStates == AmbiguousStates \cup SubmittedStates \cup
    {"planned", "deploy_succeeded", "verifying"}

Run == [pc : {"out", "enter", "startup", "load", "wait", "session", "after",
              "bind", "settle", "retry", "grant"},
        from : States, to : States, observed : SUBSET AmbiguousStates,
        deploy : BOOLEAN, start : BOOLEAN, worker : Workers \cup {None}]

Out == [pc |-> "out", from |-> "planned", to |-> "planned", observed |-> {},
        deploy |-> FALSE, start |-> FALSE, worker |-> None]

\* The scheduled executor is modelled for guests that run.
RInit ==
    /\ Init
    /\ scheduled \in BOOLEAN
    /\ source \in {"running", "stopped"}
    /\ scheduled => source = "running"
    /\ run = [r \in Runners |-> Out]
    /\ runs = 0
    /\ torn = FALSE

----------------------------------------------------------------------------
(* What a run reads.                                                       *)

\* _validate_phase_pair: what the claim may be in each state of the row.
PhasePair ==
    CASE row.state = "planned" -> claim = "reserved"
      [] row.state = "succeeded" -> claim = "managed"
      [] OTHER -> claim \in {"reserved", "bound"}

\* _validate_existing_state: a worker lease in the row, expired or not, is not
\* resumable.
Resumable ==
    /\ row.state \in ResumableStates \cup {"succeeded"}
    /\ row.lease = None
    /\ PhasePair

\* Mutant: the recovery waits for a callback to bind the VM.
LeftStopped_WhenBound ==
    /\ source = "stopped"
    /\ row.state = "deploy_succeeded" /\ claim = "bound"

\* The deployment of a guest that is stopped has come to where others start.
LeftStopped ==
    /\ source = "stopped"
    /\ row.state = "deploy_succeeded" /\ claim = "reserved"

\* The VM that each recovery expects to find.
RecoverableVm ==
    Seen = IF row.state = "verifying" THEN "running" ELSE "stopped"

----------------------------------------------------------------------------
(* run_one.                                                                *)

Inside(r) == run[r].pc \notin {"out", "enter"}
RunInside == \E r \in Runners : Inside(r)

Goto(r, s) == run' = [run EXCEPT ![r].pc = s]
RunOnly == UNCHANGED <<vars, config, runs, torn>>

\* The state that decides what this run may submit is read before the authority
\* is acquired.
StartRun(r) ==
    /\ ~scheduled
    /\ run[r].pc = "out" /\ runs < MaxRuns
    /\ Resumable
    /\ run' = [run EXCEPT ![r] = [Out EXCEPT
         !.pc = "enter",
         !.deploy = row.state = "planned",
         !.start = row.state \in {"planned", "deploy_submitted",
                                  "deploy_succeeded", "start_unknown"}]]
    /\ runs' = runs + 1
    /\ UNCHANGED <<vars, config, torn>>

\* acquire_write_authority, and the state once more.
EnterRun(r) ==
    /\ run[r].pc = "enter" /\ ~RunInside
    /\ Resumable
    /\ Goto(r, "startup")
    /\ RunOnly

\* Any exception or refusal, the timeout, the death of the process. A worker
\* lease that the run has acquired stays in the row.
StopRun(r) ==
    /\ run[r].pc # "out"
    /\ run' = [run EXCEPT ![r] = Out]
    /\ sess' = IF run[r].worker = None THEN sess
               ELSE [sess EXCEPT ![run[r].worker] = Idle]
    /\ torn' = (torn \/ run[r].pc = "settle")
    /\ UNCHANGED <<row, live, op, vm, jobs, claim, ledger, config, runs>>

\* A run that finds a start unknown or a verification under way recovers first.
Startup(r) ==
    /\ run[r].pc = "startup"
    /\ \/ /\ row.state \in {"start_unknown", "verifying"} /\ claim = "reserved"
          /\ RecoverableVm
          /\ run' = [run EXCEPT ![r].pc = "bind", ![r].from = row.state]
       \/ /\ row.state = "start_unknown" /\ claim = "bound"
          /\ Goto(r, "retry")
       \/ /\ ~ (row.state = "verifying" /\ claim = "reserved")
          /\ row.state # "start_unknown"
          /\ Goto(r, "load")
    /\ RunOnly

\* bind_claim: an exact duplicate of the callback's bind succeeds.
Bind(r) ==
    /\ run[r].pc = "bind"
    /\ claim \in {"reserved", "bound"}
    /\ claim' = "bound"
    /\ Goto(r, CASE run[r].from = "deploy_succeeded" -> "settle"
                 [] run[r].from = "start_unknown" -> "retry"
                 [] OTHER -> "load")
    /\ UNCHANGED <<row, live, sess, op, vm, jobs, ledger, config, runs, torn>>

\* The second transaction of _recover_stopped_deployment.
Settle(r) ==
    /\ run[r].pc = "settle"
    /\ row.state = "deploy_succeeded" /\ row.lease = None
    /\ row' = [row EXCEPT !.state = "verifying"]
    /\ Goto(r, "load")
    /\ UNCHANGED <<live, sess, op, vm, jobs, claim, ledger, config, runs, torn>>

\* request_execution_retry, on the run's own initiative.
Retry(r) ==
    /\ run[r].pc = "retry"
    /\ \E to \in RetryTo :
         run' = [run EXCEPT ![r].pc = "grant", ![r].from = row.state,
                            ![r].to = to]
    /\ RunOnly

Grant(r) ==
    /\ run[r].pc = "grant"
    /\ row.state = run[r].from /\ row.lease = None
    /\ row' = [row EXCEPT !.state = run[r].to]
    /\ ledger' = [ledger EXCEPT
         !.redeploys = IF run[r].to = "planned" THEN @ + 1 ELSE @,
         !.restarts = IF run[r].from = "start_unknown"
                         /\ run[r].to = "deploy_succeeded" THEN @ + 1 ELSE @]
    /\ Goto(r, "load")
    /\ UNCHANGED <<live, sess, op, vm, jobs, claim, config, runs, torn>>

----------------------------------------------------------------------------
(* drive_execution.                                                        *)

\* load_validated_state: the deployment of a stopped guest is taken further.
RecoverStopped(r) ==
    /\ run[r].pc \in {"load", "after"}
    /\ LeftStopped
    /\ RecoverableVm /\ row.lease = None
    /\ run' = [run EXCEPT ![r].pc = "bind", ![r].from = row.state]
    /\ RunOnly

\* Mutant: every state is remembered as ambiguous.
Load_AllAmbiguous(r) ==
    /\ run[r].pc = "load"
    /\ ~LeftStopped /\ Resumable
    /\ row.state \notin run[r].observed \cup {"succeeded"}
    /\ run' = [run EXCEPT ![r].pc = "wait", ![r].from = row.state,
                          ![r].observed = @ \cup {row.state}]
    /\ RunOnly

\* An ambiguous state is observed once in a run.
Load(r) ==
    /\ run[r].pc = "load"
    /\ ~LeftStopped /\ Resumable
    /\ row.state \notin run[r].observed \cup {"succeeded"}
    /\ run' = [run EXCEPT
         ![r].pc = "wait", ![r].from = row.state,
         ![r].observed = @ \cup ({row.state} \cap AmbiguousStates)]
    /\ RunOnly

\* The run succeeds, or stops on the job ids it attests; nothing is written.
Complete(r) ==
    /\ run[r].pc = "load"
    /\ row.state = "succeeded" /\ Resumable
    /\ run' = [run EXCEPT ![r] = Out]
    /\ RunOnly

\* wait_for_job, then reconcile_execution.
Reconcile(r, w) ==
    /\ run[r].pc = "wait"
    /\ run[r].from \in SubmittedStates => JobStatus \in {"ok", "failed"}
    /\ Acquire(w)
    /\ run' = [run EXCEPT ![r].pc = "session", ![r].worker = w]
    /\ UNCHANGED <<config, runs, torn>>

\* The activation route wants the VM in the power state of the guest.
ActivateStopped(w) ==
    /\ sess[w].pc = "observe" /\ sess[w].from = "verifying"
    /\ row.state = "verifying" /\ Holds(w)
    /\ claim = "bound" /\ Seen = "stopped"
    /\ claim' = "managed"
    /\ sess' = [sess EXCEPT ![w].pc = "finish"]
    /\ UNCHANGED <<row, live, op, vm, jobs, ledger>>

WorkerStep(w) ==
    \/ Observe(w) \/ Check(w) \/ Write(w) \/ ActivationPending(w) \/ Finish(w)
    \/ IF source = "running" THEN Activate(w) ELSE ActivateStopped(w)

SessionStep(r) ==
    LET w == run[r].worker
    IN /\ run[r].pc = "session"
       /\ WorkerStep(w)
       /\ run' = IF sess'[w].pc = "idle"
                 THEN [run EXCEPT ![r].pc = "after", ![r].worker = None]
                 ELSE run
       /\ UNCHANGED <<config, runs, torn>>

Deploys(w) == sess[w].to = "deploy_submitting"
Allowed(r, w) == IF Deploys(w) THEN run[r].deploy ELSE run[r].start

\* BoundedCloudStackClient lets one submission of each kind through ...
SubmitWithin(r) ==
    LET w == run[r].worker
    IN /\ run[r].pc = "session"
       /\ Allowed(r, w)
       /\ Call(w)
       /\ run' = IF Deploys(w) THEN [run EXCEPT ![r].deploy = FALSE]
                 ELSE [run EXCEPT ![r].start = FALSE]
       /\ UNCHANGED <<config, runs, torn>>

\* ... and refuses the others, which the worker takes for a lost submission.
Refused(r) ==
    LET w == run[r].worker
    IN /\ run[r].pc = "session" /\ sess[w].pc = "call" /\ Holds(w)
       /\ ~Allowed(r, w)
       /\ sess' = [sess EXCEPT ![w] =
            [Idle EXCEPT !.pc = "check", !.from = row.state,
                         !.to = IF Deploys(w) THEN "submission_unknown"
                                ELSE "start_unknown"]]
       /\ UNCHANGED <<row, live, op, vm, jobs, claim, ledger, config, run, runs,
                      torn>>

\* The step must have brought the execution on.
After(r) ==
    /\ run[r].pc = "after"
    /\ ~LeftStopped /\ Resumable
    /\ row.state # run[r].from
    /\ Goto(r, "load")
    /\ RunOnly

----------------------------------------------------------------------------
(* CloudStack and the service beside the runs.                             *)

\* validate_adoption_manifest: only a guest that runs is bound by a callback or
\* passes the start of an adoption.
CallbacksPass == source = "running" \/ claim = "managed"

Outside ==
    /\ \/ \E j \in JobIds :
            \/ DeployCreates(j) \/ StartBegins(j) \/ Expunge(j) \/ JobFails(j)
            \/ CallbacksPass /\ StartBinds(j)
            \/ AuthorizeDelete(j)
            \/ (jobs[j].kind = "start" => CallbacksPass) /\ JobSucceeds(j)
       \/ CallbacksPass /\ AdminStarts
       \/ VmStops \/ AdminExpunges
       \/ \E w \in Workers : Expire(w)
    /\ UNCHANGED <<config, run, runs, torn>>

Service ==
    /\ scheduled
    /\ \/ \E w \in Workers : Worker(w)
       \/ \E o \in Operators : Operator(o)
    /\ UNCHANGED <<config, run, runs, torn>>

RunStep(r) ==
    \/ EnterRun(r) \/ Startup(r) \/ Bind(r) \/ Settle(r) \/ Retry(r) \/ Grant(r)
    \/ RecoverStopped(r) \/ Load(r) \/ Complete(r) \/ SessionStep(r)
    \/ SubmitWithin(r) \/ Refused(r) \/ After(r)
    \/ \E w \in Workers : Reconcile(r, w)

RNext ==
    \/ \E r \in Runners : StartRun(r) \/ RunStep(r) \/ StopRun(r)
    \/ Service
    \/ Outside

RSpec == RInit /\ [][RNext]_rvars

----------------------------------------------------------------------------
(* Properties.                                                             *)

\* What a run has read, decided and may still submit keeps its type; among the
\* states it remembers are ambiguous ones only.
RTypeOK ==
    /\ scheduled \in BOOLEAN /\ torn \in BOOLEAN
    /\ source \in {"running", "stopped"}
    /\ run \in [Runners -> Run]
    /\ runs \in 0 .. MaxRuns

\* CloudStack is never asked to start the VM of a guest that is stopped, unless
\* a run ended between binding its VM and asking for its verification
\* (adopt_one.py:566, :538).
StoppedGuestNotStarted ==
    source = "stopped" /\ ledger.starts > 0 => torn

\* A guest that is bound or managed has its VM: no bind, of a callback or of a
\* run, comes after the deletion of the VM it names.
BoundVmExists == claim \in {"bound", "managed"} => Present
=============================================================================
