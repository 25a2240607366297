# Verification of the Proxmox to CloudStack adoption service

The program (`src/backend`, `src/cloudstack-extension`) shows the guests that
run on Proxmox next to the VMs that CloudStack knows, and adopts guests: it
makes CloudStack the owner of a Proxmox guest that already exists, without
touching the guest's disks. The dangerous mistakes are all of one kind: two
owners for a guest, an action on a guest by somebody who no longer owns it, a
CloudStack request made twice, or an owner deleted on the strength of an old
observation. Nothing here is serialised by one process: the service may run
several times, its scheduler, its routes and the callbacks of the hypervisor
extension run side by side, each with its own database session, and any of them
may stop between two statements. What keeps them apart is in the database:
compare-and-set updates, generations, and three kinds of leases.

This directory models that part in TLA+, checks it with TLC and proves its
invariants with TLAPS. Section 1 is the inventory of the system, section 2 says
what is in each module, section 3 what each run shows, section 4 what is proved,
section 5 what is left out, and section 6 the plan for what comes next.

## 1. The system

### Claim registry (`adoption_registry.py`) — modelled

State: one row of `adoption_claims` for each Proxmox (cluster, VMID): state,
generation, manifest hash and node, `cloudstack_vm_ref`, the fence
`managed_operation_lease_id`; and the rows of `adoption_operation_leases` (id,
generation, expiry), at most one for each claim.
Operations: `reserve_claim` (insert, refresh, reclaim), `bind_claim`,
`activate_bound_claim`, `acquire_managed_operation_lease`,
`complete_managed_operation_lease`, `retire_claim`, `finalize_released_claim`.
Callers: the REST routes, the executor, and the callbacks of the extension.
Hard: every handler validates a row and updates it later; delayed callbacks of
VMs of an earlier life; operation leases (two hours) that run out under their
holder; retirement against a running operation.
Correct when: the fence and the lease table agree, a VM that owns a guest keeps
it while it lives, a live lease is taken by nobody, only the worker that verified
the VM activates the claim, and each life has at most one owner.

### Write authority (`adoption_authority.py`) — modelled

State: the single row of `adoption_write_authority` (owner, mode, target,
expiry). Operations: acquire, renew, release, and the assertion by which a bind
callback borrows the authority of the writer it is called back for.
Callers: `adopt_one.py` (mode operator, its timeout plus 300 s), the executor,
the VM and NIC reconciliations and the other writing routes (300 s).
Hard: the clock is read before the compare-and-set, a guard is asserted before
the write it protects, a displaced owner releases late, a process dies holding
the row, and a borrower holds nothing.
Correct when: two writers are past their guards together only if a lease ran out.

### Adoption executor (`adoption_executor.py`, routes in `main.py`) — modelled

State: the rows of `adoption_executions`: state, plan, worker lease (default
60 s), CloudStack job id. One execution goes `planned`, `deploy_submitting`,
`deploy_submitted` (or `submission_unknown`), `deploy_succeeded`,
`start_submitting`, `start_submitted` (or `start_unknown`), `verifying`,
`succeeded`; or through `cleanup_required` and the three cleanup states to
`rolled_back`; or to `failed`.
Operations: `reconcile_execution`, one step per scheduler tick;
`request_execution_retry`; `request_execution_cleanup`; `_finalize_cleanup_release`;
`_mark_cleanup_authorized` in the delete callback. It calls CloudStack
(deploy, start, destroy, job status, VM listing) and activates claims.
Hard: answers that are lost after CloudStack took the request, workers that die
between a commit and a request, a lease that runs out during a listing that may
take 120 s, late answers of routes, callbacks that move the row under a worker,
an administrator who starts, stops or expunges the VM meanwhile.
Correct when: no submission is replayed unless an operator granted it, a claim is
released only when its VM is gone, a deletion never meets a managed claim, and an
execution settles although its workers may die.

### NIC reconciliation (`sync_engine.py`, `cloudstack_db.py`) — modelled for one pair

State: the NIC snapshots and their markers (`config_current`, `nics_current`) in the two
inventory tables, the flag `_nic_collection_ready` in memory, `network_mappings`, and the
rows of CloudStack's own `nics` table.
Operations: `sync_nics` (flag down, markers down in a transaction, collect, markers
and flag up), `detect_nic_drift`, `reconcile_nic`, `reconcile_nics_all`, and the
insert, update and removal of a row. Callers: the sync cycle, once all is collected,
and two routes at any time.
Hard: a drift is derived from snapshots and written later, while the guest, CloudStack, the
mappings and the link change; each of the polls, queries and transactions of a cycle may fail
and the cycle goes on; markers survive a restart and the flag does not.
Correct when: nothing automatic is written from an earlier cycle, a VM has one default NIC,
and the two sides agree in the end, whatever stale writes happened.

### Inventory, matching and placement (`sync_engine.py`, `cloudstack_db.py`) — modelled

State: `proxmox_vms` and `cloudstack_vms` with the links between them, `host_mappings`,
the flag `_inventory_collection_ready`, and CloudStack's own `vm_instance` rows.
Operations: `full_sync` polls Proxmox (all rows not current, then cluster after cluster),
then CloudStack, runs `match_vms`, reconciles, and reads both again; `sync_lock` serialises it
in a process. The manual match and unmatch routes, the host mapping routes and two reconcile
routes run beside it. `detect_drift` and `reconcile_vm` decide in one session, under the
write authority, and write with an UPDATE of the other database.
Hard: rows that a failed poll did not refresh, rows read before another commit, two clusters
whose guests share VMID and name, a decision that is old when it is written.
Correct when: links are mutual and one to one, an established link survives a migration,
what is written is the placement of the right guest as polled in this cycle, and
placements converge.

### Custom extension (`proxmox.sh`) — modelled for adopted VMs

State: none of its own; the Proxmox guest and task, and the claim it reaches through the
registry. Operations: `prepare` and `create` bind; `start`, `stop`, `reboot`, `snapshot`,
`restore`, `console` take an operation lease, call Proxmox, wait for the task, verify and
complete the lease; `delete` authorizes a cleanup or retires the claim.
Hard: every run is a process that may be killed, time out or lose an answer anywhere, and a
Proxmox task outlives the run, and perhaps its lease.
Correct when: a running task is fenced by its own lease, a completion tells the truth, and
an acknowledged delete ends the life of the claim.

### Operator runner (`adopt_one.py`, `adopt_all.py`) — modelled from a planned execution on

State: none of its own; it works on the row of `adoption_executions` under the write
authority, while the scheduled executor is disabled. Operations: `run_one` reads the claim
and the execution, acquires the authority, recovers a bind whose callback was lost,
takes the deployment of a stopped guest to its verification without a start, and drives
`reconcile_execution` with a client that lets one deploy and one start through. It
may be stopped anywhere and started again.
Hard: what it may submit is decided before the authority is held; the recovery of a stopped
guest is two transactions; callbacks and administrators go on beside it.
Correct when: a stopped guest is not started, nothing is submitted twice without a grant, and
no VM is bound that is gone.

### The other parts

- Adoption planning (`adoption.py`, `adoption_ownership.py`) — not modelled. Pure
  functions from an inventory to a manifest and a plan; both are opaque values here.
- CloudStack and Proxmox clients — external services, modelled from their callers.
- REST API, authentication, scheduler wiring (`main.py`) — partly: the authority
  fences of the routes, the sessions of those that write and the scheduled jobs; not
  serialisation, not login.
- Configuration and schema (`config.py`, `database.py`) — partly: the tables above.
- Legacy direct-DB registration — not modelled, unavailable through the API.
- Frontend — not modelled, it keeps no durable state.

`PROJECT.json` lists under `hazards` the places where this code can go wrong in a
way that a test would hardly reach, with the property that covers each.

## 2. The modules

| Module | What it is |
| --- | --- |
| `AdoptionRegistry` | the claim registry, one action for each read and each compare-and-set |
| `ClaimLifecycle` | the abstract registry: what its users may rely on |
| `WriteAuthority` | the authority row, its owners and its borrowers |
| `AdoptionExecutor` | one execution, its workers, routes, jobs and callbacks |
| `OperatorRunner` | `adopt_one.py` over `AdoptionExecutor` |
| `PlacementSync` | the inventory, its links, and the placement written to CloudStack |
| `NicReconciliation` | the sync cycle and the NICs of one guest and its CloudStack VM |
| `ProxmoxExtension` | the script's runs on adopted VMs, over `ClaimLifecycle` |
| `MC...` | symmetry and constants for TLC |
| `...Proofs` | theorems about the module of that name |
| `AdoptionRegistryRefinement` | that the registry implements `ClaimLifecycle`, and its action properties |

`AdoptionRegistry`. `claim`, `leaseRow` and `exec` are the tables (of
`adoption_executions` the columns that the registry reads), `vm` the CloudStack VMs
with the adoption details frozen into them, `req` what a handler has read and not
yet written, `now` the clock. A handler is `XxxRead` (its checks and early
returns) then `XxxCas` (the WHERE clause and the assignments of its UPDATE); between
them every other handler may run, the clock may pass, and the VM may appear or
vanish. `GiveUp` is any error path: an exception, an UPDATE that matches no row, the
death of the process. `ExecuteCas`, `AuthorizeCas` and `RollbackCas` are the writes of
the executor to claims. `holder` and `bound` are history, used by properties and by the
environment, never by a handler. The write authority is *not* assumed: what holds here
holds when it lapses.

`ClaimLifecycle` has no handlers, no requests and no executions: a guest has a
phase, a generation, an owner and an operation. `AdoptionRegistry` instantiates it
with a refinement mapping that shows `operating` as a managed claim with a lease.

`WriteAuthority`. A writer is out, reads the clock to acquire, is in, reads the clock
to renew, is past its guard ("writing"), writes, and is in again. `until` is the
expiry that its guard stored (or saw, for a borrower). `Ghost` is the owner id that
a dead process left in the row; a restarted process has a new id.

`AdoptionExecutor`. A worker acquires the row, looks at CloudStack (`Observe`),
checks its lease (`Check`) and stores what the session changed (`Write`, an UPDATE
with `WHERE id` only, as SQLAlchemy emits it). Before a submission it commits the
"submitting" state and only then calls (`Call`); the call may reach CloudStack or
not and its answer may be lost. A route reads, compare-and-sets, destroys and
stores the answer. Jobs run whenever they like, and their callbacks bind, retire
or authorize. `ledger` is history: submissions made and retries granted.

Two constants say what the environment of a worker is:

- `Fenced`: whether the write authority keeps the sessions of workers and routes
  apart. `WriteAuthority` shows that it does as long as its lease lasts; requests
  to CloudStack time out after 30 s and the authority lasts 300 s. With
  `Fenced = FALSE` they all run at once. Even when it is `TRUE`, a bind callback runs
  beside the worker whose authority it borrows.
- `Pace`: "prompt", a worker lease outlives its session; "slow", it may run out
  under the session (a listing may take 120 s, the lease lasts 60), but no stall as
  long as the lease separates the check of the lease from the commit that follows
  in the next statement; "stalls", even that.

`OperatorRunner` extends `AdoptionExecutor`. `scheduled` is chosen once: either its workers and
routes are at work, as before, or the runs are. A run reads the row (`StartRun`), acquires the
authority and reads again (`EnterRun`), recovers (`Startup`, `Bind`, `Retry`, `Grant`), and then
loads, waits for a job, reconciles with the worker's own actions (`SessionStep`,
`SubmitWithin`) and checks that the row went on (`After`). `RecoverStopped`, `Bind` and `Settle`
are the two transactions for a stopped guest. A submission over the budget is an exception that
the executor stores as a lost submission (`Refused`). `StopRun` is every exception, timeout or
death; it leaves a worker lease in the row. `torn` is history: a run ended between `Bind` and
`Settle`.

`PlacementSync`. `guest` and `vmi` are the truth on the two sides, `px` and `cs` the inventory
rows, `mapping` the host mappings. `sync` walks through `full_sync`, one action for each poll and
each transaction; the snapshots that `match_vms` and a request work on are part of the state, and
a commit writes the columns that differ from them. A reconciliation lists, decides
(`status`) and writes (`write`); CloudStack, guests, mappings and operators move between any
two. `polled` (what Proxmox answered in this cycle) and `raced` (a commit from rows that
another commit had overtaken) and `overlap` (two requests to match or unmatch have overlapped) are
history. A poll may fail for any of the clusters, a write may be committed and yet count as failed, since its
log line is stored afterwards, and an exception outside every `try` ends the session (`Aborts`).

`ProxmoxExtension`. `life`, `op`, `gone` and `clock` are those of `ClaimLifecycle`, which it
instantiates: a registry call is a step of the contract, so that what `AdoptionRegistry`
implements is what the script relies on. `run` is where each process is, `task` the Proxmox
task submitted under each lease, `power` the guest. `Abandon` is a kill, a timeout or a lost
answer. A second VM may carry the details of an earlier life.

`NicReconciliation`. `guest` and `table` are the truth on the two sides, `px` and `cs` the
inventory rows with their snapshots and markers, `linked` and `ready` the link and the flag.
`sync` walks through `full_sync`, one action for each transaction or remote read:
`SyncProxmox`, `SyncCloudstack`, `MatchVms`, `Invalidate` (the flag), `Reset` (the markers),
`CollectConfig`, `CollectTable`, and then the automatic session or none. A session lists the drift;
for each item it looks at the flag (`NextItem`), derives the drift again and finds
the item in it (`Read`), and writes (`Write`). `AuthorityFree` keeps sessions apart, as
the write authority does; it keeps neither the cycle nor the rest of the world away. A failing
write (`WriteFails`, committed or not) goes on with the next item; an exception of `detect_nic_drift` or of
the renewal between two items (`Aborts`) ends the session, and an automatic one takes the cycle with it: the flag stays up
and nothing is collected again. `fresh` is history: what this cycle has collected.

The parts fit together like this: `ClaimLifecycle` is implemented by `AdoptionRegistry` and
used by `ProxmoxExtension`. `AdoptionExecutor` has one claim, reduced to its state, and takes
from the registry that activation and retirement are compare-and-sets; `OperatorRunner` drives
it. `WriteAuthority` justifies `Fenced`, which the registry does not need, and that runs exclude
one another. `PlacementSync` and `NicReconciliation` are the two halves of one cycle;
each has the part of the cycle that its rows depend on.

## 3. The runs

Runs that pass:

| Run | Question | Bounds |
| --- | --- | --- |
| `registry` | do racing handlers, late callbacks, refreshes and reclaims keep the fence, the owner and the leases right, and implement the lifecycle? | 1 guest, 2 VMs, 2 manifests, 2 operation leases, 2 worker leases, 2 handlers, 2 generations, clock to 2; the clock moves only while one manifest is in use |
| `authority` | who is past a guard with whom? | one writer of each kind, one guest, operator leases of 2 ticks, others of 1, clock to 3 |
| `executor` | can anything be replayed, released, deleted or bound wrongly, by workers or by runs? | 2 workers, 1 operator, 3 jobs, 1 request, unfenced, slow; or 2 runners, 2 runs, guest running or stopped |
| `executor_progress` | does an execution settle whoever dies? | 1 worker, 1 operator, 2 jobs, 1 request, fenced, prompt |
| `placement` | are links, the guest written about and what is written right, and do placements converge? | 2 guests in 2 clusters, 2 VMs, 3 nodes, 1 wrong mapping, 2 processes that serve match and unmatch requests, 1 route; 2 changes, 1 failure, 2 requests, 3 of them together |
| `nics` | is anything written from an old cycle, and do the two sides converge? | 2 slots, 2 MACs, 1 bridge, 2 networks, 1 address, 1 route, 1 change, 1 failure, 1 request, 3 rows |
| `extension` | are tasks fenced and completions true, is a delete final, is the contract kept? | 1 guest, 2 VMs, 2 leases, 2 runs of the script, stop, restore and console, 2 generations, clock to 2 |

Why these are enough. Rows of different guests meet only in the unique constraint
on `cloudstack_vm_ref`, and a VM carries the details of one guest, so one guest
is enough; two VMs and two generations give a VM of the life before; two handlers are a pair that races, and
a third that acts between a read and a write is one of them finished and started
again. A lease of one tick and a clock of two gives live, expired and replaced. Two manifests
matter to reservations, which no clock limits, so the constraint `OneManifestOrNoTick` lets
the clock stand while both are in use. In
`authority` the clock passes the longest lease and one more. In `executor` a third job
comes after a deploy and a start; two requests were tried as well (9.2 million states) and add
nothing. Two runs are one that is stopped and one that resumes, or two that read before either holds the
authority; a third run was tried and adds nothing. In `placement` the guests of the two clusters share
VMID and name, the one case where only a mapping tells them apart; one cluster has two nodes, so that a
guest migrates; a wrong mapping row names a host of the other cluster.
`Starts` has the first guest on either node beside the wrong row, and on one of them without it: the two nodes differ in nothing else. Three events are, for example, a
migration during a failed poll beside a manual unmatch, or two requests that overlap each other and a cycle. In `extension` one guest is enough as in the
registry; stop, restore and console are an operation with one task, one with a second task after
the first, and one without; the others take the same path as one of these. In `nics`, two slots give a default NIC and another, two networks a wrong one, and three rows a
duplicate beside both; one change or request falls between any two steps, and one failure
on any step, in whichever of the endless cycles. The first snapshot of each side is itself old news for
the second cycle, so that nothing more is needed to meet stale data. A third row is the
cap of `Write` and of CloudStack: an insertion beyond it would wait, so `MaxRows` is the
two slots and one more for the one duplicate that a single change can cause. `MaxChanges`,
`MaxFailures` and `MaxRuns` are counted in `spent`. `MaxGen`, `MaxClock` and `MaxRequests` are the only caps on counters, and each
stands in the guard of the action that counts.

What the properties say, beside the type invariants:

- `FenceMatchesLease`: the claim is `operating` exactly when its fence names the row
  of the lease table, of its generation. `LeaseEndsByHolderOrExpiry`: no one else ends
  a live lease.
- `BoundVmCarriesClaim`, `LivingBoundVmKeepsClaim`: an owner's frozen details are those
  of the claim, and a VM that was ever bound and lives still owns its guest.
- `ActivationFencedByWorker`: a claim becomes managed only under the unexpired worker
  lease of the verifying execution.
- `ImplementsLifecycle`: every step is a step of `ClaimLifecycle` or hidden.
- `CoveredOwnersAreAlone`, `BorrowerIsAloneWithLender`, `LiveLeaseIsKept`: the mutual
  exclusion that the authority does give, with its two limits: a lease that ran
  out, and a lender that released.
- `DeploysAreGranted`, `StartsAreGranted`: one submission, and one more for each
  retry granted. `ReleasedVmIsGone`: no release under a VM that exists or that a
  job in flight can still create. `CleanupSparesManaged`: no requested deletion is on
  its way to a managed VM.
- `AutoWritesFromThisCycle`: when the automatic session writes, both snapshots are of the cycle that
  started it, whichever poll, reset, query or process failed before.
- `AtMostOneDefault`, `NicsConverge`: no order of insertions leaves two default NICs, and once
  changes, failures and requests are over, the rows become those of the guest and stay so.
- `StoppedGuestNotStarted`: `startVirtualMachine` is not called for a guest that is stopped, unless a
  run was torn. `BoundVmExists`: a bound or managed claim has its VM, although a run binds what it
  listed a moment ago.
- `LinksAgreeUnlessRaced`, `LinksHeal`: the two tables agree on the links unless a commit came from
  overtaken rows, and then the next cycles repair them. `EstablishedPairIsKept`: a migration unlinks no pair.
- `WritesAboutOwnGuest`, `AutoWritesWhatWasPolled`, `PlacementConverges`: what is written to a VM
  is about the guest it stands for, as long as no two requests to match or unmatch have overlapped (section 5 says what
  happens after that), it is what Proxmox answered in this cycle, and in the end CloudStack has every linked guest where Proxmox runs it.
- `TaskHoldsFence`, `CompletedMeansDone`, `AcknowledgedDeleteEndsLife`, `KeepsLifecycle`: a task under a
  live lease is fenced by it, a completed operation left the power state it promised, and a VM whose delete
  was answered with success neither binds nor operates again; all within the registry's contract.
- `RollbackIsFinal`, `ExecutionSettles`, `VerifiedIsManaged`, `AbsentVmEndsCleanup`:
  progress, under the fence.

The bounds of `executor` are also where its assumptions matter, and they were tried:
`RollbackIsFinal` fails when `Fenced` is FALSE (the cleanup route stores a late answer
over `rolled_back`, `adoption_executor.py:1182`), and `StartsAreGranted` and
`CleanupSparesManaged` fail under "stalls" (the flush says `WHERE id` only, and
`assert_lease` reads the snapshot of its own transaction). `DeploysAreGranted` and
`ReleasedVmIsGone` need neither assumption, and are proved without them.

Fairness, in `placement`: the scheduler starts cycles for ever and each goes on, sessions and
requests that began go on (`WF` of each); automatic reconciliation is switched on. No fairness for
guests, CloudStack, operators or failures. In `extension_fence`: time passes and a run that hangs is
killed (`WF`), and users keep asking for an operation that gets its turn (`SF` of its start and of the
recovery), so what stays fenced is not for lack of trying.

Fairness, in `nics`: the scheduler starts cycles for ever and their steps are made (`WF` of
`Sync`), and a session that began goes on (`WF` of `Session`); automatic reconciliation is
switched on. No fairness for changes, operators, failures or restarts.

Fairness, in `executor_progress`. The scheduler ticks for ever, so a worker
acquires again and again; CloudStack may fail any call, but not every time, so the
steps of a session are strongly fair; a session that began ends (requests have
timeouts), leases run out, and jobs end. Operators need do nothing, and CloudStack
need not run callbacks. `CHECK_DEADLOCK FALSE` is set for the registry and the executor
because they do come to rest: a released claim at the last generation, an execution that is over.

Runs that show a disagreement between the code and its documents:

- `write_mutex`: a reconciliation writes beside a bind callback, no lease expired,
  when the operator that lent its authority releases it; `database.py:205` calls the
  row a mutex of the two.
- `executor_failed`: a deploy job that fails and leaves no VM ends as `failed`, from where
  nothing leads to a release; `README.md:234` promises `cleanup_required`.
- `executor_cleanup`: the cleanup route accepts a VM with other NICs, the worker that
  follows it does not, and takes the execution back while the deletion runs; the claim
  stays in `cleanup` although the VM is absent.
- `nic_unmapped`: when the mapping of a bridge is deleted, the NIC on it is skipped before its
  row is looked up, and the row is removed as one "with no matching Proxmox MAC"
  (`sync_engine.py:1200`), although the guest still has that MAC and unmapped networks are
  said to be left alone (`sync_engine.py:1360`).
- `extension_fence`: an operation that is killed leaves its fence; when its lease has run out the
  script still asks `lifecycle-state` first, is told `operating`, and refuses, so that the recovery
  in the registry is not reached; `README.md:236` promises the fence for two hours.

`ExecutionSettles` has one exception, a claim that was retired under the execution: an
administrator starts the VM during a cleanup, the start binds the claim, the deletion
then retires it, and every later tick ends in an error. No document says what should
happen then.

Each property of a passing run has a mutant in `PROJECT.json`: a definition of the
model changed as a bug would change the code, under which TLC finds the property
violated. The mutated forms stand before their originals with a comment.

## 4. What is proved

For every value of the constants that satisfies the assumptions in the modules: any
number of guests, VMs, handlers, workers, jobs and writers, any clock bound.

`AdoptionRegistryProofs`, from `NoneIsNoValue` and `BoundsAreNaturals`. `IInv` is the type
invariant, the three safety invariants and three parts that make them
inductive: `RequestOK` (what the read of a pending request established and no later step
takes back: a bind carries the details frozen in its VM, the VM of a finalization is gone),
`LinksOK` (rows point at rows that exist) and `OwnerOK` (an unbound claim names no VM; the VM
that a claim names was bound and was deployed for that guest). Without `RequestOK` a
compare-and-set could bind any VM: its WHERE clause checks the generation and the manifest of
the claim, and only the earlier read ties them to the VM that asked. `RegistryTypeOK`,
`RegistryFenceMatchesLease`, `RegistryBoundVmCarriesClaim` and `RegistryLivingBoundVmKeepsClaim`
follow from `NextKeepsIInv`, which has one case for each action.

`AdoptionRegistryRefinement`, from the same assumptions. `LInv` adds to `IInv` what a handler knows of
a lease that it is about to take away (`EvictedLeaseHasExpired`: if that id is still in the row, the lease
has run out) and that ids are handed out once (`LeasesAreIssued`), so that no later operation can be
fenced by an id a slow handler has already condemned; `AbsentIsFresh` and `BeginsForVm` give the mapping its
initial generation and its caller. `RegistryLeaseEndsByHolderOrExpiry` follows, since the WHERE clauses compare ids and never
the expiry, `RegistryActivationFencedByWorker` from the guard that activation joins to its UPDATE, and
`RegistryImplementsLifecycle` step by step: a read, a plan, an execution or a worker lease is a stutter, and
each compare-and-set is the one step of the lifecycle with its name. The two modules together, this
and `ExtensionKeepsLifecycle`, are the contract from both sides.

`WriteAuthorityProofs`, from `WritersAreDistinct` and `AuthorityParameters`. `AInv` says where
the owner of the row can be (`OwnerInPlace`), that a clock once read is in the past
(`ReadsArePast`), and that who is covered by an unexpired guard is in the row
with at least that expiry (`OwnersCovered`), or borrows from the one who is
(`BorrowersCovered`), which is a writer that may lend (`LendersAdopt`). `ReadsArePast` is the
heart of it: an acquisition that read the clock long ago sees *more* leases as live
than there are, never fewer. `AuthoritySeparatesOwners`, `AuthoritySeparatesBorrowers`
and the action property `AuthorityKeepsLiveLease` follow.

`AdoptionExecutorProofs`, from `ExecutorConstants`, fenced or not and at every pace.
`DeploysWithinCredit` strengthens `DeploysAreGranted`: while the row is `planned`, or the session
named by its lease may still call `deployVirtualMachine` (`MayDeploy`), one submission is held in
reserve; and a session so named that is about to call has committed its state
(`CallerCommitted`), so the row does not hold the reserve twice. `ReleasedVmIsGone` needs `CleanupSawVm`: whoever is in a cleanup has seen the
VM, so that an absent VM is one that was expunged and not one that is yet to be created, and a session
that decided to roll back saw it gone. Results: `ExecutorTypes`,
`DeploysOnlyAsGranted`, `ReleaseRequiresAbsence`.

`StartsOnlyAsGranted` and `CleanupNeverMeetsManaged` are proved under `Separated`: fenced at any pace, or unfenced
and not "stalls". Nothing less will do, since both fail on the instance of `executor` when a worker stalls between
`assert_lease` and its flush. Their invariant `SlowInv` sorts the states into phases (deploying,
starting, verified, cleaning) that a row leaves in one direction only. The session that the authority or an unexpired lease is
behind is the one in the row (`LiveSessionHolds`), and the row is in the phase which that session has loaded
(`SessionInPhase`), so that what it stores cannot take the row back into a phase where a start is due;
a managed claim has a verified row (`ManagedIsVerified`), and a deletion asked for a cleaning one
(`DestroyIsCleaning`). `RolledBackForGood` is proved under `Fenced` alone, which it needs: `FinalInv` says
that no session of a route is open beside a worker's (`SidesApart`), so the worker that rolls back leaves no
late answer behind.

`ProxmoxExtensionProofs`, from `OperationsAreLeased`, `XBounds` and `NoneIsNoName`. `XInv` ties what
is known in four places: a fence is a lease as it was issued, on a managed claim (`FenceOK`); a
run that holds a lease is fenced by it while it lasts and has no task under way but its own
(`RunsOK`); two runs hold two leases (`HoldersDistinct`); a running task's guest is that
of its lease, and fenced while the lease lasts (`TasksOK`); a VM carries the details of a life that
has begun (`CarriedOK`), and one whose delete was acknowledged carries an ended life (`AckedOK`). All of
it says "while the lease lasts", since a delete or a recovery ends the fence of a dead lease under a run
that goes on. `TasksHoldTheirFence` and `AcknowledgedDeletesAreFinal` follow, and `ExtensionKeepsLifecycle`: the part that
is modelled by hand beside the contract takes only steps of the contract. `CompletedOperationsAreDone`
needs `DoneRest`: a run submits what its operation asks for (`AsksFor`), and once its task ended well the guest has the promised power
state until the completion (`Delivers`), as long as the run's lease lasts and no other lease is spoiled, that
is, ran out under its task (`SpoiledBy`). A spoiled lease stays so (`LateIsOver`), and a running task of an unspoiled
one fences another guest. That is why the property excuses tasks that ended late, and no others.

`OperatorRunnerProofs`, from `ExecutorConstants` and `RunnerConstants`, with the runner or the scheduled
executor at work. Every step of a run is a step of `AdoptionExecutor`, leaves it alone, or is one of six
of the run's own (`StepKinds`), which keep its `IInv` and, under `Separated`, its `SlowInv`:
`RunsDeployAsGranted`, `RunsReleaseAbsentVms`, `RunsStartAsGranted` and `RunsCleanupSparesManaged` follow. `BoundVmsExist` rests on `DeletionsAuthorized` (a deletion that may still
reach the VM has ended the claim first) and `BindersSawVm` (a run that is about to bind saw a VM that nothing
but the end of its claim can take away). `StoppedGuestsStayStopped` needs the whole way of such a guest, `StoppedSpared`:
runs exclude one another and only the session of the run inside is at work, so the row does not
move under a decision; no session loads or decides a state of a start; and the claim is bound only
while a run settles it or the row is verified (`BindingSettles`). This last part is what a run that dies
in between breaks, whence `torn`.

`NicReconciliationProofs`, from `NicConstants`. `NInv` is `NTypeOK` with the shape of what is about to be written,
`AutoInv` and `OneDefault`. The flag alone does not show that a snapshot is of this
cycle: a side may be passed over without an error, and the markers outlive the process. What carries
`AutomaticWritesAreFresh` is what the reset leaves behind: until the collection commits, no row that is current
is marked (`MarkersDown`), so a marked row in the automatic session was collected in this cycle
(`MarkersFresh`). `OneDefaultNic` needs no lock at all: the insertion of a default
NIC takes the mark from the others in its own transaction, whatever the drift said.

`PlacementSyncProofs`, from `PlacementConstants`, and for the last result from `PlacementIdentity`: a cluster
gives a VMID to one guest, a VM carries the VMID of the guest it stands for, and a CloudStack host does not span clusters.
- `PlacementTypes` and `CycleWritesWhatWasPolled` rest on `AutoInv`: once the poll of Proxmox went well, a
  row that is current is its answer (`RowsWerePolled`), and the flag is up in no phase before.
- `LinksStayMutual` rests on `ReadsAreCurrent`: the snapshot of a request or of `match_vms` that no commit
  has overtaken is what the tables hold, so writing only the changed columns is as good as writing the row.
- `EstablishedPairsStay` follows from the same: rows that nobody has overtaken are the rows `match_vms` decided
  on, an established pair has one VMID (`LinksHaveVmids`) and so passes for a relationship, and what
  the later passes link leaves such pairs out.
- `WritesStayAboutOwnGuest` says that what is decided or written for a VM is about its own guest until two
  requests to match or unmatch overlap: the condition is part of the property. It holds for any number of handlers,
  of cycles one after another, and of routes. Until then one request is in hand at a time
  (`OverlapIsSeen`), and `HomeInv` holds that rows and snapshots stay in their cluster (`InOwnCluster`), that a wrong mapping stands beside
  the right ones and is then not unique (`MappingsSound`), and that a mutual pair with a durable source on both
  sides is the true pair (`DurableAreHome`), in the tables and in the snapshot of the cycle. `match_vms` also links
  strangers, by name. That such a link never comes to look durable when a request commits columns over it is
  `MixedAreNames`, and it is this part that two overlapping requests break (section 5).

Only model-checked: the liveness properties (`ExecutionSettles`, `VerifiedIsManaged`, `AbsentVmEndsCleanup`,
`NicsConverge`, `LinksHeal`, `PlacementConverges`), which are beyond the prover. Every other property of a passing run is stated by a
theorem. What is proved for every value of the constants is proved of the models: the abstractions of
section 5 are not proved, and neither is that `WriteAuthority` gives `Fenced`, which is an argument about
timeouts.

To repeat: `tlc -config AdoptionRegistry.cfg MCAdoptionRegistry` and the same for the
other configurations (`PROJECT.json` names the module of each), `tlapm
AdoptionRegistryProofs.tla` and the same for the other seven.

## 5. What is abstracted

Names, hashes, manifests and plans are opaque values: two are equal or not. Validation of
request bodies, of canonical JSON and of signatures is left out, as are
authentication, logging and reports. `Seen` in `AdoptionExecutor` folds `_load_exact_vm`
and `_vm_matches_plan` into one verdict (absent, exact, differs in its NICs, differs);
which field differs is of no consequence to the code either. Database errors are
failures of the step that meets them. One execution is modelled, since
executions share nothing but the claim, which a unique constraint gives to one
of them for each generation. In `NicReconciliation` one guest and one VM stand for all pairs,
which share no rows; `linked` stands for all that `_relationship_mappings` asks of a pair; a bridge
stands for a bridge with its VLAN and the mapping that is found for it; the rows that a drift is
derived from are read at once; a guest has no two NICs with one MAC; netmask, gateway and the columns that are
copied from another NIC are left out, and so are previews, which write nothing. One process
is modelled: a second one would have a flag of its own.
The replies of handlers to their callers are not state.

In `PlacementSync` templates, containers and rows of other hypervisors are left out, and so are
suggestions, which write nothing. In `ProxmoxExtension` only VMs with adoption details are
modelled: an ordinary VM has no state but its Proxmox guest. The registry there is the contract,
not its handlers; `rollback` allows more VMs than have a cleanup; that CloudStack expunges a VM
only after its delete answered success is an assumption on CloudStack. In `OperatorRunner` an execution
begins planned: the preflight of a new candidate writes nothing, and reservation and creation are in
`AdoptionRegistry`. The job ids that a completed run attests are not kept, and neither are the reports;
callbacks come at any time, more than the authority lends. `adopt_all.py` calls `run_one` for one guest
after another.

What the code does, that the models show and no run states:

- The runner cannot resume an execution whose worker lease it left behind: `_validate_existing_state`
  (`adopt_one.py:432`) refuses a row with a lease, run out or not, and while the scheduled
  executor is disabled nothing takes the lease away.
- A run that dies between the bind and the UPDATE of `_recover_stopped_deployment` leaves a bound
  claim in `deploy_succeeded`; the next run takes it for a guest to start and submits
  `startVirtualMachine`, which the extension refuses (`proxmox.sh:681`). `torn` is this exception.
- The runner asks for the retry of an unknown start by itself (`adopt_one.py:985`); this counts as a
  grant in `StartsAreGranted`.
- A claim with an execution is bound by a VM deployed without a plan, since the execution is
  looked up by the id of the caller (`adoption_registry.py:373`).
- A failed poll, after which `match_vms` finds no rows, clears established links as well
  (`sync_engine.py:482`); the next good polls find them again by placement, unless the guest
  has migrated meanwhile. `EstablishedPairIsKept` is about pairs that both polls saw.
- A paused guest is written Stopped when its host differs, and the UPDATE does not ask for CloudStack's
  state of the moment. A VM written Stopped has no host, and is matched by its name only, which
  is never enough to write.
- A pair that both polls missed for a cycle keeps its NIC markers, and comes back linked before they are
  cleared (`sync_engine.py:639`, against `README.md:157`).
- Two requests that match linked pairs again, read before a cycle and committed after it, write only the
  `match_source` columns (`main.py:2365`). If `match_vms` in between linked the guest of the one to the VM of the other by
  name (`sync_engine.py:441`), that link is "manual" on both sides afterwards, and nothing tells it from one
  that an operator made; it may then be written from (against `README.md:12` and `README.md:16`). This is why `WritesAboutOwnGuest`
  ends with the first overlap (`~overlap`). Without that conjunct TLC violates it, with two requests and four changes (the
  guest of one pair goes, its VM stops, the VM of the other pair is removed, the stopped VM starts again): a behaviour of 29
  states, with more events than `placement` admits.
- A retry granted while the lost first deploy is still queued leaves two jobs with one UUID;
  CloudStack refuses the second (`adoption_executor.py:1015`).

## 6. What is left

1. Proofs: what may be said of `WritesAboutOwnGuest` after requests have overlapped, for instance that the pair was linked by an
   operator or by name; that an authority lease longer than every session gives `Fenced`.
2. Liveness of the runner, once a lease that ran out can be taken over.
3. Ordinary VMs of `proxmox.sh`: two concurrent creations that ask Proxmox for the next free VMID.
4. `adoption.py` as operators, against a reference definition of eligibility.
