-------------------------- MODULE AdoptionRegistry --------------------------
(***************************************************************************)
(* The durable claim registry of backend/adoption_registry.py: one row of  *)
(* adoption_claims per Proxmox (cluster, VMID), the adoption_operation_    *)
(* leases table, and the request handlers that move a claim through        *)
(*   reserved -> bound -> managed (-> operating -> managed)* -> retiring   *)
(*   -> released                                                           *)
(* Every handler is two steps, as in the code: a read that validates the   *)
(* row (XxxRead), then a compare-and-set UPDATE and commit (XxxCas).       *)
(* Between the two any other handler, the clock and CloudStack may move.   *)
(* A handler whose guard raises, whose UPDATE matches no row, or whose     *)
(* process dies, stops without a write (GiveUp); the retry loops of the    *)
(* code are a later read or another attempt at the same compare-and-set.   *)
(*                                                                         *)
(* The write authority of adoption_authority.py is NOT assumed: whatever   *)
(* holds here holds even when the authority lease lapses under a handler.  *)
(***************************************************************************)
EXTENDS Naturals

CONSTANTS
    Vmids,       \* Proxmox guests, one claim row each
    Refs,        \* CloudStack VM UUIDs; an execution id is the UUID of its VM
    Manifests,   \* canonical manifests (node and hash included)
    Leases,      \* operation lease ids (uuid4, never issued twice)
    Workers,     \* executor worker lease ids
    Procs,       \* concurrent request handlers
    None,        \* SQL NULL
    MaxGen,      \* bound on claim generations
    MaxClock,    \* bound on the clock
    LeaseTicks,  \* MANAGED_OPERATION_LEASE_DURATION
    WorkerTicks  \* adoption_executor_lease_seconds

ASSUME NoneIsNoValue ==
    None \notin Vmids \cup Refs \cup Manifests \cup Leases \cup Workers

ASSUME BoundsAreNaturals ==
    /\ MaxGen \in Nat /\ MaxClock \in Nat
    /\ LeaseTicks \in Nat \ {0} /\ WorkerTicks \in Nat \ {0}

VARIABLES
    claim,     \* adoption_claims, by VMID
    leaseRow,  \* adoption_operation_leases, by the claim they fence
    exec,      \* adoption_executions, by id: the columns the registry reads
    vm,        \* CloudStack VMs and the frozen adoption details they carry
    req,       \* the request each handler has read and not yet written
    holder,    \* the VM for whose operation a lease id was handed out
    bound,     \* the VMs that were ever bound (history, for the properties)
    now        \* the clock of the database and of the service

vars == <<claim, leaseRow, exec, vm, req, holder, bound, now>>

ClaimStates == {"absent", "reserved", "bound", "managed", "operating",
                "retiring", "released", "cleanup"}
LifecycleStates == {"bound", "managed", "operating", "retiring"}

Claim == [state : ClaimStates, gen : Nat, manifest : Manifests \cup {None},
          ref : Refs \cup {None}, fence : Leases \cup {None}]
LeaseRow == [id : Leases \cup {None}, gen : Nat, expires : Nat]
Exec == [phase : {"none", "running", "verifying", "cleanup_required",
                  "cleaning", "over"},
         vmid : Vmids \cup {None}, gen : Nat, manifest : Manifests \cup {None},
         worker : Workers \cup {None}, expires : Nat]
Vm == [life : {"none", "alive", "gone"}, vmid : Vmids \cup {None}, gen : Nat,
       manifest : Manifests \cup {None}, proof : BOOLEAN]
Ops == {"idle", "refresh", "reclaim", "bind", "activate", "recover", "begin",
        "complete", "retire", "finalize", "execute", "authorize", "rollback"}
Request == [op : Ops, vmid : Vmids \cup {None}, ref : Refs \cup {None},
            gen : Nat, manifest : Manifests \cup {None},
            lease : Leases \cup {None}, worker : Workers \cup {None}, at : Nat]

NoClaim == [state |-> "absent", gen |-> 0, manifest |-> None, ref |-> None,
            fence |-> None]
NoLease == [id |-> None, gen |-> 0, expires |-> 0]
NoExec == [phase |-> "none", vmid |-> None, gen |-> 0, manifest |-> None,
           worker |-> None, expires |-> 0]
NoVm == [life |-> "none", vmid |-> None, gen |-> 0, manifest |-> None,
         proof |-> FALSE]
Idle == [op |-> "idle", vmid |-> None, ref |-> None, gen |-> 0,
         manifest |-> None, lease |-> None, worker |-> None, at |-> 0]

Init ==
    /\ claim = [v \in Vmids |-> NoClaim]
    /\ leaseRow = [v \in Vmids |-> NoLease]
    /\ exec = [r \in Refs |-> NoExec]
    /\ vm = [r \in Refs |-> NoVm]
    /\ req = [p \in Procs |-> Idle]
    /\ holder = [l \in Leases |-> None]
    /\ bound = {}
    /\ now = 0

----------------------------------------------------------------------------
(* Predicates of the handlers.                                             *)

\* The callback of VM r presents the identity frozen in its details; it must
\* agree with the claim row (generation, cluster, node, VMID, manifest).
IdentityMatches(r, c) ==
    /\ vm[r].vmid # None
    /\ c.gen = vm[r].gen
    /\ c.manifest = vm[r].manifest

\* validated_claim_state: the full identity, bound to exactly this VM.
LifecycleIdentity(r, c) ==
    IdentityMatches(r, c) /\ c.ref = r /\ c.state \in LifecycleStates

\* _execution_callback_binding_matches, after the lookup by (id, claim,
\* generation): a VM with an execution must attest its plan, one without must
\* attest nothing.
CallbackBindingMatches(r) ==
    LET found == /\ exec[r].phase # "none"
                 /\ exec[r].vmid = vm[r].vmid
                 /\ exec[r].gen = vm[r].gen
    IN vm[r].proof = found

\* Mutant: any lease row counts as expired.
LeaseExpired_Always(row) == row.id # None

LeaseExpired(row) == row.id # None /\ row.expires <= now

Unbound(c) == c.ref = None

HasExecution(v) == \E r \in Refs : exec[r].phase # "none" /\ exec[r].vmid = v

WorkerCurrent(r, w) == exec[r].worker = w /\ w # None /\ exec[r].expires > now

----------------------------------------------------------------------------
(* Request plumbing.                                                       *)

Begin(p, r) == req[p].op = "idle" /\ req' = [req EXCEPT ![p] = r]
Done(p) == req' = [req EXCEPT ![p] = Idle]

SetClaim(v, c) == claim' = [claim EXCEPT ![v] = c]

OnlyReads == UNCHANGED <<claim, leaseRow, exec, vm, holder, bound, now>>

\* A guard raised, the UPDATE matched no row, or the process died.
GiveUp(p) == req[p].op # "idle" /\ Done(p) /\ OnlyReads

----------------------------------------------------------------------------
(* reserve_claim                                                           *)

\* The INSERT wins the (cluster, VMID) uniqueness race.
ReserveInsert(v, m) ==
    /\ claim[v].state = "absent"
    /\ SetClaim(v, [NoClaim EXCEPT !.state = "reserved", !.gen = 1,
                                   !.manifest = m])
    /\ UNCHANGED <<leaseRow, exec, vm, req, holder, bound, now>>

\* The INSERT lost: load the row and choose between refreshing an unused
\* reservation and reclaiming a released one.
ReserveRead(p, v, m) ==
    LET c == claim[v]
        R(op) == [Idle EXCEPT !.op = op, !.vmid = v, !.gen = c.gen,
                              !.manifest = m]
    IN /\ c.gen < MaxGen
       /\ \/ /\ c.state = "reserved" /\ Unbound(c) /\ c.fence = None
             /\ c.manifest # m
             /\ ~HasExecution(v)
             /\ Begin(p, R("refresh"))
          \/ /\ c.state = "released"
             /\ Begin(p, R("reclaim"))
       /\ OnlyReads

RefreshCas(p) ==
    LET q == req[p]
        c == claim[q.vmid]
    IN /\ q.op = "refresh"
       /\ c.state = "reserved" /\ c.gen = q.gen /\ Unbound(c) /\ c.fence = None
       /\ ~HasExecution(q.vmid)
       /\ SetClaim(q.vmid, [c EXCEPT !.manifest = q.manifest, !.gen = q.gen + 1])
       /\ Done(p)
       /\ UNCHANGED <<leaseRow, exec, vm, holder, bound, now>>

\* Mutant: the WHERE clause forgets the generation that was read.
ReclaimWhere_AnyGeneration(q, c) == c.state = "released"

ReclaimWhere(q, c) == c.state = "released" /\ c.gen = q.gen

ReclaimCas(p) ==
    LET q == req[p]
        c == claim[q.vmid]
    IN /\ q.op = "reclaim"
       /\ ReclaimWhere(q, c)
       /\ SetClaim(q.vmid, [c EXCEPT !.state = "reserved", !.gen = q.gen + 1,
                                     !.manifest = q.manifest, !.ref = None])
       /\ Done(p)
       /\ UNCHANGED <<leaseRow, exec, vm, holder, bound, now>>

----------------------------------------------------------------------------
(* bind_claim: the prepare/create callback of VM r.                        *)

BindRead(p, r) ==
    LET v == vm[r].vmid
    IN /\ vm[r].life = "alive"
       /\ CallbackBindingMatches(r)
       /\ IdentityMatches(r, claim[v])
       /\ claim[v].state = "reserved"
       /\ Begin(p, [Idle EXCEPT !.op = "bind", !.vmid = v, !.ref = r,
                                !.gen = vm[r].gen, !.manifest = vm[r].manifest])
       /\ OnlyReads

\* Mutant: the WHERE clause forgets the generation.
BindWhere_AnyGeneration(q, c) ==
    c.state = "reserved" /\ c.manifest = q.manifest /\ Unbound(c)

BindWhere(q, c) ==
    /\ c.state = "reserved" /\ c.gen = q.gen
    /\ c.manifest = q.manifest /\ Unbound(c)

\* The UPDATE also meets the unique constraint on cloudstack_vm_ref.
BindCas(p) ==
    LET q == req[p]
        c == claim[q.vmid]
    IN /\ q.op = "bind"
       /\ BindWhere(q, c)
       /\ \A w \in Vmids : claim[w].ref # q.ref
       /\ SetClaim(q.vmid, [c EXCEPT !.state = "bound", !.ref = q.ref])
       /\ bound' = bound \cup {q.ref}
       /\ Done(p)
       /\ UNCHANGED <<leaseRow, exec, vm, holder, now>>

----------------------------------------------------------------------------
(* activate_bound_claim, called with the worker lease of the execution.    *)

ActivateRead(p, r) ==
    LET v == exec[r].vmid
    IN /\ exec[r].phase = "verifying" /\ exec[r].worker # None
       /\ claim[v].gen = exec[r].gen /\ claim[v].ref = r
       /\ claim[v].state = "bound"
       /\ Begin(p, [Idle EXCEPT !.op = "activate", !.vmid = v, !.ref = r,
                                !.gen = exec[r].gen, !.worker = exec[r].worker])
       /\ OnlyReads

\* Mutant: the EXISTS clause forgets the worker lease.
ActivateWhere_AnyWorker(q, c) ==
    /\ exec[q.ref].phase = "verifying"
    /\ c.state = "bound" /\ c.gen = q.gen /\ c.ref = q.ref

\* The execution row is locked FOR UPDATE and re-checked by the EXISTS clause.
ActivateWhere(q, c) ==
    /\ exec[q.ref].phase = "verifying"
    /\ exec[q.ref].vmid = q.vmid /\ exec[q.ref].gen = q.gen
    /\ WorkerCurrent(q.ref, q.worker)
    /\ c.state = "bound" /\ c.gen = q.gen /\ c.ref = q.ref

ActivateCas(p) ==
    LET q == req[p]
        c == claim[q.vmid]
    IN /\ q.op = "activate"
       /\ ActivateWhere(q, c)
       /\ SetClaim(q.vmid, [c EXCEPT !.state = "managed"])
       /\ Done(p)
       /\ UNCHANGED <<leaseRow, exec, vm, holder, bound, now>>

----------------------------------------------------------------------------
(* acquire_managed_operation_lease: one round of its loop, as a recovery   *)
(* of the expired lease of a dead operation or as a fence of its own.      *)

AcquireRead(p, r) ==
    LET v == vm[r].vmid
        R(op, l) == [Idle EXCEPT !.op = op, !.vmid = v, !.ref = r,
                                 !.gen = vm[r].gen, !.lease = l, !.at = now]
    IN /\ v # None
       /\ LifecycleIdentity(r, claim[v])
       /\ \/ /\ claim[v].state = "operating"
             /\ claim[v].fence # None
             /\ leaseRow[v].id = claim[v].fence
             /\ LeaseExpired(leaseRow[v])
             /\ Begin(p, R("recover", leaseRow[v].id))
          \/ /\ claim[v].state = "managed"
             /\ Begin(p, R("begin", None))
       /\ OnlyReads

RecoverCas(p) ==
    LET q == req[p]
        c == claim[q.vmid]
    IN /\ q.op = "recover"
       /\ c.state = "operating" /\ c.gen = q.gen /\ c.fence = q.lease
       /\ SetClaim(q.vmid, [c EXCEPT !.state = "managed", !.fence = None])
       /\ leaseRow' = IF leaseRow[q.vmid].id = q.lease
                      THEN [leaseRow EXCEPT ![q.vmid] = NoLease] ELSE leaseRow
       /\ Done(p)
       /\ UNCHANGED <<exec, vm, holder, bound, now>>

\* Mutant: the lease row is stored without an expiry.
NewLease_NoExpiry(q, l) == [id |-> l, gen |-> q.gen, expires |-> None]

NewLease(q, l) == [id |-> l, gen |-> q.gen, expires |-> q.at + LeaseTicks]

\* leaseRow[v] must be empty: unique constraint on claim_id.
FenceCas(p, l) ==
    LET q == req[p]
        c == claim[q.vmid]
    IN /\ q.op = "begin"
       /\ holder[l] = None
       /\ c.state = "managed" /\ c.gen = q.gen /\ c.fence = None
       /\ leaseRow[q.vmid].id = None
       /\ SetClaim(q.vmid, [c EXCEPT !.state = "operating", !.fence = l])
       /\ leaseRow' = [leaseRow EXCEPT ![q.vmid] = NewLease(q, l)]
       /\ holder' = [holder EXCEPT ![l] = q.ref]
       /\ Done(p)
       /\ UNCHANGED <<exec, vm, bound, now>>

----------------------------------------------------------------------------
(* complete_managed_operation_lease: however late the holder of l calls.   *)

CompleteRead(p, l) ==
    LET r == holder[l]
        v == vm[r].vmid
    IN /\ r # None
       /\ LifecycleIdentity(r, claim[v])
       /\ leaseRow[v].id = l /\ leaseRow[v].gen = vm[r].gen
       /\ Begin(p, [Idle EXCEPT !.op = "complete", !.vmid = v, !.ref = r,
                                !.gen = vm[r].gen, !.lease = l])
       /\ OnlyReads

\* Mutant: the WHERE clause forgets which fence is being cleared.
CompleteWhere_AnyFence(q, c) == c.state = "operating" /\ c.gen = q.gen

CompleteWhere(q, c) ==
    c.state = "operating" /\ c.gen = q.gen /\ c.fence = q.lease

\* session.delete(lease) removes the row by its primary key.
CompleteCas(p) ==
    LET q == req[p]
        c == claim[q.vmid]
    IN /\ q.op = "complete"
       /\ CompleteWhere(q, c)
       /\ SetClaim(q.vmid, [c EXCEPT !.state = "managed", !.fence = None])
       /\ leaseRow' = IF leaseRow[q.vmid].id = q.lease
                      THEN [leaseRow EXCEPT ![q.vmid] = NoLease] ELSE leaseRow
       /\ Done(p)
       /\ UNCHANGED <<exec, vm, holder, bound, now>>

----------------------------------------------------------------------------
(* retire_claim: the delete callback of VM r. q.lease = None when the      *)
(* claim was read bound or managed, the expired fence when operating.      *)

RetireRead(p, r) ==
    LET v == vm[r].vmid
        c == claim[v]
    IN /\ v # None
       /\ IdentityMatches(r, c) /\ c.ref = r
       /\ \/ /\ c.state = "operating" /\ c.fence # None
             /\ leaseRow[v].id = c.fence /\ LeaseExpired(leaseRow[v])
          \/ c.state \in {"bound", "managed"} /\ c.fence = None
       /\ Begin(p, [Idle EXCEPT !.op = "retire", !.vmid = v, !.ref = r,
                                !.gen = c.gen, !.manifest = c.manifest,
                                !.lease = c.fence])
       /\ OnlyReads

\* source_state is "operating" exactly when a fence was read.
RetireCas(p) ==
    LET q == req[p]
        c == claim[q.vmid]
    IN /\ q.op = "retire"
       /\ IF q.lease = None THEN c.state \in {"bound", "managed"}
                            ELSE c.state = "operating"
       /\ c.gen = q.gen /\ c.fence = q.lease
       /\ c.manifest = q.manifest /\ c.ref = q.ref
       /\ SetClaim(q.vmid, [c EXCEPT !.state = "retiring", !.fence = None])
       /\ leaseRow' = IF q.lease # None /\ leaseRow[q.vmid].id = q.lease
                      THEN [leaseRow EXCEPT ![q.vmid] = NoLease] ELSE leaseRow
       /\ Done(p)
       /\ UNCHANGED <<exec, vm, holder, bound, now>>

----------------------------------------------------------------------------
(* finalize-release: the route proves the VM absent, then                  *)
(* finalize_retiring_claim releases the tombstone.                         *)

\* Mutant: the tombstone is finalized without asking CloudStack.
VmProvenAbsent_Assumed(r) == vm[r].life # "none"

VmProvenAbsent(r) == vm[r].life # "alive"

FinalizeRead(p, v) ==
    LET c == claim[v]
    IN /\ c.state = "retiring" /\ c.ref # None
       /\ VmProvenAbsent(c.ref)
       /\ Begin(p, [Idle EXCEPT !.op = "finalize", !.vmid = v, !.ref = c.ref,
                                !.gen = c.gen])
       /\ OnlyReads

FinalizeCas(p) ==
    LET q == req[p]
        c == claim[q.vmid]
    IN /\ q.op = "finalize"
       /\ c.state = "retiring" /\ c.gen = q.gen /\ c.ref = q.ref
       /\ SetClaim(q.vmid, [c EXCEPT !.state = "released"])
       /\ Done(p)
       /\ UNCHANGED <<leaseRow, exec, vm, holder, bound, now>>

----------------------------------------------------------------------------
(* The executor's side of the claim (adoption_executor.py).                *)

\* create_execution: the claim and the absence of an execution are read ...
ExecuteRead(p, v) ==
    LET c == claim[v]
    IN /\ c.state = "reserved"
       /\ \A r \in Refs : ~(exec[r].phase # "none" /\ exec[r].vmid = v
                                                  /\ exec[r].gen = c.gen)
       /\ Begin(p, [Idle EXCEPT !.op = "execute", !.vmid = v, !.gen = c.gen,
                                !.manifest = c.manifest])
       /\ OnlyReads

\* ... and the row is inserted under a fresh id (unique per claim, generation).
ExecuteInsert(p, r) ==
    LET q == req[p]
    IN /\ q.op = "execute"
       /\ exec[r].phase = "none" /\ vm[r].life = "none"
       /\ \A s \in Refs : ~(exec[s].phase # "none" /\ exec[s].vmid = q.vmid
                                                  /\ exec[s].gen = q.gen)
       /\ exec' = [exec EXCEPT ![r] =
                     [NoExec EXCEPT !.phase = "running", !.vmid = q.vmid,
                                    !.gen = q.gen, !.manifest = q.manifest]]
       /\ Done(p)
       /\ UNCHANGED <<claim, leaseRow, vm, holder, bound, now>>

\* acquire_execution: a worker takes the row when no lease on it is current.
ExecAcquire(r, w) ==
    /\ exec[r].phase \in {"running", "verifying", "cleaning"}
    /\ exec[r].worker = None \/ exec[r].expires < now
    /\ \A s \in Refs : exec[s].worker # w
    /\ \A p \in Procs : req[p].worker # w
    /\ exec' = [exec EXCEPT ![r].worker = w, ![r].expires = now + WorkerTicks]
    /\ UNCHANGED <<claim, leaseRow, vm, req, holder, bound, now>>

\* The phases an execution's states fall into, and how they follow.
PhaseStep ==
    [running |-> {"running", "verifying", "cleanup_required", "over"},
     verifying |-> {"verifying", "over"},
     cleanup_required |-> {"cleaning"},
     cleaning |-> {"cleaning", "cleanup_required"}]

\* _save: the worker stores the next state and frees its lease.
ExecStep(r, phase) ==
    /\ exec[r].phase \in DOMAIN PhaseStep
    /\ phase \in PhaseStep[exec[r].phase]
    /\ exec' = [exec EXCEPT ![r].phase = phase, ![r].worker = None,
                            ![r].expires = 0]
    /\ UNCHANGED <<claim, leaseRow, vm, req, holder, bound, now>>

CleanupIdentity(r, v) ==
    /\ exec[r].phase = "cleaning" /\ exec[r].vmid = v
    /\ claim[v].gen = exec[r].gen /\ Unbound(claim[v])

\* authorize_cleanup_delete consumes the unbound reservation.
AuthorizeRead(p, r) ==
    LET v == vm[r].vmid
    IN /\ v # None
       /\ CleanupIdentity(r, v) /\ IdentityMatches(r, claim[v])
       /\ claim[v].state = "reserved"
       /\ Begin(p, [Idle EXCEPT !.op = "authorize", !.vmid = v, !.ref = r,
                                !.gen = vm[r].gen, !.manifest = vm[r].manifest])
       /\ OnlyReads

AuthorizeCas(p) ==
    LET q == req[p]
        c == claim[q.vmid]
    IN /\ q.op = "authorize"
       /\ exec[q.ref].phase = "cleaning"
       /\ c.state = "reserved" /\ c.gen = q.gen /\ c.manifest = q.manifest
       /\ Unbound(c)
       /\ SetClaim(q.vmid, [c EXCEPT !.state = "cleanup"])
       /\ Done(p)
       /\ UNCHANGED <<leaseRow, exec, vm, holder, bound, now>>

\* _finalize_cleanup_release: the worker saw no VM, then releases claim and
\* execution in one transaction.
RollbackRead(p, r) ==
    LET v == exec[r].vmid
    IN /\ exec[r].phase = "cleaning" /\ vm[r].life # "alive"
       /\ exec[r].worker # None /\ exec[r].expires >= now
       /\ CleanupIdentity(r, v)
       /\ claim[v].state \in {"reserved", "cleanup"}
       /\ Begin(p, [Idle EXCEPT !.op = "rollback", !.vmid = v, !.ref = r,
                                !.gen = exec[r].gen, !.worker = exec[r].worker])
       /\ OnlyReads

RollbackCas(p) ==
    LET q == req[p]
        c == claim[q.vmid]
    IN /\ q.op = "rollback"
       /\ exec[q.ref].phase = "cleaning" /\ exec[q.ref].worker = q.worker
       /\ c.gen = q.gen /\ c.state \in {"reserved", "cleanup"} /\ Unbound(c)
       /\ SetClaim(q.vmid, [c EXCEPT !.state = "released"])
       /\ exec' = [exec EXCEPT ![q.ref].phase = "over", ![q.ref].worker = None,
                               ![q.ref].expires = 0]
       /\ Done(p)
       /\ UNCHANGED <<leaseRow, vm, holder, bound, now>>

----------------------------------------------------------------------------
(* CloudStack and the clock.                                               *)

\* deployVirtualMachine with customid = the execution id: the plan's details.
DeployExecution(r) ==
    /\ exec[r].phase = "running" /\ vm[r].life = "none"
    /\ vm' = [vm EXCEPT ![r] = [life |-> "alive", vmid |-> exec[r].vmid,
                                gen |-> exec[r].gen,
                                manifest |-> exec[r].manifest, proof |-> TRUE]]
    /\ UNCHANGED <<claim, leaseRow, exec, req, holder, bound, now>>

\* An operator deploys a VM by hand with the details of a reserved claim.
DeployLegacy(r, v) ==
    /\ exec[r].phase = "none" /\ vm[r].life = "none"
    /\ claim[v].state = "reserved"
    /\ vm' = [vm EXCEPT ![r] = [life |-> "alive", vmid |-> v,
                                gen |-> claim[v].gen,
                                manifest |-> claim[v].manifest,
                                proof |-> FALSE]]
    /\ UNCHANGED <<claim, leaseRow, exec, req, holder, bound, now>>

\* CloudStack expunges a VM. An expunged UUID never comes back.
ExpungeVm(r) ==
    /\ vm[r].life = "alive"
    /\ vm' = [vm EXCEPT ![r].life = "gone"]
    /\ UNCHANGED <<claim, leaseRow, exec, req, holder, bound, now>>

Tick ==
    /\ now < MaxClock
    /\ now' = now + 1
    /\ UNCHANGED <<claim, leaseRow, exec, vm, req, holder, bound>>

----------------------------------------------------------------------------

Handler(p) ==
    \/ \E v \in Vmids, m \in Manifests : ReserveRead(p, v, m)
    \/ \E r \in Refs : \/ BindRead(p, r) \/ ActivateRead(p, r)
                       \/ AcquireRead(p, r) \/ RetireRead(p, r)
                       \/ AuthorizeRead(p, r) \/ RollbackRead(p, r)
                       \/ ExecuteInsert(p, r)
    \/ \E l \in Leases : CompleteRead(p, l) \/ FenceCas(p, l)
    \/ \E v \in Vmids : FinalizeRead(p, v) \/ ExecuteRead(p, v)
    \/ RefreshCas(p) \/ ReclaimCas(p) \/ BindCas(p) \/ ActivateCas(p)
    \/ RecoverCas(p) \/ CompleteCas(p) \/ RetireCas(p) \/ FinalizeCas(p)
    \/ AuthorizeCas(p) \/ RollbackCas(p)
    \/ GiveUp(p)

Environment ==
    \/ \E v \in Vmids, m \in Manifests : ReserveInsert(v, m)
    \/ \E r \in Refs, w \in Workers : ExecAcquire(r, w)
    \/ \E r \in Refs, phase \in {"running", "verifying", "cleanup_required",
                                 "cleaning", "over"} : ExecStep(r, phase)
    \/ \E r \in Refs : DeployExecution(r) \/ ExpungeVm(r)
    \/ \E r \in Refs, v \in Vmids : DeployLegacy(r, v)
    \/ Tick

Next == (\E p \in Procs : Handler(p)) \/ Environment

Spec == Init /\ [][Next]_vars

----------------------------------------------------------------------------
(* Properties.                                                             *)

\* Every table and every request in flight holds values of its columns' types.
TypeOK ==
    /\ claim \in [Vmids -> Claim]
    /\ leaseRow \in [Vmids -> LeaseRow]
    /\ exec \in [Refs -> Exec]
    /\ vm \in [Refs -> Vm]
    /\ req \in [Procs -> Request]
    /\ holder \in [Leases -> Refs \cup {None}]
    /\ bound \subseteq Refs
    /\ now \in Nat

\* The fence column and the lease table agree: a claim is operating exactly
\* when the one lease row of that claim carries its fence and generation, so a
\* late completion, a recovery and a retirement racing each other never leave a
\* fence nobody can clear or a lease that fences nothing.
FenceMatchesLease ==
    \A v \in Vmids :
        IF claim[v].state = "operating"
        THEN /\ claim[v].fence # None
             /\ leaseRow[v].id = claim[v].fence
             /\ leaseRow[v].gen = claim[v].gen
        ELSE claim[v].fence = None /\ leaseRow[v] = NoLease

\* The VM a claim is bound to carries that claim's VMID, generation and
\* manifest: a prepare callback delayed across a refresh or a re-reservation
\* never attaches an older VM to the newer generation.
BoundVmCarriesClaim ==
    \A v \in Vmids :
        claim[v].state \in LifecycleStates =>
            /\ claim[v].ref # None
            /\ vm[claim[v].ref].vmid = v
            /\ vm[claim[v].ref].gen = claim[v].gen
            /\ vm[claim[v].ref].manifest = claim[v].manifest

\* A VM that was bound and still exists in CloudStack still owns its guest:
\* the claim is not released, let alone reserved for another VM, under it.
LivingBoundVmKeepsClaim ==
    \A r \in bound :
        vm[r].life = "alive" =>
            /\ claim[vm[r].vmid].ref = r
            /\ claim[vm[r].vmid].state \in LifecycleStates

\* An operation lease ends only by the completion of that very lease or after
\* its expiry: no other operation and no retirement takes a live one away.
LeaseEndsByHolderOrExpiry ==
    [][\A v \in Vmids :
          (leaseRow[v].id # None /\ leaseRow'[v] # leaseRow[v]) =>
             \/ leaseRow[v].expires <= now
             \/ \E p \in Procs : /\ req[p].op = "complete"
                                  /\ req[p].lease = leaseRow[v].id
                                  /\ req'[p].op = "idle"]_vars

\* A claim becomes managed only while the verifying execution of its own VM and
\* generation is leased, unexpired, to the worker that asked: a worker whose
\* lease lapsed or was taken over between its checks and its UPDATE loses.
ActivationFencedByWorker ==
    [][\A v \in Vmids :
          (claim[v].state = "bound" /\ claim'[v].state = "managed") =>
             LET r == claim[v].ref
             IN /\ exec[r].phase = "verifying"
                /\ exec[r].vmid = v /\ exec[r].gen = claim[v].gen
                /\ \E p \in Procs : /\ req[p].op = "activate"
                                     /\ req'[p].op = "idle"
                                     /\ req[p].worker = exec[r].worker
                                     /\ exec[r].expires > now]_vars

\* The registry implements the lifecycle it promises: "operating" is a managed
\* claim whose operation lease is set.
Lifecycle == INSTANCE ClaimLifecycle WITH
    life <- [v \in Vmids |->
               [phase |-> IF claim[v].state = "operating" THEN "managed"
                          ELSE claim[v].state,
                gen |-> claim[v].gen, owner |-> claim[v].ref]],
    op <- [v \in Vmids |-> [id |-> leaseRow[v].id,
                            expires |-> leaseRow[v].expires]],
    gone <- {r \in Refs : vm[r].life # "alive"},
    clock <- now

\* Every step of every handler is a step of the abstract lifecycle, or hidden.
ImplementsLifecycle == Lifecycle!LifecycleSpec
=============================================================================
