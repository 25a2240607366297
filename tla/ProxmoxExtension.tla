-------------------------- MODULE ProxmoxExtension --------------------------
(***************************************************************************)
(* cloudstack-extension/Proxmox/proxmox.sh: the script CloudStack runs for *)
(* each action on an external VM, here on VMs that carry adoption details. *)
(* Every run is a process of its own on a management server; it talks to   *)
(* the claim registry and to Proxmox, waits for the Proxmox task it        *)
(* submitted, and may be killed, time out or lose an answer anywhere.      *)
(*                                                                         *)
(* The registry is the abstract ClaimLifecycle, which AdoptionRegistry is  *)
(* shown to implement: a registry call of the script is one of its steps.  *)
(* Console tickets, status queries and failed validations leave no trace   *)
(* but the script's own exit.                                              *)
(***************************************************************************)
EXTENDS Naturals

CONSTANTS
    Guests,      \* VMIDs of the Proxmox guests
    Refs,        \* CloudStack VMs that carry adoption details
    Leases,      \* operation lease ids (uuid4, never issued twice)
    Procs,       \* runs of the script that may overlap
    Operations,  \* the leased operations CloudStack requests
    None,
    LeaseTicks,  \* the two hours of an operation lease
    MaxGen, MaxClock  \* bounds on reservations and on the clock

LeasedOperations == {"start", "stop", "reboot", "snapshot", "restore", "console"}

ASSUME OperationsAreLeased == Operations \subseteq LeasedOperations
ASSUME XBounds ==
    /\ LeaseTicks \in Nat \ {0} /\ MaxGen \in Nat /\ MaxClock \in Nat
ASSUME NoneIsNoName == None \notin Guests \cup Refs \cup Leases

VARIABLES
    life, op, gone, clock,  \* the registry (ClaimLifecycle)
    carries,  \* the adoption details each CloudStack VM carries
    acked,    \* VMs whose delete action answered success
    rollback, \* VMs whose execution has a cleanup submitted
    run,      \* the script runs
    task,     \* the latest Proxmox task submitted under each lease
    power,    \* the power state of each guest
    leaseEnd  \* when each lease that was issued runs out (history), 0 if never

registry == <<life, op, gone, clock>>
cloudstack == <<carries, acked, rollback>>
proxmox == <<task, power>>
xvars == <<registry, cloudstack, proxmox, run, leaseEnd>>

Registry == INSTANCE ClaimLifecycle WITH Vmids <- Guests

NoDetails == [guest |-> None, gen |-> 0]
NoTask == [kind |-> "none", guest |-> None, status |-> "none", late |-> FALSE]
Ended == [at |-> "idle", act |-> "none", ref |-> None, lease |-> None,
          kind |-> "none"]

Kinds == {"start", "stop", "reboot", "snapshot", "rollback"}
Details == [guest : Guests \cup {None}, gen : Nat]
Task == [kind : Kinds \cup {"none"}, guest : Guests \cup {None},
         status : {"none", "running", "ok", "failed"}, late : BOOLEAN]
Run == [at : {"idle", "bind", "acquire", "granted", "submit", "wait",
              "verify", "complete", "retire"},
        act : LeasedOperations \cup {"none", "create", "delete"},
        ref : Refs \cup {None}, lease : Leases \cup {None},
        kind : Kinds \cup {"none"}]

XInit ==
    /\ Registry!LInit
    /\ carries = [r \in Refs |-> NoDetails]
    /\ acked = {} /\ rollback = {}
    /\ run = [p \in Procs |-> Ended]
    /\ task = [l \in Leases |-> NoTask]
    /\ power = [g \in Guests |-> "running"]
    /\ leaseEnd = [l \in Leases |-> 0]

----------------------------------------------------------------------------
(* What the registry sees of a request: the full identity of VM r.         *)

GuestOf(r) == carries[r].guest

IdentityOf(r) == GuestOf(r) \in Guests /\ life[GuestOf(r)].gen = carries[r].gen

Owns(r) == IdentityOf(r) /\ life[GuestOf(r)].owner = r

FenceExpired(g) == op[g] # Registry!NoOp /\ op[g].expires <= clock

\* lifecycle-state answers "managed": an operation lease makes it "operating",
\* expired or not.
ReadsManaged(r) ==
    /\ Owns(r) /\ life[GuestOf(r)].phase = "managed"
    /\ op[GuestOf(r)] = Registry!NoOp

----------------------------------------------------------------------------
(* The steps of a run.                                                     *)

Goto(p, s) == run' = [run EXCEPT ![p].at = s]
Exit(p) == run' = [run EXCEPT ![p] = Ended]

\* Mutant: a restore is submitted under its own name.
Mutation_Restore == [start |-> "start", stop |-> "stop", reboot |-> "reboot",
                     snapshot |-> "snapshot", restore |-> "restore",
                     console |-> "none"]

\* The Proxmox request each operation submits first; a console ticket is none.
Mutation == [start |-> "start", stop |-> "stop", reboot |-> "reboot",
             snapshot |-> "snapshot", restore |-> "rollback",
             console |-> "none"]

\* CloudStack starts an action on a VM it knows; what the script does before its
\* first effect is part of the start.
Started(p, r, act, at, kind) ==
    /\ run[p].at = "idle"
    /\ GuestOf(r) # None /\ r \notin gone
    /\ run' = [run EXCEPT ![p] = [Ended EXCEPT !.at = at, !.act = act,
                                               !.ref = r, !.kind = kind]]

\* prepare and create find the guest running.
StartCreate(p, r) ==
    /\ Started(p, r, "create", "bind", "none")
    /\ power[GuestOf(r)] = "running"
    /\ UNCHANGED <<registry, cloudstack, proxmox, leaseEnd>>

\* require_managed_adoption, also of start.
StartOperation(p, r, act) ==
    /\ Started(p, r, act, "acquire", Mutation[act])
    /\ ReadsManaged(r)
    /\ UNCHANGED <<registry, cloudstack, proxmox, leaseEnd>>

\* Any exit of a run before its end: a refused or lost call, a failed
\* validation, a task that failed or took longer than the wait time, a kill. The
\* answers that change nothing end here too: start of a bound claim, and the
\* completion of a lease that is gone.
Abandon(p) ==
    /\ run[p].at # "idle"
    /\ Exit(p)
    /\ UNCHANGED <<registry, cloudstack, proxmox, leaseEnd>>

\* bind_adoption_claim
Bind(p) ==
    LET r == run[p].ref
    IN /\ run[p].at = "bind"
       /\ IdentityOf(r) /\ Registry!Own(GuestOf(r), r)
       /\ Exit(p)
       /\ UNCHANGED <<cloudstack, proxmox, leaseEnd>>

\* begin_managed_adoption_operation: the registry first recovers the claim from
\* a lease that ran out since the check ...
Recover(p) ==
    LET g == GuestOf(run[p].ref)
    IN /\ run[p].at = "acquire"
       /\ Owns(run[p].ref) /\ FenceExpired(g) /\ Registry!EndOp(g)
       /\ UNCHANGED <<cloudstack, proxmox, run, leaseEnd>>

\* ... and issues a lease.
Acquire(p, l) ==
    LET g == GuestOf(run[p].ref)
        end == clock + LeaseTicks
    IN /\ run[p].at = "acquire"
       /\ leaseEnd[l] = 0 /\ end <= MaxClock
       /\ Owns(run[p].ref)
       /\ op' = [op EXCEPT ![g] = [id |-> l, expires |-> end]]
       /\ Registry!BeginOp(g, l)
       /\ leaseEnd' = [leaseEnd EXCEPT ![l] = end]
       /\ run' = [run EXCEPT ![p].at = "granted", ![p].lease = l]
       /\ UNCHANGED <<cloudstack, proxmox>>

\* The answer arrives: a lease that is over already is not used. A console
\* ticket is no task.
Receive(p) ==
    /\ run[p].at = "granted"
    /\ leaseEnd[run[p].lease] > clock
    /\ Goto(p, IF run[p].act = "console" THEN "complete" ELSE "submit")
    /\ UNCHANGED <<registry, cloudstack, proxmox, leaseEnd>>

\* execute_and_wait's request. The task may exist though its answer is lost.
Submit(p) ==
    LET l == run[p].lease
    IN /\ run[p].at = "submit"
       /\ task' = [task EXCEPT ![l] = [kind |-> run[p].kind,
                                       guest |-> GuestOf(run[p].ref),
                                       status |-> "running", late |-> FALSE]]
       /\ Goto(p, "wait") \/ Exit(p)
       /\ UNCHANGED <<registry, cloudstack, power, leaseEnd>>

\* Mutant: any answer about the task counts.
TaskDone_AnyStatus(t) == t.status # "none"
\* Mutant: the exit status of a stopped task is not looked at.
TaskDone_Stopped(t) == t.status \in {"ok", "failed"}

\* wait_for_proxmox_task returns only for a stopped task that exited OK.
TaskDone(t) == t.status = "ok"

Poll(p) ==
    /\ run[p].at = "wait"
    /\ TaskDone(task[run[p].lease])
    /\ Goto(p, IF run[p].kind = "rollback" THEN "verify" ELSE "complete")
    /\ UNCHANGED <<registry, cloudstack, proxmox, leaseEnd>>

\* Restoring a snapshot starts a guest that the rollback left stopped.
Verify(p) ==
    /\ run[p].at = "verify"
    /\ run' = IF power[GuestOf(run[p].ref)] = "running"
              THEN [run EXCEPT ![p].at = "complete"]
              ELSE [run EXCEPT ![p].at = "submit", ![p].kind = "start"]
    /\ UNCHANGED <<registry, cloudstack, proxmox, leaseEnd>>

\* complete_managed_adoption_operation.
Complete(p) ==
    LET g == GuestOf(run[p].ref)
    IN /\ run[p].at = "complete"
       /\ Owns(run[p].ref) /\ op[g].id = run[p].lease
       /\ Registry!EndOp(g)
       /\ Exit(p)
       /\ UNCHANGED <<cloudstack, proxmox, leaseEnd>>

\* authorize_cleanup_delete consumes the unbound reservation of an execution
\* that is being rolled back; exact duplicates succeed.
CleanupAuthorized(r) ==
    LET g == GuestOf(r)
    IN /\ r \in rollback
       /\ IdentityOf(r) /\ life[g].owner = None
       /\ \/ /\ life[g].phase = "reserved"
             /\ life' = [life EXCEPT ![g].phase = "cleanup"]
             /\ UNCHANGED <<op, gone, clock>>
          \/ life[g].phase = "cleanup" /\ UNCHANGED registry

\* delete asks for that authorization first; a refusal or a lost answer leads on
\* to the retirement.
StartDelete(p, r) ==
    /\ \/ /\ CleanupAuthorized(r) /\ acked' = acked \cup {r}
          /\ run[p].at = "idle" /\ r \notin gone /\ UNCHANGED run
       \/ /\ CleanupAuthorized(r) \/ UNCHANGED registry
          /\ Started(p, r, "delete", "retire", "none") /\ UNCHANGED acked
    /\ UNCHANGED <<carries, rollback, proxmox, leaseEnd>>

\* Mutant: the lease table is not consulted.
Retirable_AnyLease(g) == life[g].phase \in {"bound", "managed"}

Retirable(g) ==
    /\ life[g].phase \in {"bound", "managed"}
    /\ op[g] = Registry!NoOp \/ FenceExpired(g)

\* Mutant: the exit status of retire_adoption_claim is not looked at.
Retired_OrRefused(r) == UNCHANGED registry

\* The retire call succeeds; exact duplicates do.
Retired(r) ==
    LET g == GuestOf(r)
    IN /\ Owns(r)
       /\ \/ /\ Retirable(g)
             /\ life' = [life EXCEPT ![g].phase = "retiring"]
             /\ op' = [op EXCEPT ![g] = Registry!NoOp]
             /\ UNCHANGED <<gone, clock>>
          \/ life[g].phase = "retiring" /\ UNCHANGED registry

\* delete, second: retire_adoption_claim, whose answer may be lost.
RetireClaim(p) ==
    /\ run[p].at = "retire"
    /\ Retired(run[p].ref)
    /\ acked' \in {acked, acked \cup {run[p].ref}}
    /\ Exit(p)
    /\ UNCHANGED <<carries, rollback, proxmox, leaseEnd>>

----------------------------------------------------------------------------
(* Proxmox, the rest of the service, CloudStack and the clock.             *)

\* A task ends, possibly long after its script gave up. Rolling back leaves the
\* guest as the snapshot has it.
TaskEnds(l) ==
    LET t == task[l]
        g == t.guest
        late == leaseEnd[l] <= clock
        effect == CASE t.kind = "start" -> {"running"}
                    [] t.kind = "stop" -> {"stopped"}
                    [] t.kind = "rollback" -> {"running", "stopped"}
                    [] OTHER -> {power[g]}
    IN /\ t.status = "running"
       /\ \/ /\ t.kind = "reboot" => power[g] = "running"
             /\ \E e \in effect : power' = [power EXCEPT ![g] = e]
             /\ task' = [task EXCEPT ![l] = [NoTask EXCEPT !.status = "ok",
                                                           !.late = late]]
          \/ /\ task' = [task EXCEPT ![l] = [NoTask EXCEPT !.status = "failed",
                                                           !.late = late]]
             /\ UNCHANGED power
       /\ UNCHANGED <<registry, cloudstack, run, leaseEnd>>

Service(g) ==
    /\ \/ life[g].gen < MaxGen /\ Registry!Reserve(g)
       \/ Registry!Activate(g)
       \/ Registry!Release(g)
       \/ /\ life[g].phase = "cleanup" /\ Registry!Rollback(g)
          /\ \A r \in Refs : IdentityOf(r) => r \in gone
    /\ UNCHANGED <<cloudstack, proxmox, run, leaseEnd>>

\* A VM is deployed with the details of the reserved claim.
Deploy(r, g) ==
    /\ GuestOf(r) = None /\ life[g].phase = "reserved"
    /\ carries' = [carries EXCEPT ![r] = [guest |-> g, gen |-> life[g].gen]]
    /\ Registry!CloudStack(r)
    /\ UNCHANGED <<acked, rollback, proxmox, run, leaseEnd>>

RequestCleanup(r) ==
    /\ IdentityOf(r) /\ life[GuestOf(r)].phase = "reserved"
    /\ r \notin rollback
    /\ rollback' = rollback \cup {r}
    /\ UNCHANGED <<registry, carries, acked, proxmox, run, leaseEnd>>

\* CloudStack forgets a VM once the extension's delete succeeded.
Expunge(r) ==
    /\ r \in acked \ gone
    /\ Registry!CloudStack(r)
    /\ UNCHANGED <<cloudstack, proxmox, run, leaseEnd>>

Tick ==
    /\ clock < MaxClock
    /\ Registry!Advance
    /\ UNCHANGED <<cloudstack, proxmox, run, leaseEnd>>

----------------------------------------------------------------------------

Step(p) ==
    \/ Bind(p) \/ Recover(p) \/ Receive(p) \/ Submit(p) \/ Poll(p) \/ Verify(p)
    \/ Complete(p) \/ RetireClaim(p) \/ Abandon(p)
    \/ \E l \in Leases : Acquire(p, l)

CloudStackCalls(p) ==
    \E r \in Refs : \/ StartCreate(p, r) \/ StartDelete(p, r)
                    \/ \E act \in Operations : StartOperation(p, r, act)

World ==
    \/ \E l \in Leases : TaskEnds(l)
    \/ \E g \in Guests : Service(g)
    \/ \E r \in Refs, g \in Guests : Deploy(r, g)
    \/ \E r \in Refs : RequestCleanup(r) \/ Expunge(r)
    \/ Tick

XNext == (\E p \in Procs : Step(p) \/ CloudStackCalls(p)) \/ World

XSpec == XInit /\ [][XNext]_xvars

\* Time passes, a run ends, users repeat the operations for as long as the VM is
\* there, and a repeated call of the registry is not lost every single time.
XLiveSpec ==
    /\ XSpec
    /\ WF_clock(Tick)
    /\ \A p \in Procs : WF_run(Abandon(p))
    /\ \A r \in Refs, act \in Operations :
          SF_run(\E p \in Procs : StartOperation(p, r, act))
    /\ SF_op(\E p \in Procs : Recover(p))

----------------------------------------------------------------------------
(* Properties.                                                             *)

XTypeOK ==
    /\ life \in [Guests -> [phase : {"absent", "reserved", "bound", "managed",
                                     "retiring", "released", "cleanup"},
                            gen : Nat, owner : Refs \cup {None}]]
    /\ op \in [Guests -> [id : Leases \cup {None}, expires : Nat]]
    /\ gone \subseteq Refs /\ clock \in Nat
    /\ carries \in [Refs -> Details]
    /\ acked \subseteq Refs /\ rollback \subseteq Refs
    /\ run \in [Procs -> Run]
    /\ task \in [Leases -> Task]
    /\ power \in [Guests -> {"running", "stopped"}]
    /\ leaseEnd \in [Leases -> Nat]

\* While a Proxmox task runs and its operation lease has not run out, the claim
\* stays managed and fenced by exactly that lease, whoever was killed, timed
\* out, deleted the VM or asked for another operation meanwhile: retirement and
\* other operations never cross it.
TaskHoldsFence ==
    \A l \in Leases :
        (task[l].status = "running" /\ leaseEnd[l] > clock) =>
            /\ life[task[l].guest].phase = "managed"
            /\ op[task[l].guest].id = l

\* The power state an operation leaves behind.
Promised(act) == IF act = "stop" THEN {"stopped"}
                 ELSE IF act \in {"start", "reboot", "restore"} THEN {"running"}
                 ELSE {"running", "stopped"}

\* An operation that completes its lease reports what is true at that moment:
\* the guest has the power state it asked for, unless a task of another lease
\* outlived that lease.
CompletedMeansDone ==
    [][\A p \in Procs :
          LET l == run[p].lease
              g == GuestOf(run[p].ref)
          IN (/\ run[p].at = "complete" /\ op[g].id = l /\ op'[g].id = None
              /\ leaseEnd[l] > clock
              /\ \A k \in Leases \ {l} :
                    ~ task[k].late /\ task[k].status # "running")
             => power[g] \in Promised(run[p].act)]_xvars

\* A delete that CloudStack was told succeeded has ended the life of the VM's
\* claim, whichever of the two registry calls answered and however late: the VM
\* can neither bind nor operate the guest again.
AcknowledgedDeleteEndsLife ==
    \A r \in acked :
        Owns(r) => life[GuestOf(r)].phase \notin {"bound", "managed"}

\* Whatever a run, the executor and the finalizer ask of the registry at once is
\* a step of the one life per guest that the registry promises: the parts of this
\* module that write to the claim by themselves keep its contract.
KeepsLifecycle == Registry!LifecycleSpec

\* An operation lease fences its claim "for up to two hours"
\* (cloudstack-extension/Proxmox/README.md:116): when it has run out, repeated
\* operations get past it.
ExpiredFenceGivesWay ==
    \A g \in Guests : FenceExpired(g) ~> ~ FenceExpired(g)
=============================================================================
