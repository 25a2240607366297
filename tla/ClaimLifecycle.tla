--------------------------- MODULE ClaimLifecycle ---------------------------
(***************************************************************************)
(* What the claim registry promises its users, whatever requests race: one *)
(* life of one Proxmox guest at a time. In a life (a generation) at most   *)
(* one CloudStack VM ever owns the guest, one operation runs on it at a    *)
(* time, and the guest is given up only when no operation lease is live    *)
(* and the owner is gone.                                                  *)
(***************************************************************************)
EXTENDS Naturals

CONSTANTS Vmids, Refs, Leases, None

VARIABLES
    life,   \* for each guest: phase, generation and owner
    op,     \* for each guest: the operation lease that fences it
    gone,   \* the VMs that do not exist in CloudStack
    clock

lvars == <<life, op, gone, clock>>

NoLife == [phase |-> "absent", gen |-> 0, owner |-> None]
NoOp == [id |-> None, expires |-> 0]

LInit ==
    /\ life = [v \in Vmids |-> NoLife]
    /\ op = [v \in Vmids |-> NoOp]
    /\ gone = Refs
    /\ clock = 0

\* A guest is reserved for the first time, again while unowned, or again after
\* it was released; each reservation is a new generation.
Reserve(v) ==
    /\ \/ life[v].phase \in {"absent", "released"}
       \/ life[v].phase = "reserved" /\ life[v].owner = None
    /\ op[v] = NoOp
    /\ life' = [life EXCEPT ![v] = [phase |-> "reserved",
                                    gen |-> life[v].gen + 1, owner |-> None]]
    /\ UNCHANGED <<op, gone, clock>>

Move(v, from, to) ==
    /\ life[v].phase = from
    /\ life' = [life EXCEPT ![v].phase = to]
    /\ UNCHANGED <<gone, clock>>

Own(v, r) ==
    /\ life[v].phase = "reserved" /\ life[v].owner = None
    /\ \A w \in Vmids : life[w].owner # r
    /\ life' = [life EXCEPT ![v].phase = "bound", ![v].owner = r]
    /\ UNCHANGED <<op, gone, clock>>

Activate(v) == Move(v, "bound", "managed") /\ UNCHANGED op

BeginOp(v, l) ==
    /\ life[v].phase = "managed"
    /\ op[v] = NoOp
    /\ op'[v] \in [id : {l}, expires : Nat]
    /\ op' = [op EXCEPT ![v] = op'[v]]
    /\ UNCHANGED <<life, gone, clock>>

EndOp(v) ==
    /\ life[v].phase = "managed"
    /\ op[v] # NoOp
    /\ op' = [op EXCEPT ![v] = NoOp]
    /\ UNCHANGED <<life, gone, clock>>

\* Retirement never crosses a live operation.
Retire(v) ==
    /\ \/ Move(v, "bound", "retiring")
       \/ Move(v, "managed", "retiring")
    /\ op[v] = NoOp \/ op[v].expires <= clock
    /\ op' = [op EXCEPT ![v] = NoOp]

\* The owner stays recorded until the next reservation.
Release(v) ==
    /\ life[v].owner \in gone
    /\ Move(v, "retiring", "released")
    /\ UNCHANGED op

\* An unowned reservation is consumed by a rollback, then given up.
Rollback(v) ==
    /\ life[v].owner = None
    /\ \/ Move(v, "reserved", "cleanup")
       \/ Move(v, "cleanup", "released")
       \/ Move(v, "reserved", "released")
    /\ UNCHANGED op

CloudStack(r) ==
    /\ gone' = IF r \in gone THEN gone \ {r} ELSE gone \cup {r}
    /\ UNCHANGED <<life, op, clock>>

Advance == clock' = clock + 1 /\ UNCHANGED <<life, op, gone>>

LNext ==
    \/ \E v \in Vmids : Reserve(v) \/ Activate(v) \/ EndOp(v) \/ Retire(v)
                        \/ Release(v) \/ Rollback(v)
    \/ \E v \in Vmids, r \in Refs : Own(v, r)
    \/ \E v \in Vmids, l \in Leases : BeginOp(v, l)
    \/ \E r \in Refs : CloudStack(r)
    \/ Advance

LifecycleSpec == LInit /\ [][LNext]_lvars
=============================================================================
