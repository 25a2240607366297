----------------------- MODULE ProxmoxExtensionProofs -----------------------
(***************************************************************************)
(* Proofs about the extension script, for every set of guests, VMs, leases *)
(* and overlapping runs: what a run and a Proxmox task may rely on while   *)
(* the operation lease they were started under has not run out, and what   *)
(* an acknowledged delete settles for good. XInv is inductive; DoneRest is *)
(* what it needs beside it for what a completion reports.                  *)
(***************************************************************************)
EXTENDS ProxmoxExtension, TLAPS

Holding == {"granted", "submit", "wait", "verify", "complete"}

\* As long as lease l lasts it is the fence of guest g.
Fences(l, g) == leaseEnd[l] > clock => op[g].id = l

\* A fence is a lease that was issued, as the registry issued it, on a managed
\* claim.
FenceOK ==
    \A g \in Guests :
        op[g] # Registry!NoOp =>
            /\ op[g].id \in Leases /\ leaseEnd[op[g].id] # 0
            /\ op[g].expires = leaseEnd[op[g].id]
            /\ life[g].phase = "managed"

\* A run holds a lease from its grant to its end, with no task under way except
\* the one it waits for.
RunFacts(q) ==
    /\ q.at # "idle" => q.ref \in Refs /\ GuestOf(q.ref) \in Guests
    /\ q.at \notin Holding => q.lease = None
    /\ q.at \in Holding =>
          /\ q.lease \in Leases /\ leaseEnd[q.lease] # 0
          /\ Fences(q.lease, GuestOf(q.ref))
          /\ q.at # "wait" => task[q.lease].status # "running"

RunsOK == \A p \in Procs : RunFacts(run[p])

\* A lease is granted to one run.
HoldersDistinct ==
    \A p, q \in Procs :
        p # q /\ run[p].lease # None => run[p].lease # run[q].lease

\* A task outlives its run, but not its fence while the lease lasts.
TaskOK(l) ==
    /\ leaseEnd[l] = 0 => task[l].status = "none"
    /\ task[l].status = "running" => /\ task[l].guest \in Guests
                                     /\ Fences(l, task[l].guest)

TasksOK == \A l \in Leases : TaskOK(l)

\* Details are of the present or of an earlier life of their guest.
CarriedOK ==
    \A r \in Refs : GuestOf(r) \in Guests => carries[r].gen <= life[GuestOf(r)].gen

\* An acknowledged delete has ended the life whose details the VM carries.
AckedOK ==
    \A r \in acked :
        /\ GuestOf(r) \in Guests
        /\ IdentityOf(r) =>
              life[GuestOf(r)].phase \in {"cleanup", "retiring", "released"}

XInv ==
    /\ XTypeOK /\ FenceOK /\ RunsOK /\ HoldersDistinct /\ TasksOK /\ CarriedOK
    /\ AckedOK
----------------------------------------------------------------------------

USE OperationsAreLeased, XBounds, NoneIsNoName

USE DEF LeasedOperations, NoDetails, NoTask, Ended, Kinds, Details, Task, Run,
        Registry!NoLife, Registry!NoOp

Phases == {"absent", "reserved", "bound", "managed", "retiring", "released",
           "cleanup"}

\* An installation without claims, runs or tasks satisfies the invariant.
THEOREM InitXInv == XInit => XInv
<1> SUFFICES ASSUME XInit PROVE XInv
  OBVIOUS
<1> USE DEF XInit, Registry!LInit
<1>1. XTypeOK
  BY DEF XTypeOK
<1>2. FenceOK /\ RunsOK /\ HoldersDistinct /\ TasksOK /\ CarriedOK /\ AckedOK
  BY DEF FenceOK, RunsOK, RunFacts, Holding, HoldersDistinct, TasksOK, TaskOK,
         CarriedOK, AckedOK, GuestOf
<1> QED
  BY <1>1, <1>2 DEF XInv

\* A step of one run that touches nothing else: it goes on with the lease it has,
\* or without one.
LEMMA RunOnlyKeepsXInv ==
    ASSUME XInv, NEW p \in Procs, NEW q \in Run, run' = [run EXCEPT ![p] = q],
           UNCHANGED <<registry, cloudstack, proxmox, leaseEnd>>,
           q.lease \in {None, run[p].lease}, RunFacts(q)
    PROVE  XInv'
<1> USE DEF XInv, registry, cloudstack, proxmox
<1>1. XTypeOK'
  BY DEF XTypeOK
<1>2. FenceOK' /\ TasksOK' /\ CarriedOK' /\ AckedOK'
  BY DEF FenceOK, TasksOK, TaskOK, Fences, CarriedOK, AckedOK, GuestOf, IdentityOf
<1>3. RunsOK'
  BY DEF XTypeOK, RunsOK, RunFacts, Holding, Fences, GuestOf
<1>4. HoldersDistinct'
  BY DEF XTypeOK, HoldersDistinct
<1> QED
  BY <1>1, <1>2, <1>3, <1>4

\* Starting an action; r is a VM that CloudStack knows.
LEMMA StartedKeepsXInv ==
    ASSUME XInv, NEW p \in Procs, NEW r \in Refs,
           NEW act \in LeasedOperations \cup {"create", "delete"},
           NEW at \in {"bind", "acquire", "retire"}, NEW kind \in Kinds \cup {"none"},
           Started(p, r, act, at, kind),
           UNCHANGED <<registry, cloudstack, proxmox, leaseEnd>>
    PROVE  XInv'
<1> DEFINE q == [Ended EXCEPT !.at = at, !.act = act, !.ref = r, !.kind = kind]
<1>1. q \in Run /\ run' = [run EXCEPT ![p] = q] /\ q.lease = None
  BY DEF Started
<1>2. GuestOf(r) \in Guests
  BY DEF XInv, XTypeOK, Started, GuestOf
<1>3. RunFacts(q)
  BY <1>2 DEF RunFacts, Holding
<1> QED
  BY <1>1, <1>3, RunOnlyKeepsXInv

LEMMA MutationIsKind == \A act \in LeasedOperations : Mutation[act] \in Kinds \cup {"none"}
BY DEF Mutation

LEMMA StartOperationKeepsXInv ==
    ASSUME XInv, NEW p \in Procs, NEW r \in Refs, NEW act \in Operations,
           StartOperation(p, r, act)
    PROVE  XInv'
<1>1. act \in LeasedOperations /\ Mutation[act] \in Kinds \cup {"none"}
  BY MutationIsKind
<1> QED
  BY <1>1, StartedKeepsXInv DEF StartOperation

\* A run that ends keeps nothing; one that goes on keeps its VM and its lease.
LEMMA ExitKeepsXInv ==
    ASSUME XInv, NEW p \in Procs, Exit(p),
           UNCHANGED <<registry, cloudstack, proxmox, leaseEnd>>
    PROVE  XInv'
<1>1. Ended \in Run /\ Ended.lease = None /\ RunFacts(Ended)
  BY DEF RunFacts, Holding
<1> QED
  BY <1>1, RunOnlyKeepsXInv DEF Exit

LEMMA GoesOnKeepsXInv ==
    ASSUME XInv, NEW p \in Procs, NEW s \in {"submit", "verify", "complete"},
           NEW kind \in Kinds \cup {"none"},
           run' = [run EXCEPT ![p] = [run[p] EXCEPT !.at = s, !.kind = kind]],
           UNCHANGED <<registry, cloudstack, proxmox, leaseEnd>>,
           run[p].at \in Holding, task[run[p].lease].status # "running"
    PROVE  XInv'
<1> DEFINE q == [run[p] EXCEPT !.at = s, !.kind = kind]
<1>1. run[p] \in Run
  BY DEF XInv, XTypeOK
<1>2. q \in Run /\ q.lease = run[p].lease /\ q.ref = run[p].ref /\ q.at = s
  BY <1>1
<1>3. RunFacts(run[p])
  BY DEF XInv, RunsOK
<1>4. RunFacts(q)
  BY <1>2, <1>3 DEF RunFacts, Holding
<1> HIDE DEF q
<1>5. run' = [run EXCEPT ![p] = q]
  BY DEF q
<1> QED
  BY <1>2, <1>4, <1>5, RunOnlyKeepsXInv

LEMMA ReceiveKeepsXInv ==
    ASSUME XInv, NEW p \in Procs, Receive(p)
    PROVE  XInv'
<1> DEFINE s == IF run[p].act = "console" THEN "complete" ELSE "submit"
<1>1. run[p] \in Run /\ run[p].kind \in Kinds \cup {"none"}
  BY DEF XInv, XTypeOK
<1>2. run' = [run EXCEPT ![p] = [run[p] EXCEPT !.at = s, !.kind = run[p].kind]]
  BY <1>1 DEF Receive, Goto
<1>3. run[p].at \in Holding /\ task[run[p].lease].status # "running"
  BY DEF XInv, RunsOK, RunFacts, Holding, Receive
<1>4. s \in {"submit", "verify", "complete"}
  OBVIOUS
<1> HIDE DEF s
<1> QED
  BY <1>1, <1>2, <1>3, <1>4, GoesOnKeepsXInv DEF Receive

LEMMA PollKeepsXInv ==
    ASSUME XInv, NEW p \in Procs, Poll(p)
    PROVE  XInv'
<1> DEFINE s == IF run[p].kind = "rollback" THEN "verify" ELSE "complete"
<1>1. run[p] \in Run /\ run[p].kind \in Kinds \cup {"none"}
  BY DEF XInv, XTypeOK
<1>2. run' = [run EXCEPT ![p] = [run[p] EXCEPT !.at = s, !.kind = run[p].kind]]
  BY <1>1 DEF Poll, Goto
<1>3. run[p].at \in Holding /\ task[run[p].lease].status # "running"
  BY DEF Holding, Poll, TaskDone
<1>4. s \in {"submit", "verify", "complete"}
  OBVIOUS
<1> HIDE DEF s
<1> QED
  BY <1>1, <1>2, <1>3, <1>4, GoesOnKeepsXInv DEF Poll

LEMMA VerifyKeepsXInv ==
    ASSUME XInv, NEW p \in Procs, Verify(p)
    PROVE  XInv'
<1>1. run[p] \in Run /\ run[p].kind \in Kinds \cup {"none"} /\ run \in [Procs -> Run]
  BY DEF XInv, XTypeOK
<1>2. run[p].at \in Holding /\ task[run[p].lease].status # "running"
  BY DEF XInv, RunsOK, RunFacts, Holding, Verify
<1>3. PICK s \in {"submit", "complete"}, kind \in Kinds \cup {"none"} :
         run' = [run EXCEPT ![p] = [run[p] EXCEPT !.at = s, !.kind = kind]]
  <2>1. CASE power[GuestOf(run[p].ref)] = "running"
    <3>1. run' = [run EXCEPT ![p] = [run[p] EXCEPT !.at = "complete",
                                                   !.kind = run[p].kind]]
      BY <1>1, <2>1 DEF Verify
    <3> QED
      BY <1>1, <3>1
  <2>2. CASE power[GuestOf(run[p].ref)] # "running"
    <3>1. run' = [run EXCEPT ![p] = [run[p] EXCEPT !.at = "submit",
                                                   !.kind = "start"]]
      BY <1>1, <2>2 DEF Verify
    <3> QED
      BY <3>1
  <2> QED
    BY <2>1, <2>2
<1> QED
  BY <1>2, <1>3, GoesOnKeepsXInv DEF Verify

----------------------------------------------------------------------------
(* Steps that write to the claim. None of them ends a lease that lasts.     *)

Settled == {"cleanup", "retiring", "released"}

Lives == [phase : Phases, gen : Nat, owner : Refs \cup {None}]

\* Only fences that have run out are lifted.
OpsLapse ==
    \/ op' = op
    \/ \E g \in Guests : /\ op[g].expires <= clock
                         /\ op' = [op EXCEPT ![g] = Registry!NoOp]

\* A life is followed by a later one, and never resumed once it is settled.
LifeGoesOn(g) ==
    /\ op'[g] # Registry!NoOp => life'[g].phase = "managed"
    /\ life'[g].gen >= life[g].gen
    /\ (life'[g].gen = life[g].gen /\ life[g].phase \in Settled) =>
          life'[g].phase \in Settled

\* At most one run goes on, with the lease it has or without one.
RunGoesOn ==
    \/ run' = run
    \/ \E p \in Procs, q \in Run :
          /\ run' = [run EXCEPT ![p] = q]
          /\ q.lease \in {None, run[p].lease} /\ RunFacts(q)

LEMMA FencesKept ==
    ASSUME XInv, OpsLapse, UNCHANGED <<leaseEnd, clock>>, NEW l \in Leases,
           NEW g \in Guests, Fences(l, g)
    PROVE  Fences(l, g)'
<1>1. op \in [Guests -> [id : Leases \cup {None}, expires : Nat]] /\ clock \in Nat
      /\ leaseEnd \in [Leases -> Nat]
  BY DEF XInv, XTypeOK
<1>2. CASE op' = op
  BY <1>2 DEF Fences
<1>3. CASE op' # op
  <2>1. PICK h \in Guests : /\ op[h].expires <= clock
                            /\ op' = [op EXCEPT ![h] = Registry!NoOp]
    BY <1>3 DEF OpsLapse
  <2>2. ASSUME leaseEnd[l] > clock PROVE op'[g].id = l
    <3>1. op[g].id = l
      BY <2>2 DEF Fences
    <3>2. op[g] # Registry!NoOp
      BY <3>1
    <3>3. op[g].expires = leaseEnd[l]
      BY <3>1, <3>2 DEF XInv, FenceOK
    <3>4. g # h
      BY <1>1, <2>1, <2>2, <3>3
    <3> QED
      BY <1>1, <2>1, <3>1, <3>4
  <2> QED
    BY <2>2 DEF Fences
<1> QED
  BY <1>2, <1>3

LEMMA RunsKept ==
    ASSUME XInv, OpsLapse, RunGoesOn, UNCHANGED <<leaseEnd, clock, carries, task>>
    PROVE  run' \in [Procs -> Run] /\ RunsOK' /\ HoldersDistinct'
<1>1. run \in [Procs -> Run]
  BY DEF XInv, XTypeOK
<1>2. run' \in [Procs -> Run]
  BY <1>1 DEF RunGoesOn
<1>3. \A p \in Procs : RunFacts(run'[p]) /\ run'[p].lease \in {None, run[p].lease}
  BY <1>1 DEF XInv, RunsOK, RunGoesOn
<1>4. RunsOK'
  <2> SUFFICES ASSUME NEW p \in Procs PROVE RunFacts(run[p])'
    BY DEF RunsOK
  <2> DEFINE q == run'[p]
  <2>1. q \in Run /\ RunFacts(q)
    BY <1>2, <1>3
  <2>2. q.at \in Holding => /\ q.lease \in Leases /\ GuestOf(q.ref) \in Guests
                            /\ Fences(q.lease, GuestOf(q.ref))
    BY <2>1 DEF RunFacts, Holding
  <2>3. q.at \in Holding => (leaseEnd[q.lease] > clock => op'[GuestOf(q.ref)].id = q.lease)
    BY <2>2, FencesKept DEF Fences
  <2> HIDE DEF q
  <2>4. /\ q.at # "idle" => q.ref \in Refs /\ GuestOf(q.ref) \in Guests
        /\ q.at \notin Holding => q.lease = None
        /\ q.at \in Holding =>
              /\ q.lease \in Leases /\ leaseEnd[q.lease] # 0
              /\ q.at # "wait" => task[q.lease].status # "running"
    BY <2>1 DEF RunFacts
  <2> QED
    BY <2>3, <2>4 DEF RunFacts, Fences, GuestOf, q
<1>5. HoldersDistinct'
  BY <1>3 DEF XInv, HoldersDistinct
<1> QED
  BY <1>2, <1>4, <1>5

LEMMA LifeKeepsXInv ==
    ASSUME XInv, OpsLapse, RunGoesOn, life' \in [Guests -> Lives],
           \A g \in Guests : LifeGoesOn(g),
           UNCHANGED <<leaseEnd, clock, gone, carries, rollback, proxmox>>,
           acked' \subseteq Refs,
           \A r \in acked' \ acked :
              /\ GuestOf(r) \in Guests
              /\ life'[GuestOf(r)].gen = carries[r].gen =>
                    life'[GuestOf(r)].phase \in Settled
    PROVE  XInv'
<1> USE DEF proxmox
<1>1. op' \in [Guests -> [id : Leases \cup {None}, expires : Nat]]
  BY DEF XInv, XTypeOK, OpsLapse
<1>2. XTypeOK'
  BY <1>1, RunsKept DEF XInv, XTypeOK, Lives, Phases
<1>3. FenceOK'
  <2> SUFFICES ASSUME NEW g \in Guests, op'[g] # Registry!NoOp
               PROVE  /\ op'[g].id \in Leases /\ leaseEnd[op'[g].id] # 0
                      /\ op'[g].expires = leaseEnd[op'[g].id]
                      /\ life'[g].phase = "managed"
    BY DEF FenceOK
  <2>1. op'[g] = op[g]
    BY DEF XInv, XTypeOK, OpsLapse
  <2> QED
    BY <2>1 DEF XInv, FenceOK, LifeGoesOn
<1>4. TasksOK'
  <2> SUFFICES ASSUME NEW l \in Leases PROVE TaskOK(l)'
    BY DEF TasksOK
  <2>1. TaskOK(l)
    BY DEF XInv, TasksOK
  <2>2. task[l].status = "running" => Fences(l, task[l].guest)'
    BY <2>1, FencesKept DEF TaskOK, Fences
  <2> QED
    BY <2>1, <2>2 DEF TaskOK, Fences
<1>5. CarriedOK'
  BY DEF XInv, XTypeOK, CarriedOK, GuestOf, LifeGoesOn, Lives
<1>6. AckedOK'
  <2> SUFFICES ASSUME NEW r \in acked'
               PROVE  /\ GuestOf(r) \in Guests
                      /\ life'[GuestOf(r)].gen = carries[r].gen =>
                            life'[GuestOf(r)].phase \in Settled
    BY DEF AckedOK, IdentityOf, GuestOf, Settled
  <2>1. CASE r \in acked
    <3> DEFINE g == GuestOf(r)
    <3>1. g \in Guests /\ (life[g].gen = carries[r].gen => life[g].phase \in Settled)
      BY <2>1 DEF XInv, AckedOK, IdentityOf, Settled
    <3>2. carries[r].gen <= life[g].gen /\ LifeGoesOn(g) /\ carries[r].gen \in Nat
      BY <3>1, <2>1 DEF XInv, XTypeOK, CarriedOK
    <3>3. life[g].gen \in Nat /\ life'[g].gen \in Nat
      BY <3>1 DEF XInv, XTypeOK, Lives
    <3> HIDE DEF g
    <3>4. life'[g].gen = carries[r].gen => life[g].gen = carries[r].gen
      BY <3>2, <3>3 DEF LifeGoesOn
    <3> QED
      BY <3>1, <3>2, <3>4 DEF LifeGoesOn, g
  <2>2. CASE r \notin acked
    BY <2>2
  <2> QED
    BY <2>1, <2>2
<1> QED
  BY <1>2, <1>3, <1>4, <1>5, <1>6, RunsKept DEF XInv

\* A run that ends without having a lease taken from it.
LEMMA ExitGoesOn ==
    ASSUME NEW p \in Procs, Exit(p)
    PROVE  RunGoesOn
<1>1. Ended \in Run /\ Ended.lease = None /\ RunFacts(Ended)
  BY DEF RunFacts, Holding
<1> QED
  BY <1>1 DEF RunGoesOn, Exit

\* The life of one guest moves on, the rest of the registry as it was.
LEMMA MoveKeepsXInv ==
    ASSUME XInv, RunGoesOn, NEW g \in Guests, NEW x \in Lives,
           life' = [life EXCEPT ![g] = x],
           op[g] # Registry!NoOp => x.phase = "managed",
           x.gen >= life[g].gen,
           (x.gen = life[g].gen /\ life[g].phase \in Settled) => x.phase \in Settled,
           UNCHANGED <<op, leaseEnd, clock, gone, cloudstack, proxmox>>
    PROVE  XInv'
<1> USE DEF cloudstack
<1>1. life \in [Guests -> Lives]
  BY DEF XInv, XTypeOK, Lives, Phases
<1>2. life' \in [Guests -> Lives]
  BY <1>1
<1>3. ASSUME NEW h \in Guests PROVE LifeGoesOn(h)
  <2>1. CASE h = g
    BY <1>1, <2>1 DEF LifeGoesOn
  <2>2. CASE h # g
    <3>1. life'[h] = life[h] /\ op'[h] = op[h] /\ life[h].gen \in Nat
      BY <1>1, <2>2 DEF Lives
    <3> QED
      BY <3>1 DEF LifeGoesOn, XInv, FenceOK
  <2> QED
    BY <2>1, <2>2
<1>4. OpsLapse /\ acked' \ acked = {} /\ acked' \subseteq Refs
  BY DEF OpsLapse, XInv, XTypeOK
<1> QED
  BY <1>2, <1>3, <1>4, LifeKeepsXInv

LEMMA StartCreateKeepsXInv ==
    ASSUME XInv, NEW p \in Procs, NEW r \in Refs, StartCreate(p, r)
    PROVE  XInv'
BY StartedKeepsXInv DEF StartCreate

LEMMA BindKeepsXInv ==
    ASSUME XInv, NEW p \in Procs, Bind(p)
    PROVE  XInv'
<1> DEFINE r == run[p].ref
           g == GuestOf(r)
           x == [life[g] EXCEPT !.phase = "bound", !.owner = r]
<1>1. r \in Refs /\ g \in Guests
  BY DEF XInv, RunsOK, RunFacts, Bind
<1>2. life \in [Guests -> Lives]
  BY DEF XInv, XTypeOK, Lives, Phases
<1>3. x \in Lives /\ x.gen = life[g].gen
  BY <1>1, <1>2 DEF Lives, Phases
<1>4. life' = [life EXCEPT ![g] = x] /\ life[g].phase = "reserved" /\ op' = op
      /\ gone' = gone /\ clock' = clock
  BY <1>1, <1>2 DEF Bind, Registry!Own, Lives
<1>5. op[g] = Registry!NoOp
  BY <1>1, <1>4 DEF XInv, FenceOK
<1>6. RunGoesOn
  BY ExitGoesOn DEF Bind
<1>7. x.gen >= life[g].gen
  BY <1>1, <1>2, <1>3 DEF Lives
<1> HIDE DEF x, g, r
<1> QED
  BY <1>1, <1>3, <1>4, <1>5, <1>6, <1>7, MoveKeepsXInv DEF Bind, Settled

LEMMA RecoverKeepsXInv ==
    ASSUME XInv, NEW p \in Procs, Recover(p)
    PROVE  XInv'
<1> DEFINE g == GuestOf(run[p].ref)
<1>1. g \in Guests
  BY DEF XInv, RunsOK, RunFacts, Recover
<1>2. OpsLapse
  BY <1>1 DEF OpsLapse, Recover, FenceExpired, Registry!EndOp
<1>3. life' = life /\ life' \in [Guests -> Lives] /\ gone' = gone /\ clock' = clock
  BY DEF Recover, Registry!EndOp, XInv, XTypeOK, Lives, Phases
<1>4. ASSUME NEW h \in Guests PROVE LifeGoesOn(h)
  <2>1. op'[h] = op[h] \/ op'[h] = Registry!NoOp
    BY <1>2 DEF OpsLapse, XInv, XTypeOK
  <2>2. life[h].gen \in Nat
    BY <1>3 DEF Lives
  <2> QED
    BY <1>3, <2>1, <2>2 DEF LifeGoesOn, XInv, FenceOK
<1>5. RunGoesOn /\ acked' = acked /\ acked \subseteq Refs
  BY DEF Recover, RunGoesOn, cloudstack, XInv, XTypeOK
<1> QED
  BY <1>2, <1>3, <1>4, <1>5, LifeKeepsXInv DEF Recover, cloudstack

\* The registry issues a lease that nobody had, on a claim without a fence.
LEMMA AcquireKeepsXInv ==
    ASSUME XInv, NEW p \in Procs, NEW l \in Leases, Acquire(p, l)
    PROVE  XInv'
<1> DEFINE r == run[p].ref
           g == GuestOf(r)
           end == clock + LeaseTicks
<1>1. r \in Refs /\ g \in Guests /\ run[p].at = "acquire"
  BY DEF XInv, RunsOK, RunFacts, Acquire
<1>2. /\ leaseEnd[l] = 0 /\ op[g] = Registry!NoOp /\ life[g].phase = "managed"
      /\ op' = [op EXCEPT ![g] = [id |-> l, expires |-> end]]
      /\ leaseEnd' = [leaseEnd EXCEPT ![l] = end]
      /\ run' = [run EXCEPT ![p].at = "granted", ![p].lease = l]
      /\ UNCHANGED <<life, gone, clock, cloudstack, proxmox>>
  BY DEF Acquire, Registry!BeginOp
<1>3. end \in Nat /\ end # 0
  BY DEF XInv, XTypeOK
<1> HIDE DEF end
<1> USE DEF cloudstack, proxmox
<1>4. XTypeOK'
  <2>1. op' \in [Guests -> [id : Leases \cup {None}, expires : Nat]]
    BY <1>1, <1>2, <1>3 DEF XInv, XTypeOK
  <2>2. leaseEnd' \in [Leases -> Nat]
    BY <1>2, <1>3 DEF XInv, XTypeOK
  <2>3. run' \in [Procs -> Run]
    <3>1. run[p] \in Run
      BY DEF XInv, XTypeOK
    <3>2. [run[p] EXCEPT !.at = "granted", !.lease = l] \in Run
      BY <3>1
    <3> QED
      BY <1>2, <3>2 DEF XInv, XTypeOK
  <2> QED
    BY <1>2, <2>1, <2>2, <2>3 DEF XInv, XTypeOK
<1>5. FenceOK'
  BY <1>1, <1>2, <1>3 DEF XInv, XTypeOK, FenceOK
<1>6. ASSUME NEW k \in Leases \ {l}, NEW h \in Guests, Fences(k, h)
      PROVE  Fences(k, h)'
  BY <1>1, <1>2, <1>6 DEF XInv, XTypeOK, Fences
<1>7. TasksOK'
  <2> SUFFICES ASSUME NEW k \in Leases PROVE TaskOK(k)'
    BY DEF TasksOK
  <2>1. TaskOK(k)
    BY DEF XInv, TasksOK
  <2>2. CASE k = l
    BY <1>2, <1>3, <2>1, <2>2 DEF TaskOK, XInv, XTypeOK
  <2>3. CASE k # l
    BY <1>2, <1>6, <2>1, <2>3 DEF TaskOK, Fences, XInv, XTypeOK
  <2> QED
    BY <2>2, <2>3
<1>8. RunsOK'
  <2> SUFFICES ASSUME NEW q \in Procs PROVE RunFacts(run[q])'
    BY DEF RunsOK
  <2>1. RunFacts(run[q])
    BY DEF XInv, RunsOK
  <2>2. CASE q = p
    <3>1. run'[p].at = "granted" /\ run'[p].lease = l /\ run'[p].ref = r
      BY <1>2 DEF XInv, XTypeOK
    <3>2. op'[g].id = l /\ leaseEnd'[l] = end /\ task[l].status = "none"
      BY <1>1, <1>2 DEF XInv, XTypeOK, TasksOK, TaskOK
    <3> QED
      BY <1>1, <1>2, <1>3, <2>2, <3>1, <3>2 DEF RunFacts, Fences, Holding, GuestOf
  <2>3. CASE q # p
    <3>1. run'[q] = run[q]
      BY <1>2, <2>3 DEF XInv, XTypeOK
    <3>2. run[q].at \in Holding => run[q].lease \in Leases \ {l}
                                   /\ GuestOf(run[q].ref) \in Guests
      BY <1>2, <2>1 DEF RunFacts, Holding
    <3>3. run[q].at \in Holding => Fences(run[q].lease, GuestOf(run[q].ref))
      BY <2>1 DEF RunFacts
    <3>4. run[q].at \in Holding =>
             /\ leaseEnd'[run[q].lease] = leaseEnd[run[q].lease]
             /\ leaseEnd'[run[q].lease] > clock =>
                   op'[GuestOf(run[q].ref)].id = run[q].lease
      BY <1>2, <1>6, <3>2, <3>3 DEF Fences, XInv, XTypeOK
    <3> QED
      BY <1>2, <2>1, <3>1, <3>4 DEF RunFacts, Fences, GuestOf
  <2> QED
    BY <2>2, <2>3
<1>9. HoldersDistinct'
  <2>1. \A q \in Procs : run[q].lease # l
    BY <1>2 DEF XInv, RunsOK, RunFacts
  <2> QED
    BY <1>2, <2>1 DEF XInv, XTypeOK, HoldersDistinct
<1>10. CarriedOK' /\ AckedOK'
  BY <1>2 DEF XInv, CarriedOK, AckedOK, GuestOf, IdentityOf
<1> QED
  BY <1>4, <1>5, <1>7, <1>8, <1>9, <1>10 DEF XInv

----------------------------------------------------------------------------
(* Tasks, completions, deletes, and what others do.                        *)

\* A task is submitted under the lease of its run, which is the fence as long as
\* it lasts.
LEMMA SubmitKeepsXInv ==
    ASSUME XInv, NEW p \in Procs, Submit(p)
    PROVE  XInv'
<1> DEFINE l == run[p].lease
           g == GuestOf(run[p].ref)
           t == [kind |-> run[p].kind, guest |-> g, status |-> "running",
                 late |-> FALSE]
<1> USE DEF registry, cloudstack
<1>1. /\ run[p] \in Run /\ run[p].at = "submit" /\ l \in Leases /\ g \in Guests
      /\ leaseEnd[l] # 0 /\ Fences(l, g)
  BY DEF XInv, XTypeOK, RunsOK, RunFacts, Holding, Submit
<1>2. /\ task' = [task EXCEPT ![l] = t]
      /\ UNCHANGED <<registry, cloudstack, power, leaseEnd>>
      /\ \/ run' = [run EXCEPT ![p].at = "wait"]
         \/ run' = [run EXCEPT ![p] = Ended]
  BY DEF Submit, Goto, Exit
<1>3. t \in Task /\ t.status = "running" /\ t.guest = g
  BY <1>1
<1> HIDE DEF t
<1>4. XTypeOK'
  <2>1. task' \in [Leases -> Task]
    BY <1>1, <1>2, <1>3 DEF XInv, XTypeOK
  <2>2. run' \in [Procs -> Run]
    <3>1. [run[p] EXCEPT !.at = "wait"] \in Run /\ Ended \in Run
      BY <1>1
    <3>2. run \in [Procs -> Run]
      BY DEF XInv, XTypeOK
    <3>3. CASE run' = [run EXCEPT ![p] = [run[p] EXCEPT !.at = "wait"]]
      BY <3>1, <3>2, <3>3
    <3>4. CASE run' = [run EXCEPT ![p] = Ended]
      BY <3>1, <3>2, <3>4
    <3> QED
      BY <1>2, <3>3, <3>4
  <2> QED
    BY <1>2, <2>1, <2>2 DEF XInv, XTypeOK
<1>5. FenceOK' /\ CarriedOK' /\ AckedOK'
  BY <1>2 DEF XInv, FenceOK, CarriedOK, AckedOK, GuestOf, IdentityOf
<1>6. TasksOK'
  <2> SUFFICES ASSUME NEW k \in Leases PROVE TaskOK(k)'
    BY DEF TasksOK
  <2>1. task'[k] = IF k = l THEN t ELSE task[k]
    BY <1>1, <1>2 DEF XInv, XTypeOK
  <2> QED
    BY <1>1, <1>2, <1>3, <2>1 DEF XInv, TasksOK, TaskOK, Fences
<1>7. RunsOK'
  <2> SUFFICES ASSUME NEW q \in Procs PROVE RunFacts(run[q])'
    BY DEF RunsOK
  <2>1. RunFacts(run[q])
    BY DEF XInv, RunsOK
  <2>2. CASE q = p
    <3>1. run'[p] = [run[p] EXCEPT !.at = "wait"] \/ run'[p] = Ended
      BY <1>2 DEF XInv, XTypeOK
    <3> QED
      BY <1>1, <1>2, <2>1, <2>2, <3>1 DEF RunFacts, Fences, Holding, GuestOf
  <2>3. CASE q # p
    <3>1. run'[q] = run[q]
      BY <1>2, <2>3 DEF XInv, XTypeOK
    <3>2. run[q].at \in Holding => run[q].lease # l /\ task'[run[q].lease] = task[run[q].lease]
      BY <1>1, <1>2, <2>1, <2>3 DEF XInv, XTypeOK, HoldersDistinct, RunFacts
    <3> QED
      BY <1>2, <2>1, <3>1, <3>2 DEF RunFacts, Fences, GuestOf
  <2> QED
    BY <2>2, <2>3
<1>8. HoldersDistinct'
  <2>1. ASSUME NEW q \in Procs PROVE run'[q].lease \in {None, run[q].lease}
    <3>1. [run[p] EXCEPT !.at = "wait"].lease = run[p].lease /\ Ended.lease = None
      BY <1>1
    <3> QED
      BY <1>2, <3>1 DEF XInv, XTypeOK
  <2> QED
    BY <2>1 DEF XInv, HoldersDistinct
<1> QED
  BY <1>4, <1>5, <1>6, <1>7, <1>8 DEF XInv

\* A completion lifts the fence of the one run that holds it, whose task is over.
LEMMA CompleteKeepsXInv ==
    ASSUME XInv, NEW p \in Procs, Complete(p)
    PROVE  XInv'
<1> DEFINE l == run[p].lease
           g == GuestOf(run[p].ref)
<1> USE DEF cloudstack, proxmox
<1>1. /\ l \in Leases /\ g \in Guests /\ task[l].status # "running"
      /\ op[g].id = l
  BY DEF XInv, RunsOK, RunFacts, Holding, Complete
<1>2. /\ op' = [op EXCEPT ![g] = Registry!NoOp]
      /\ run' = [run EXCEPT ![p] = Ended]
      /\ UNCHANGED <<life, gone, clock, cloudstack, proxmox, leaseEnd>>
  BY DEF Complete, Registry!EndOp, Exit
<1>3. XTypeOK'
  BY <1>2 DEF XInv, XTypeOK
<1>4. FenceOK' /\ CarriedOK' /\ AckedOK'
  BY <1>2 DEF XInv, XTypeOK, FenceOK, CarriedOK, AckedOK, GuestOf, IdentityOf
<1>5. ASSUME NEW k \in Leases \ {l}, NEW h \in Guests, Fences(k, h)
      PROVE  leaseEnd[k] > clock => op'[h].id = k
  BY <1>1, <1>2, <1>5 DEF XInv, XTypeOK, Fences
<1>6. TasksOK'
  <2> SUFFICES ASSUME NEW k \in Leases PROVE TaskOK(k)'
    BY DEF TasksOK
  <2>1. TaskOK(k)
    BY DEF XInv, TasksOK
  <2>2. task[k].status = "running" => k # l
    BY <1>1
  <2> QED
    BY <1>2, <1>5, <2>1, <2>2 DEF TaskOK, Fences
<1>7. RunsOK'
  <2> SUFFICES ASSUME NEW q \in Procs PROVE RunFacts(run[q])'
    BY DEF RunsOK
  <2>1. RunFacts(run[q])
    BY DEF XInv, RunsOK
  <2>2. CASE q = p
    <3>1. run'[q] = Ended
      BY <1>2, <2>2 DEF XInv, XTypeOK
    <3> QED
      BY <3>1 DEF RunFacts, Holding
  <2>3. CASE q # p
    <3>1. run'[q] = run[q]
      BY <1>2, <2>3 DEF XInv, XTypeOK
    <3>2. run[q].at \in Holding => run[q].lease \in Leases \ {l}
                                   /\ GuestOf(run[q].ref) \in Guests
      BY <1>1, <2>1, <2>3 DEF XInv, HoldersDistinct, RunFacts, Holding
    <3>3. run[q].at \in Holding => (leaseEnd[run[q].lease] > clock =>
                                     op'[GuestOf(run[q].ref)].id = run[q].lease)
      BY <1>5, <2>1, <3>2 DEF RunFacts
    <3> QED
      BY <1>2, <2>1, <3>1, <3>3 DEF RunFacts, Fences, GuestOf
  <2> QED
    BY <2>2, <2>3
<1>8. HoldersDistinct'
  <2>1. \A q \in Procs : run'[q].lease \in {None, run[q].lease}
    BY <1>2 DEF XInv, XTypeOK
  <2> QED
    BY <2>1 DEF XInv, HoldersDistinct
<1> QED
  BY <1>3, <1>4, <1>6, <1>7, <1>8 DEF XInv

\* The end of a task takes its status away from no fence.
LEMMA TaskEndsKeepsXInv ==
    ASSUME XInv, NEW l \in Leases, TaskEnds(l)
    PROVE  XInv'
<1> USE DEF registry, cloudstack
<1>1. task[l].guest \in Guests /\ task[l].status = "running"
  BY DEF XInv, TasksOK, TaskOK, TaskEnds
<1>2. PICK t \in Task : task' = [task EXCEPT ![l] = t] /\ t.status \in {"ok", "failed"}
  <2> DEFINE late == leaseEnd[l] <= clock
             T(s) == [NoTask EXCEPT !.status = s, !.late = late]
  <2>1. late \in BOOLEAN
    BY DEF XInv, XTypeOK
  <2>2. task' = [task EXCEPT ![l] = T("ok")] \/ task' = [task EXCEPT ![l] = T("failed")]
    BY DEF TaskEnds
  <2> HIDE DEF late
  <2>3. T("ok") \in Task /\ T("ok").status = "ok"
    BY <2>1
  <2>4. T("failed") \in Task /\ T("failed").status = "failed"
    BY <2>1
  <2> QED
    BY <2>2, <2>3, <2>4
<1>3. power' \in [Guests -> {"running", "stopped"}]
  BY <1>1 DEF XInv, XTypeOK, TaskEnds
<1>4. UNCHANGED <<registry, cloudstack, run, leaseEnd>>
  BY DEF TaskEnds
<1>5. XTypeOK'
  BY <1>2, <1>3, <1>4 DEF XInv, XTypeOK
<1>6. FenceOK' /\ HoldersDistinct' /\ CarriedOK' /\ AckedOK'
  BY <1>4 DEF XInv, FenceOK, HoldersDistinct, CarriedOK, AckedOK, GuestOf, IdentityOf
<1>7. \A k \in Leases : task'[k] = IF k = l THEN t ELSE task[k]
  BY <1>2 DEF XInv, XTypeOK
<1>8. TasksOK'
  BY <1>1, <1>2, <1>4, <1>7 DEF XInv, TasksOK, TaskOK, Fences
<1>9. RunsOK'
  BY <1>2, <1>4, <1>7 DEF XInv, RunsOK, RunFacts, Fences, GuestOf
<1> QED
  BY <1>5, <1>6, <1>8, <1>9 DEF XInv

\* A later clock ends leases and starts none.
LEMMA TickKeepsXInv ==
    ASSUME XInv, Tick
    PROVE  XInv'
<1> USE DEF cloudstack, proxmox
<1>1. clock' = clock + 1 /\ UNCHANGED <<life, op, gone, cloudstack, proxmox, run, leaseEnd>>
  BY DEF Tick, Registry!Advance
<1>2. XTypeOK'
  BY <1>1 DEF XInv, XTypeOK
<1>3. \A l \in Leases, g \in Guests : Fences(l, g) => Fences(l, g)'
  BY <1>1 DEF XInv, XTypeOK, Fences
<1>4. FenceOK' /\ HoldersDistinct' /\ CarriedOK' /\ AckedOK'
  BY <1>1 DEF XInv, FenceOK, HoldersDistinct, CarriedOK, AckedOK, GuestOf, IdentityOf
<1>5. TasksOK'
  BY <1>1, <1>3 DEF XInv, TasksOK, TaskOK
<1>6. RunsOK'
  BY <1>1, <1>3 DEF XInv, RunsOK, RunFacts, Holding, GuestOf
<1> QED
  BY <1>2, <1>4, <1>5, <1>6 DEF XInv

\* What the registry does for others moves a life on, or ends an unfenced one.
LEMMA ServiceKeepsXInv ==
    ASSUME XInv, NEW g \in Guests, Service(g)
    PROVE  XInv'
<1>1. life \in [Guests -> Lives] /\ life[g] \in Lives
  BY DEF XInv, XTypeOK, Lives, Phases
<1>2. op[g] # Registry!NoOp => life[g].phase = "managed"
  BY DEF XInv, FenceOK
<1>3. UNCHANGED <<op, gone, clock>>
  BY DEF Service, Registry!Reserve, Registry!Activate, Registry!Release,
         Registry!Rollback, Registry!Move
<1>4. RunGoesOn /\ UNCHANGED <<cloudstack, proxmox, leaseEnd>>
  BY DEF Service, RunGoesOn
<1>5. CASE Registry!Reserve(g)
  <2> DEFINE x == [phase |-> "reserved", gen |-> life[g].gen + 1, owner |-> None]
  <2>1. x \in Lives /\ x.gen = life[g].gen + 1 /\ life[g].gen \in Nat
    BY <1>1 DEF Lives, Phases
  <2>2. life' = [life EXCEPT ![g] = x] /\ op[g] = Registry!NoOp
    BY <1>5 DEF Registry!Reserve
  <2>3. x.gen >= life[g].gen /\ x.gen # life[g].gen
    BY <2>1
  <2> HIDE DEF x
  <2> QED
    BY <1>3, <1>4, <2>1, <2>2, <2>3, MoveKeepsXInv
<1>6. ASSUME NEW to \in Phases, life' = [life EXCEPT ![g].phase = to],
             op[g] # Registry!NoOp => to = "managed",
             life[g].phase \in Settled => to \in Settled
      PROVE  XInv'
  <2> DEFINE x == [life[g] EXCEPT !.phase = to]
  <2>1. x \in Lives /\ x.phase = to /\ x.gen = life[g].gen /\ life[g].gen \in Nat
    BY <1>1 DEF Lives
  <2>2. life' = [life EXCEPT ![g] = x]
    BY <1>6
  <2>3. x.gen >= life[g].gen
    BY <2>1
  <2> HIDE DEF x
  <2> QED
    BY <1>3, <1>4, <1>6, <2>1, <2>2, <2>3, MoveKeepsXInv
<1>7. CASE Registry!Activate(g)
  <2>1. life[g].phase = "bound" /\ life' = [life EXCEPT ![g].phase = "managed"]
    BY <1>7 DEF Registry!Activate, Registry!Move
  <2> QED
    BY <1>6, <2>1 DEF Phases, Settled
<1>8. CASE Registry!Release(g)
  <2>1. life[g].phase = "retiring" /\ life' = [life EXCEPT ![g].phase = "released"]
    BY <1>8 DEF Registry!Release, Registry!Move
  <2> QED
    BY <1>2, <1>6, <2>1 DEF Phases, Settled
<1>9. CASE life[g].phase = "cleanup" /\ Registry!Rollback(g)
  <2>1. life' = [life EXCEPT ![g].phase = "released"]
    BY <1>9 DEF Registry!Rollback, Registry!Move
  <2> QED
    BY <1>2, <1>6, <1>9, <2>1 DEF Phases, Settled
<1> QED
  BY <1>5, <1>7, <1>8, <1>9 DEF Service

\* The delete of a rollback consumes the reservation that VM r carries.
LEMMA CleanupGoesOn ==
    ASSUME XInv, NEW r \in Refs, CleanupAuthorized(r)
    PROVE  /\ life' \in [Guests -> Lives] /\ UNCHANGED <<op, gone, clock>>
           /\ \A g \in Guests : LifeGoesOn(g)
           /\ GuestOf(r) \in Guests /\ life'[GuestOf(r)].phase \in Settled
<1> DEFINE g == GuestOf(r)
<1>1. g \in Guests
  BY DEF CleanupAuthorized, IdentityOf
<1>2. life \in [Guests -> Lives]
  BY DEF XInv, XTypeOK, Lives, Phases
<1>3. UNCHANGED <<op, gone, clock>>
  BY DEF CleanupAuthorized, registry
<1>4. /\ life[g].phase \in {"reserved", "cleanup"}
      /\ \/ life' = [life EXCEPT ![g].phase = "cleanup"]
         \/ life[g].phase = "cleanup" /\ life' = life
  BY DEF CleanupAuthorized, registry
<1> HIDE DEF g
<1>5. life' \in [Guests -> Lives] /\ life'[g].phase = "cleanup"
  BY <1>1, <1>2, <1>4 DEF Lives, Phases
<1>6. \A h \in Guests : /\ life'[h].gen = life[h].gen /\ life[h].gen \in Nat
                        /\ h # g => life'[h] = life[h]
  BY <1>1, <1>2, <1>4 DEF Lives
<1>7. \A h \in Guests : LifeGoesOn(h)
  BY <1>1, <1>3, <1>4, <1>5, <1>6 DEF LifeGoesOn, XInv, FenceOK, Settled
<1> QED
  BY <1>1, <1>3, <1>5, <1>7 DEF g, Settled

LEMMA StartDeleteKeepsXInv ==
    ASSUME XInv, NEW p \in Procs, NEW r \in Refs, StartDelete(p, r)
    PROVE  XInv'
<1> USE DEF proxmox
<1>1. UNCHANGED <<carries, rollback, proxmox, leaseEnd>> /\ acked \subseteq Refs
  BY DEF StartDelete, XInv, XTypeOK
<1>2. CASE UNCHANGED registry /\ Started(p, r, "delete", "retire", "none")
           /\ UNCHANGED acked
  BY <1>1, <1>2, StartedKeepsXInv DEF cloudstack
<1>3. CASE CleanupAuthorized(r) /\ acked' = acked \cup {r} /\ UNCHANGED run
  <2>1. OpsLapse /\ RunGoesOn
    BY <1>3, CleanupGoesOn DEF OpsLapse, RunGoesOn
  <2>2. \A s \in acked' \ acked : s = r
    BY <1>3
  <2> QED
    BY <1>1, <1>3, <2>1, <2>2, CleanupGoesOn, LifeKeepsXInv
<1>4. CASE CleanupAuthorized(r) /\ Started(p, r, "delete", "retire", "none")
           /\ UNCHANGED acked
  <2> DEFINE q == [Ended EXCEPT !.at = "retire", !.act = "delete", !.ref = r,
                                !.kind = "none"]
  <2>1. GuestOf(r) \in Guests /\ OpsLapse
    BY <1>4, CleanupGoesOn DEF OpsLapse
  <2>2. q \in Run /\ q.lease = None /\ RunFacts(q) /\ run' = [run EXCEPT ![p] = q]
    BY <1>4, <2>1 DEF Started, RunFacts, Holding
  <2> HIDE DEF q
  <2>3. RunGoesOn
    BY <2>2 DEF RunGoesOn
  <2> QED
    BY <1>1, <1>4, <2>1, <2>3, CleanupGoesOn, LifeKeepsXInv
<1> QED
  BY <1>2, <1>3, <1>4 DEF StartDelete

\* A retirement ends a life, and a fence only when its lease has run out.
LEMMA RetireClaimKeepsXInv ==
    ASSUME XInv, NEW p \in Procs, RetireClaim(p)
    PROVE  XInv'
<1> DEFINE r == run[p].ref
           g == GuestOf(r)
<1> USE DEF proxmox
<1>1. r \in Refs /\ g \in Guests
  BY DEF XInv, RunsOK, RunFacts, RetireClaim
<1>2. /\ UNCHANGED <<carries, rollback, proxmox, leaseEnd, gone, clock>>
      /\ acked' \subseteq Refs /\ acked' \ acked \subseteq {r}
  BY <1>1 DEF RetireClaim, Retired, registry, XInv, XTypeOK
<1>3. RunGoesOn
  BY ExitGoesOn DEF RetireClaim
<1>4. /\ \/ /\ life' = [life EXCEPT ![g].phase = "retiring"]
            /\ op' = [op EXCEPT ![g] = Registry!NoOp]
            /\ op[g] = Registry!NoOp \/ op[g].expires <= clock
         \/ /\ life[g].phase = "retiring" /\ life' = life /\ op' = op
  BY DEF RetireClaim, Retired, Retirable, FenceExpired, registry
<1>5. life \in [Guests -> Lives] /\ clock \in Nat
      /\ op \in [Guests -> [id : Leases \cup {None}, expires : Nat]]
  BY DEF XInv, XTypeOK, Lives, Phases
<1>6. \A h \in Guests : op[h] # Registry!NoOp => life[h].phase = "managed"
  BY DEF XInv, FenceOK
<1> HIDE DEF g, r
<1>7. OpsLapse
  BY <1>1, <1>4, <1>5 DEF OpsLapse
<1>8. life' \in [Guests -> Lives] /\ life'[g].phase = "retiring"
  <2>1. [life[g] EXCEPT !.phase = "retiring"] \in Lives
    BY <1>1, <1>5 DEF Lives, Phases
  <2>2. CASE life' = [life EXCEPT ![g] = [life[g] EXCEPT !.phase = "retiring"]]
    BY <1>1, <1>5, <2>1, <2>2 DEF Lives
  <2>3. CASE life[g].phase = "retiring" /\ life' = life
    BY <1>5, <2>3
  <2> QED
    BY <1>4, <2>2, <2>3
<1>9. \A h \in Guests : /\ life'[h].gen = life[h].gen /\ life[h].gen \in Nat
                        /\ h # g => life'[h] = life[h] /\ op'[h] = op[h]
  BY <1>1, <1>4, <1>5 DEF Lives
<1>10. op'[g] = Registry!NoOp
  BY <1>1, <1>4, <1>5, <1>6
<1>11. \A h \in Guests : LifeGoesOn(h)
  BY <1>6, <1>8, <1>9, <1>10 DEF LifeGoesOn, Settled
<1>12. \A s \in acked' \ acked : GuestOf(s) \in Guests
                                 /\ life'[GuestOf(s)].phase \in Settled
  BY <1>1, <1>2, <1>8 DEF g, Settled
<1> QED
  BY <1>2, <1>3, <1>7, <1>8, <1>11, <1>12, LifeKeepsXInv

\* A new VM carries the details of the present life.
LEMMA DeployKeepsXInv ==
    ASSUME XInv, NEW r \in Refs, NEW g \in Guests, Deploy(r, g)
    PROVE  XInv'
<1> USE DEF proxmox
<1>1. /\ GuestOf(r) = None
      /\ carries' = [carries EXCEPT ![r] = [guest |-> g, gen |-> life[g].gen]]
      /\ UNCHANGED <<life, op, clock, acked, rollback, proxmox, run, leaseEnd>>
      /\ gone' \subseteq Refs
  BY DEF Deploy, Registry!CloudStack, XInv, XTypeOK
<1>2. \A s \in Refs : GuestOf(s) \in Guests => s # r /\ carries'[s] = carries[s]
  BY <1>1 DEF XInv, XTypeOK
<1>3. carries'[r] = [guest |-> g, gen |-> life[g].gen] /\ life[g].gen \in Nat
  BY <1>1 DEF XInv, XTypeOK
<1>4. XTypeOK'
  BY <1>1, <1>3 DEF XInv, XTypeOK
<1>5. FenceOK' /\ TasksOK' /\ HoldersDistinct'
  BY <1>1 DEF XInv, FenceOK, TasksOK, TaskOK, Fences, HoldersDistinct
<1>6. RunsOK'
  <2> SUFFICES ASSUME NEW p \in Procs PROVE RunFacts(run[p])'
    BY DEF RunsOK
  <2>1. RunFacts(run[p])
    BY DEF XInv, RunsOK
  <2>2. run[p].at # "idle" => GuestOf(run[p].ref)' = GuestOf(run[p].ref)
    BY <1>1, <1>2, <2>1 DEF RunFacts, GuestOf
  <2> QED
    BY <1>1, <2>1, <2>2 DEF RunFacts, Fences, Holding
<1>7. CarriedOK'
  <2> SUFFICES ASSUME NEW s \in Refs, carries'[s].guest \in Guests
               PROVE  carries'[s].gen <= life[carries'[s].guest].gen
    BY <1>1 DEF CarriedOK, GuestOf
  <2>1. CASE s = r
    BY <1>3, <2>1
  <2>2. CASE s # r
    <3>1. carries'[s] = carries[s]
      BY <1>1, <2>2 DEF XInv, XTypeOK
    <3> QED
      BY <3>1 DEF XInv, CarriedOK, GuestOf
  <2> QED
    BY <2>1, <2>2
<1>8. AckedOK'
  <2> SUFFICES ASSUME NEW s \in acked
               PROVE  /\ carries'[s].guest \in Guests
                      /\ life[carries'[s].guest].gen = carries'[s].gen =>
                            life[carries'[s].guest].phase \in Settled
    BY <1>1 DEF AckedOK, IdentityOf, GuestOf, Settled
  <2>1. s \in Refs /\ GuestOf(s) \in Guests
    BY DEF XInv, XTypeOK, AckedOK
  <2>2. carries'[s] = carries[s]
    BY <1>2, <2>1
  <2> QED
    BY <2>1, <2>2 DEF XInv, AckedOK, IdentityOf, GuestOf, Settled
<1> QED
  BY <1>4, <1>5, <1>6, <1>7, <1>8 DEF XInv

\* The cleanup of an execution, and CloudStack forgetting a VM.
LEMMA OtherKeepsXInv ==
    ASSUME XInv, rollback' \subseteq Refs, gone' \subseteq Refs,
           UNCHANGED <<life, op, clock, carries, acked, proxmox, run, leaseEnd>>
    PROVE  XInv'
<1> USE DEF proxmox
<1>1. XTypeOK'
  BY DEF XInv, XTypeOK
<1>2. FenceOK' /\ RunsOK' /\ HoldersDistinct'
  BY DEF XInv, FenceOK, RunsOK, RunFacts, Fences, GuestOf, HoldersDistinct
<1>3. TasksOK' /\ CarriedOK' /\ AckedOK'
  BY DEF XInv, TasksOK, TaskOK, Fences, CarriedOK, AckedOK, GuestOf, IdentityOf
<1> QED
  BY <1>1, <1>2, <1>3 DEF XInv

----------------------------------------------------------------------------
(* The whole module.                                                       *)

\* No step of a script run, the service, Proxmox, CloudStack or the clock breaks
\* it.
THEOREM NextKeepsXInv == XInv /\ [XNext]_xvars => XInv'
<1> SUFFICES ASSUME XInv, [XNext]_xvars PROVE XInv'
  OBVIOUS
<1>1. ASSUME NEW p \in Procs, Step(p) PROVE XInv'
  <2>1. CASE Abandon(p)
    BY <2>1, ExitKeepsXInv DEF Abandon
  <2>2. CASE \E l \in Leases : Acquire(p, l)
    BY <2>2, AcquireKeepsXInv
  <2> QED
    BY <1>1, <2>1, <2>2, BindKeepsXInv, RecoverKeepsXInv, ReceiveKeepsXInv,
       SubmitKeepsXInv, PollKeepsXInv, VerifyKeepsXInv, CompleteKeepsXInv,
       RetireClaimKeepsXInv DEF Step
<1>2. ASSUME NEW p \in Procs, CloudStackCalls(p) PROVE XInv'
  BY <1>2, StartCreateKeepsXInv, StartDeleteKeepsXInv, StartOperationKeepsXInv
     DEF CloudStackCalls
<1>3. ASSUME NEW r \in Refs, RequestCleanup(r) \/ Expunge(r) PROVE XInv'
  <2>1. rollback' \subseteq Refs /\ gone' \subseteq Refs
    BY <1>3 DEF RequestCleanup, Expunge, Registry!CloudStack, registry, cloudstack,
                XInv, XTypeOK
  <2>2. UNCHANGED <<life, op, clock, carries, acked, proxmox, run, leaseEnd>>
    BY <1>3 DEF RequestCleanup, Expunge, Registry!CloudStack, registry, cloudstack
  <2> QED
    BY <2>1, <2>2, OtherKeepsXInv
<1>4. CASE World
  BY <1>3, <1>4, TaskEndsKeepsXInv, ServiceKeepsXInv, DeployKeepsXInv, TickKeepsXInv
     DEF World
<1>5. CASE UNCHANGED xvars
  <2>1. rollback' \subseteq Refs /\ gone' \subseteq Refs
    BY <1>5 DEF xvars, registry, cloudstack, XInv, XTypeOK
  <2> QED
    BY <1>5, <2>1, OtherKeepsXInv DEF xvars, registry, cloudstack
<1> QED
  BY <1>1, <1>2, <1>4, <1>5 DEF XNext

\* So it holds in every reachable state.
THEOREM ExtensionInvariant == XSpec => []XInv
BY InitXInv, NextKeepsXInv, PTL DEF XSpec

\* Every run, task and VM keeps its type, whatever is killed or lost.
THEOREM ExtensionTypeOK == XSpec => []XTypeOK
<1>1. XInv => XTypeOK
  BY DEF XInv
<1> QED
  BY <1>1, ExtensionInvariant, PTL

\* A task in flight under a lease that lasts keeps its guest managed and fenced,
\* for any number of overlapping runs, whichever of them die.
THEOREM TasksHoldTheirFence == XSpec => []TaskHoldsFence
<1>1. XInv => TaskHoldsFence
  <2> SUFFICES ASSUME XInv, NEW l \in Leases, task[l].status = "running",
                      leaseEnd[l] > clock
               PROVE  life[task[l].guest].phase = "managed" /\ op[task[l].guest].id = l
    BY DEF TaskHoldsFence
  <2>1. task[l].guest \in Guests /\ op[task[l].guest].id = l
    BY DEF XInv, TasksOK, TaskOK, Fences
  <2>2. op[task[l].guest] # Registry!NoOp
    BY <2>1
  <2> QED
    BY <2>1, <2>2 DEF XInv, FenceOK
<1> QED
  BY <1>1, ExtensionInvariant, PTL

\* A VM whose delete was acknowledged neither owns a bound or managed guest then
\* nor ever after, however its two registry calls were answered.
THEOREM AcknowledgedDeletesAreFinal == XSpec => []AcknowledgedDeleteEndsLife
<1>1. XInv => AcknowledgedDeleteEndsLife
  BY DEF XInv, AckedOK, AcknowledgedDeleteEndsLife, Owns, Settled
<1> QED
  BY <1>1, ExtensionInvariant, PTL

\* Every step of the script and of those it shares the registry with is a step
\* that ClaimLifecycle allows, or none of its business.
LEMMA StepIsLifecycleStep ==
    XInv /\ [XNext]_xvars => [Registry!LNext]_(Registry!lvars)
<1> SUFFICES ASSUME XInv, [XNext]_xvars, ~ UNCHANGED registry
             PROVE  Registry!LNext
  BY DEF Registry!lvars, registry
<1> USE DEF Registry!LNext
<1>1. ASSUME NEW p \in Procs, Step(p) PROVE Registry!LNext
  <2>1. run[p].at # "idle" => run[p].ref \in Refs /\ GuestOf(run[p].ref) \in Guests
    BY DEF XInv, RunsOK, RunFacts
  <2>2. CASE Bind(p)
    BY <2>1, <2>2 DEF Bind
  <2>3. CASE Recover(p)
    BY <2>1, <2>3 DEF Recover
  <2>4. CASE Complete(p)
    BY <2>1, <2>4 DEF Complete
  <2>5. CASE \E l \in Leases : Acquire(p, l)
    <3>1. PICK l \in Leases : Acquire(p, l)
      BY <2>5
    <3>2. Registry!BeginOp(GuestOf(run[p].ref), l)
      BY <3>1 DEF Acquire
    <3>3. GuestOf(run[p].ref) \in Guests
      BY <2>1, <3>1 DEF Acquire
    <3> QED
      BY <3>2, <3>3
  <2>6. CASE RetireClaim(p)
    <3> DEFINE g == GuestOf(run[p].ref)
    <3>1. g \in Guests
      BY <2>1, <2>6 DEF RetireClaim
    <3>2. Registry!Retire(g)
      BY <2>6 DEF RetireClaim, Retired, Retirable, FenceExpired, Registry!Retire,
                  Registry!Move, registry
    <3> QED
      BY <3>1, <3>2
  <2>7. CASE Receive(p) \/ Submit(p) \/ Poll(p) \/ Verify(p) \/ Abandon(p)
    BY <2>7 DEF Receive, Submit, Poll, Verify, Abandon
  <2> QED
    BY <1>1, <2>2, <2>3, <2>4, <2>5, <2>6, <2>7 DEF Step
<1>2. ASSUME NEW p \in Procs, CloudStackCalls(p) PROVE Registry!LNext
  <2>1. PICK r \in Refs : StartDelete(p, r)
    BY <1>2 DEF CloudStackCalls, StartCreate, StartOperation
  <2>2. CleanupAuthorized(r)
    BY <2>1 DEF StartDelete
  <2>3. GuestOf(r) \in Guests /\ Registry!Rollback(GuestOf(r))
    BY <2>2 DEF CleanupAuthorized, IdentityOf, Registry!Rollback, Registry!Move,
                registry
  <2> QED
    BY <2>3
<1>3. CASE World
  <2>1. CASE \E l \in Leases : TaskEnds(l)
    BY <2>1 DEF TaskEnds
  <2>2. CASE \E g \in Guests : Service(g)
    BY <2>2 DEF Service
  <2>3. CASE \E r \in Refs, g \in Guests : Deploy(r, g)
    BY <2>3 DEF Deploy
  <2>4. CASE \E r \in Refs : RequestCleanup(r) \/ Expunge(r)
    BY <2>4 DEF RequestCleanup, Expunge
  <2>5. CASE Tick
    BY <2>5 DEF Tick
  <2> QED
    BY <1>3, <2>1, <2>2, <2>3, <2>4, <2>5 DEF World
<1>4. CASE UNCHANGED xvars
  BY <1>4 DEF xvars
<1> QED
  BY <1>1, <1>2, <1>3, <1>4 DEF XNext

\* The script implements the registry's contract for every constant: composing
\* it with ClaimLifecycle adds no behaviour that the registry does not promise.
THEOREM ExtensionKeepsLifecycle == XSpec => KeepsLifecycle
<1>1. XInit => Registry!LInit
  BY DEF XInit
<1> QED
  BY <1>1, ExtensionInvariant, StepIsLifecycleStep, PTL
     DEF XSpec, KeepsLifecycle, Registry!LifecycleSpec

----------------------------------------------------------------------------
(* What a completion reports. A run under a live lease is the only one that  *)
(* changes its guest's power, unless a lease ran out under its task: then    *)
(* that lease is spoiled, and stays so.                                      *)

SpoiledBy(k) == task[k].late \/ (task[k].status = "running" /\ leaseEnd[k] <= clock)

\* Lease l lasts, and no task of another lease outlived that one.
Undisturbed(l) ==
    /\ leaseEnd[l] > clock
    /\ \A k \in Leases \ {l} : ~ SpoiledBy(k)

\* A task that ended late belongs to a lease that ran out.
LateIsOver == \A k \in Leases : task[k].late => leaseEnd[k] # 0 /\ leaseEnd[k] <= clock

\* The request a run is about to submit, or has submitted, is the one its
\* operation needs: only a restore submits two, the start after the rollback.
AsksFor(q) ==
    q.at \in Holding \cup {"acquire"} =>
        /\ q.act \in LeasedOperations
        /\ q.kind = Mutation[q.act] \/ (q.act = "restore" /\ q.kind = "start")
        /\ q.at = "verify" => q.act = "restore"

\* A run waits for its own task, and once that has ended well, the guest has the
\* power state the operation promised, until the lease is completed.
Delivers(q) ==
    /\ q.at = "wait" /\ task[q.lease].status = "running" =>
          task[q.lease].kind = q.kind /\ task[q.lease].guest = GuestOf(q.ref)
    /\ q.at \in {"wait", "complete"} /\ Undisturbed(q.lease) =>
          \/ q.at = "wait" /\ (task[q.lease].status # "ok" \/ q.kind = "rollback")
          \/ power[GuestOf(q.ref)] \in Promised(q.act)

DoneRest == LateIsOver /\ \A p \in Procs : AsksFor(run[p]) /\ Delivers(run[p])

\* The rest of the state as the facts about completions see it.
doneVars == <<task, power, leaseEnd, carries, clock>>

\* A step of one run that submits nothing.
LEMMA QuietRunKeepsDone ==
    ASSUME XInv, DoneRest, NEW p \in Procs, NEW q \in Run,
           run' = [run EXCEPT ![p] = q], UNCHANGED doneVars,
           AsksFor(q), Delivers(q)
    PROVE  DoneRest'
<1>1. LateIsOver'
  BY DEF DoneRest, LateIsOver, doneVars
<1>2. ASSUME NEW s \in Procs PROVE AsksFor(run'[s]) /\ Delivers(run'[s])
  BY DEF DoneRest, XInv, XTypeOK
<1>3. ASSUME NEW s \in Procs PROVE AsksFor(run[s])' /\ Delivers(run[s])'
  BY <1>2 DEF AsksFor, Delivers, Undisturbed, SpoiledBy, GuestOf, doneVars
<1> QED
  BY <1>1, <1>3 DEF DoneRest

\* A run that is not waiting and not about to complete owes nothing yet.
LEMMA ExitKeepsDone ==
    ASSUME XInv, DoneRest, NEW p \in Procs, run' = [run EXCEPT ![p] = Ended],
           UNCHANGED doneVars
    PROVE  DoneRest'
<1>1. Ended \in Run /\ AsksFor(Ended) /\ Delivers(Ended)
  BY DEF AsksFor, Delivers, Holding
<1> QED
  BY <1>1, QuietRunKeepsDone

LEMMA StartedKeepsDone ==
    ASSUME XInv, DoneRest, NEW p \in Procs, NEW r \in Refs,
           NEW act \in LeasedOperations \cup {"create", "delete"},
           NEW at \in {"bind", "acquire", "retire"}, NEW kind \in Kinds \cup {"none"},
           Started(p, r, act, at, kind), UNCHANGED doneVars,
           at = "acquire" => act \in LeasedOperations /\ kind = Mutation[act]
    PROVE  DoneRest'
<1> DEFINE q == [Ended EXCEPT !.at = at, !.act = act, !.ref = r, !.kind = kind]
<1>1. q \in Run /\ run' = [run EXCEPT ![p] = q]
  BY DEF Started
<1>2. AsksFor(q) /\ Delivers(q)
  BY DEF AsksFor, Delivers, Holding
<1> HIDE DEF q
<1> QED
  BY <1>1, <1>2, QuietRunKeepsDone

LEMMA CallsKeepDone ==
    ASSUME XInv, DoneRest, NEW p \in Procs, CloudStackCalls(p)
    PROVE  DoneRest'
<1> USE DEF doneVars, registry, cloudstack, proxmox
<1>1. PICK r \in Refs : \/ StartCreate(p, r) \/ StartDelete(p, r)
                        \/ \E act \in Operations : StartOperation(p, r, act)
  BY DEF CloudStackCalls
<1>2. CASE StartCreate(p, r)
  BY <1>2, StartedKeepsDone DEF StartCreate
<1>3. CASE \E act \in Operations : StartOperation(p, r, act)
  <2>1. PICK act \in Operations : StartOperation(p, r, act)
    BY <1>3
  <2>2. act \in LeasedOperations /\ Mutation[act] \in Kinds \cup {"none"}
    BY MutationIsKind
  <2> QED
    BY <2>1, <2>2, StartedKeepsDone DEF StartOperation
<1>4. CASE StartDelete(p, r)
  <2>1. UNCHANGED doneVars
    BY <1>4 DEF StartDelete, CleanupAuthorized
  <2>2. CASE Started(p, r, "delete", "retire", "none")
    BY <2>1, <2>2, StartedKeepsDone
  <2>3. CASE UNCHANGED run
    BY <2>1, <2>3 DEF DoneRest, LateIsOver, AsksFor, Delivers, Undisturbed, SpoiledBy,
                      GuestOf
  <2> QED
    BY <1>4, <2>2, <2>3 DEF StartDelete
<1> QED
  BY <1>1, <1>2, <1>3, <1>4

\* The answers a run gets: a lease that lasts, a task that ended well, a power
\* state.
LEMMA AnswerKeepsDone ==
    ASSUME XInv, DoneRest, NEW p \in Procs, Receive(p) \/ Poll(p) \/ Verify(p)
    PROVE  DoneRest'
<1> USE DEF doneVars, registry, cloudstack, proxmox
<1>1. UNCHANGED doneVars
  BY DEF Receive, Poll, Verify
<1>2. /\ run[p] \in Run /\ AsksFor(run[p]) /\ Delivers(run[p])
      /\ run[p].ref \in Refs \cup {None} /\ run \in [Procs -> Run]
      /\ RunFacts(run[p]) /\ power \in [Guests -> {"running", "stopped"}]
  BY DEF DoneRest, XInv, XTypeOK, RunsOK
<1>3. CASE Receive(p)
  <2> DEFINE q == [run[p] EXCEPT !.at = IF run[p].act = "console" THEN "complete"
                                                                  ELSE "submit"]
  <2>1. q \in Run /\ run' = [run EXCEPT ![p] = q]
    BY <1>2, <1>3 DEF Receive, Goto
  <2>2. AsksFor(q)
    BY <1>2, <1>3 DEF Receive, AsksFor, Holding
  <2>3. Delivers(q)
    BY <1>2, <1>3 DEF Receive, Delivers, Promised, RunFacts, Holding
  <2> QED
    BY <1>1, <2>1, <2>2, <2>3, QuietRunKeepsDone
<1>4. CASE Poll(p)
  <2> DEFINE q == [run[p] EXCEPT !.at = IF run[p].kind = "rollback" THEN "verify"
                                                                   ELSE "complete"]
  <2>1. q \in Run /\ run' = [run EXCEPT ![p] = q]
    BY <1>2, <1>4 DEF Poll, Goto
  <2>2. AsksFor(q)
    BY <1>2, <1>4 DEF Poll, AsksFor, Holding, Mutation
  <2>3. Delivers(q)
    BY <1>2, <1>4 DEF Poll, Delivers, TaskDone
  <2> QED
    BY <1>1, <2>1, <2>2, <2>3, QuietRunKeepsDone
<1>5. CASE Verify(p)
  <2>1. CASE power[GuestOf(run[p].ref)] = "running"
    <3> DEFINE q == [run[p] EXCEPT !.at = "complete"]
    <3>1. q \in Run /\ run' = [run EXCEPT ![p] = q]
      BY <1>2, <1>5, <2>1 DEF Verify
    <3>2. AsksFor(q) /\ q.act = "restore"
      BY <1>2, <1>5 DEF Verify, AsksFor, Holding
    <3>3. Delivers(q)
      BY <1>2, <1>5, <2>1, <3>2 DEF Delivers, Promised
    <3> QED
      BY <1>1, <3>1, <3>2, <3>3, QuietRunKeepsDone
  <2>2. CASE power[GuestOf(run[p].ref)] # "running"
    <3> DEFINE q == [run[p] EXCEPT !.at = "submit", !.kind = "start"]
    <3>1. q \in Run
      BY <1>2
    <3>2. run' = [run EXCEPT ![p] = q]
      BY <1>2, <1>5, <2>2 DEF Verify
    <3>3. AsksFor(q) /\ Delivers(q)
      BY <1>2, <1>5 DEF Verify, AsksFor, Delivers, Holding
    <3> HIDE DEF q
    <3> QED
      BY <1>1, <3>1, <3>2, <3>3, QuietRunKeepsDone
  <2> QED
    BY <2>1, <2>2
<1> QED
  BY <1>3, <1>4, <1>5

\* A new lease has no task yet, and no run holds it.
LEMMA AcquireKeepsDone ==
    ASSUME XInv, DoneRest, NEW p \in Procs, NEW l \in Leases, Acquire(p, l)
    PROVE  DoneRest'
<1> USE DEF registry, cloudstack, proxmox
<1>1. /\ leaseEnd[l] = 0 /\ leaseEnd' = [leaseEnd EXCEPT ![l] = clock + LeaseTicks]
      /\ run[p].at = "acquire"
      /\ run' = [run EXCEPT ![p].at = "granted", ![p].lease = l]
      /\ UNCHANGED <<task, power, carries, clock>>
  BY DEF Acquire, Registry!BeginOp
<1>2. /\ run \in [Procs -> Run] /\ leaseEnd \in [Leases -> Nat] /\ clock \in Nat
      /\ task[l].status = "none" /\ ~ task[l].late
  BY <1>1 DEF XInv, XTypeOK, TasksOK, TaskOK, DoneRest, LateIsOver
<1>3. LateIsOver'
  BY <1>1, <1>2 DEF DoneRest, LateIsOver
<1>4. ASSUME NEW k \in Leases, k # l, Undisturbed(k)' PROVE Undisturbed(k)
  BY <1>1, <1>2, <1>4 DEF Undisturbed, SpoiledBy
<1>5. ASSUME NEW s \in Procs PROVE AsksFor(run[s])' /\ Delivers(run[s])'
  <2>1. AsksFor(run[s]) /\ Delivers(run[s]) /\ RunFacts(run[s])
    BY DEF DoneRest, XInv, RunsOK
  <2>2. CASE s = p
    <3>1. run'[p] = [run[p] EXCEPT !.at = "granted", !.lease = l]
      BY <1>1, <1>2
    <3> QED
      BY <1>1, <1>2, <2>1, <2>2, <3>1 DEF AsksFor, Delivers, Holding
  <2>3. CASE s # p
    <3>1. run'[s] = run[s]
      BY <1>1, <1>2, <2>3
    <3>2. CASE run[s].at \notin {"wait", "complete"}
      BY <2>1, <3>1, <3>2 DEF AsksFor, Delivers
    <3>3. CASE run[s].at \in {"wait", "complete"}
      <4>1. run[s].lease \in Leases /\ run[s].lease # l
        BY <1>1, <2>1, <3>3 DEF RunFacts, Holding
      <4>2. Undisturbed(run[s].lease)' => Undisturbed(run[s].lease)
        BY <1>4, <3>1, <4>1
      <4> QED
        BY <1>1, <2>1, <3>1, <4>2 DEF AsksFor, Delivers, GuestOf
    <3> QED
      BY <3>2, <3>3
  <2> QED
    BY <2>2, <2>3
<1> QED
  BY <1>3, <1>5 DEF DoneRest

\* A second task under the same lease follows the first.
LEMMA SubmitKeepsDone ==
    ASSUME XInv, DoneRest, NEW p \in Procs, Submit(p)
    PROVE  DoneRest'
<1> USE DEF registry, cloudstack, proxmox
<1> DEFINE l == run[p].lease
           t == [kind |-> run[p].kind, guest |-> GuestOf(run[p].ref),
                 status |-> "running", late |-> FALSE]
<1>1. /\ run[p].at = "submit" /\ task' = [task EXCEPT ![l] = t]
      /\ Goto(p, "wait") \/ Exit(p)
      /\ UNCHANGED <<power, carries, clock, leaseEnd>>
  BY DEF Submit
<1>2. /\ run \in [Procs -> Run] /\ task \in [Leases -> Task] /\ l \in Leases
      /\ task[l].status # "running"
  BY <1>1 DEF XInv, XTypeOK, RunsOK, RunFacts, Holding
<1>3. LateIsOver'
  BY <1>1, <1>2 DEF DoneRest, LateIsOver
<1>4. ASSUME NEW k \in Leases, Undisturbed(k)' PROVE Undisturbed(k)
  BY <1>1, <1>2, <1>4 DEF Undisturbed, SpoiledBy, DoneRest, LateIsOver, XInv, XTypeOK
<1>5. ASSUME NEW s \in Procs PROVE AsksFor(run[s])' /\ Delivers(run[s])'
  <2>1. AsksFor(run[s]) /\ Delivers(run[s]) /\ RunFacts(run[s])
    BY DEF DoneRest, XInv, RunsOK
  <2>2. CASE s = p
    <3>1. task'[l] = t
      BY <1>1, <1>2
    <3>2. CASE Goto(p, "wait")
      <4>1. run'[p] = [run[p] EXCEPT !.at = "wait"]
        BY <1>2, <3>2 DEF Goto
      <4> QED
        BY <1>1, <1>2, <2>1, <2>2, <3>1, <4>1 DEF AsksFor, Delivers, Holding, GuestOf
    <3>3. CASE Exit(p)
      <4>1. run'[p] = Ended
        BY <1>2, <3>3 DEF Exit
      <4> QED
        BY <2>2, <4>1 DEF AsksFor, Delivers, Holding
    <3> QED
      BY <1>1, <3>2, <3>3
  <2>3. CASE s # p
    <3>1. run'[s] = run[s]
      BY <1>1, <1>2, <2>3 DEF Goto, Exit
    <3>2. CASE run[s].at \notin {"wait", "complete"}
      BY <2>1, <3>1, <3>2 DEF AsksFor, Delivers
    <3>3. CASE run[s].at \in {"wait", "complete"}
      <4>1. run[s].lease \in Leases
        BY <2>1, <3>3 DEF RunFacts, Holding
      <4>2. run[s].lease # l
        BY <1>2, <2>3, <4>1 DEF XInv, HoldersDistinct
      <4>3. task'[run[s].lease] = task[run[s].lease]
        BY <1>1, <1>2, <4>1, <4>2
      <4>4. Undisturbed(run[s].lease)' => Undisturbed(run[s].lease)
        BY <1>4, <3>1, <4>1
      <4> QED
        BY <1>1, <2>1, <3>1, <4>3, <4>4 DEF AsksFor, Delivers, GuestOf
    <3> QED
      BY <3>2, <3>3
  <2> QED
    BY <2>2, <2>3
<1> QED
  BY <1>3, <1>5 DEF DoneRest

\* A task that ends delivers what its run waits for. The guest of another lease
\* that lasts is not the guest of this task, unless this lease ran out.
LEMMA TaskEndsKeepsDone ==
    ASSUME XInv, DoneRest, NEW k \in Leases, TaskEnds(k)
    PROVE  DoneRest'
<1> USE DEF registry, cloudstack, proxmox
<1> DEFINE t == task[k]
<1>1. /\ t.status = "running" /\ t.guest \in Guests /\ Fences(k, t.guest)
      /\ leaseEnd[k] # 0
      /\ task \in [Leases -> Task] /\ power \in [Guests -> {"running", "stopped"}]
      /\ leaseEnd \in [Leases -> Nat] /\ clock \in Nat
  BY DEF TaskEnds, XInv, XTypeOK, TasksOK, TaskOK
<1>2. /\ UNCHANGED <<run, carries, clock, leaseEnd>>
      /\ task'[k].late = (leaseEnd[k] <= clock) /\ task'[k].status \in {"ok", "failed"}
      /\ \A j \in Leases \ {k} : task'[j] = task[j]
      /\ \A h \in Guests \ {t.guest} : power'[h] = power[h]
      /\ task'[k].status = "ok" =>
            /\ t.kind = "start" => power'[t.guest] = "running"
            /\ t.kind = "stop" => power'[t.guest] = "stopped"
            /\ t.kind = "reboot" => power'[t.guest] = "running"
  <2>1. UNCHANGED <<run, carries, clock, leaseEnd>>
    BY DEF TaskEnds
  <2>2. CASE /\ task' = [task EXCEPT ![k] = [NoTask EXCEPT !.status = "failed",
                                                 !.late = leaseEnd[k] <= clock]]
             /\ UNCHANGED power
    BY <1>1, <2>1, <2>2
  <2>3. CASE /\ t.kind = "reboot" => power[t.guest] = "running"
             /\ \E e \in CASE t.kind = "start" -> {"running"}
                           [] t.kind = "stop" -> {"stopped"}
                           [] t.kind = "rollback" -> {"running", "stopped"}
                           [] OTHER -> {power[t.guest]} :
                   power' = [power EXCEPT ![t.guest] = e]
             /\ task' = [task EXCEPT ![k] = [NoTask EXCEPT !.status = "ok",
                                                 !.late = leaseEnd[k] <= clock]]
    BY <1>1, <2>1, <2>3
  <2> QED
    BY <2>2, <2>3 DEF TaskEnds
<1>3. LateIsOver'
  BY <1>1, <1>2 DEF DoneRest, LateIsOver
<1>4. ASSUME NEW l \in Leases, Undisturbed(l)' PROVE Undisturbed(l)
  <2>1. ~ t.late \/ leaseEnd[k] <= clock
    BY DEF DoneRest, LateIsOver
  <2> QED
    BY <1>1, <1>2, <1>4, <2>1 DEF Undisturbed, SpoiledBy
<1>5. ASSUME NEW s \in Procs PROVE AsksFor(run[s])' /\ Delivers(run[s])'
  <2>1. /\ AsksFor(run[s]) /\ Delivers(run[s]) /\ RunFacts(run[s]) /\ run[s] \in Run
        /\ run'[s] = run[s] /\ GuestOf(run[s].ref)' = GuestOf(run[s].ref)
    BY <1>2 DEF DoneRest, XInv, XTypeOK, RunsOK, GuestOf
  <2>2. AsksFor(run[s])'
    BY <2>1 DEF AsksFor
  <2>3. CASE run[s].at \notin {"wait", "complete"}
    BY <2>1, <2>2, <2>3 DEF Delivers
  <2>4. CASE run[s].at \in {"wait", "complete"} /\ run[s].lease = k
    <3>1. /\ run[s].at = "wait" /\ t.kind = run[s].kind
          /\ t.guest = GuestOf(run[s].ref)
      BY <1>1, <2>1, <2>4 DEF RunFacts, Holding, Delivers
    <3>2. task'[k].status = "ok" /\ run[s].kind # "rollback" =>
             power'[t.guest] \in Promised(run[s].act)
      <4>1. power'[t.guest] \in {"running", "stopped"}
        BY <1>1 DEF TaskEnds, XInv, XTypeOK
      <4> QED
        BY <1>2, <2>1, <3>1, <4>1 DEF AsksFor, Holding, Mutation, Promised
    <3> QED
      BY <1>2, <2>1, <2>2, <2>4, <3>1, <3>2 DEF Delivers
  <2>5. CASE run[s].at \in {"wait", "complete"} /\ run[s].lease # k
    <3> DEFINE l == run[s].lease
               h == GuestOf(run[s].ref)
    <3>1. /\ l \in Leases /\ h \in Guests /\ Fences(l, h) /\ task'[l] = task[l]
      BY <1>2, <2>1, <2>5 DEF RunFacts, Holding
    <3>2. ASSUME Undisturbed(l)' PROVE Undisturbed(l) /\ power'[h] = power[h]
      <4>1. Undisturbed(l)
        BY <1>4, <2>1, <3>1, <3>2
      <4>2. leaseEnd[k] > clock
        BY <1>1, <2>5, <4>1 DEF Undisturbed, SpoiledBy
      <4>3. h # t.guest
        BY <1>1, <2>5, <3>1, <4>1, <4>2 DEF Fences, Undisturbed
      <4> QED
        BY <1>2, <3>1, <4>1, <4>3
    <3> QED
      BY <2>1, <2>2, <3>1, <3>2 DEF Delivers
  <2> QED
    BY <2>3, <2>4, <2>5
<1> QED
  BY <1>3, <1>5 DEF DoneRest

\* Whatever else happens, time goes on and runs keep their guests.
LEMMA OtherKeepsDone ==
    ASSUME XInv, DoneRest, UNCHANGED <<task, power, leaseEnd, run>>,
           clock' \in Nat, clock <= clock',
           \A r \in Refs : GuestOf(r) \in Guests => GuestOf(r)' = GuestOf(r)
    PROVE  DoneRest'
<1>1. leaseEnd \in [Leases -> Nat] /\ clock \in Nat
  BY DEF XInv, XTypeOK
<1>2. LateIsOver'
  BY <1>1 DEF DoneRest, LateIsOver
<1>3. ASSUME NEW l \in Leases, Undisturbed(l)' PROVE Undisturbed(l)
  BY <1>1, <1>3 DEF Undisturbed, SpoiledBy
<1>4. ASSUME NEW s \in Procs PROVE AsksFor(run[s])' /\ Delivers(run[s])'
  <2>1. AsksFor(run[s]) /\ Delivers(run[s]) /\ RunFacts(run[s])
    BY DEF DoneRest, XInv, RunsOK
  <2>2. CASE run[s].at \notin {"wait", "complete"}
    BY <2>1, <2>2 DEF AsksFor, Delivers
  <2>3. CASE run[s].at \in {"wait", "complete"}
    <3>1. /\ run[s].lease \in Leases /\ run[s].ref \in Refs
          /\ GuestOf(run[s].ref)' = GuestOf(run[s].ref)
      BY <2>1, <2>3 DEF RunFacts, Holding
    <3> QED
      BY <1>3, <2>1, <3>1 DEF AsksFor, Delivers
  <2> QED
    BY <2>2, <2>3
<1> QED
  BY <1>2, <1>4 DEF DoneRest

LEMMA NextKeepsDone == XInv /\ DoneRest /\ [XNext]_xvars => DoneRest'
<1> SUFFICES ASSUME XInv, DoneRest, [XNext]_xvars PROVE DoneRest'
  OBVIOUS
<1> USE DEF registry, cloudstack, proxmox
<1>1. ASSUME NEW p \in Procs, Step(p) PROVE DoneRest'
  <2>1. CASE Bind(p) \/ Complete(p) \/ RetireClaim(p) \/ Abandon(p)
    <3>1. UNCHANGED doneVars /\ run' = [run EXCEPT ![p] = Ended]
      BY <2>1 DEF Bind, Complete, RetireClaim, Abandon, Exit, Retired, doneVars,
                  Registry!Own, Registry!EndOp
    <3> QED
      BY <3>1, ExitKeepsDone
  <2>2. CASE Recover(p)
    <3>1. UNCHANGED <<task, power, leaseEnd, run, carries, clock>>
      BY <2>2 DEF Recover, Registry!EndOp
    <3> QED
      BY <3>1, OtherKeepsDone DEF GuestOf, XInv, XTypeOK
  <2>3. CASE \E l \in Leases : Acquire(p, l)
    BY <2>3, AcquireKeepsDone
  <2>4. CASE Receive(p) \/ Poll(p) \/ Verify(p)
    BY <2>4, AnswerKeepsDone
  <2> QED
    BY <1>1, <2>1, <2>2, <2>3, <2>4, SubmitKeepsDone DEF Step
<1>2. CASE World
  <2>1. CASE \E l \in Leases : TaskEnds(l)
    BY <2>1, TaskEndsKeepsDone
  <2>2. CASE ~ \E l \in Leases : TaskEnds(l)
    <3>1. UNCHANGED <<task, power, leaseEnd, run>> /\ clock' \in {clock, clock + 1}
      BY <1>2, <2>2 DEF World, Service, Deploy, RequestCleanup, Expunge, Tick,
         Registry!Reserve, Registry!Activate, Registry!Release, Registry!Rollback,
         Registry!Move, Registry!CloudStack, Registry!Advance
    <3>2. \A r \in Refs : GuestOf(r) \in Guests => GuestOf(r)' = GuestOf(r)
      <4>1. CASE \E s \in Refs, g \in Guests : Deploy(s, g)
        BY <4>1 DEF Deploy, GuestOf, XInv, XTypeOK
      <4>2. CASE UNCHANGED carries
        BY <4>2 DEF GuestOf
      <4> QED
        BY <1>2, <2>2, <4>1, <4>2 DEF World, Service, RequestCleanup, Expunge, Tick
    <3> QED
      BY <3>1, <3>2, OtherKeepsDone DEF XInv, XTypeOK
  <2> QED
    BY <2>1, <2>2
<1>3. CASE UNCHANGED xvars
  BY <1>3, OtherKeepsDone DEF xvars, GuestOf, XInv, XTypeOK
<1> QED
  BY <1>1, <1>2, <1>3, CallsKeepDone DEF XNext

\* At every completion, whatever ran beside it: as long as no lease ran out under
\* a task, an operation that is reported as complete has been carried out.
THEOREM CompletedOperationsAreDone == XSpec => CompletedMeansDone
<1>1. XInit => DoneRest
  BY DEF XInit, DoneRest, LateIsOver, AsksFor, Delivers, Holding
<1>2. XInv /\ DoneRest =>
         \A p \in Procs :
            LET l == run[p].lease
                g == GuestOf(run[p].ref)
            IN (/\ run[p].at = "complete" /\ op[g].id = l /\ op'[g].id = None
                /\ leaseEnd[l] > clock
                /\ \A k \in Leases \ {l} :
                      ~ task[k].late /\ task[k].status # "running")
               => power[g] \in Promised(run[p].act)
  BY DEF DoneRest, Delivers, Undisturbed, SpoiledBy
<1>3. XSpec => [](XInv /\ DoneRest)
  BY <1>1, InitXInv, NextKeepsXInv, NextKeepsDone, PTL DEF XSpec
<1>4. XInv /\ DoneRest /\ [XNext]_xvars =>
         [\A p \in Procs :
            LET l == run[p].lease
                g == GuestOf(run[p].ref)
            IN (/\ run[p].at = "complete" /\ op[g].id = l /\ op'[g].id = None
                /\ leaseEnd[l] > clock
                /\ \A k \in Leases \ {l} :
                      ~ task[k].late /\ task[k].status # "running")
               => power[g] \in Promised(run[p].act)]_xvars
  BY <1>2
<1> QED
  BY <1>3, <1>4, PTL DEF XSpec, CompletedMeansDone
=============================================================================
