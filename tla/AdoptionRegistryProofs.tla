----------------------- MODULE AdoptionRegistryProofs -----------------------
(***************************************************************************)
(* Proofs that the invariants of AdoptionRegistry hold for every set of    *)
(* guests, VMs, manifests, leases, workers and handlers and every bound.   *)
(* IInv is inductive: beside the invariants it records what a handler may  *)
(* still rely on between its read and its compare-and-set (RequestOK) and  *)
(* which VM a claim row names in each state (OwnerOK).                     *)
(***************************************************************************)
EXTENDS AdoptionRegistry, TLAPS

\* What the read of a request established and no later step takes back: its
\* claim and VM exist, a bind carries the details frozen in its VM, and the VM
\* of a finalization is gone for good.
ReadFacts(q) ==
    /\ q.op # "idle" => q.vmid \in Vmids
    /\ q.op \in {"bind", "finalize", "rollback"} => q.ref \in Refs
    /\ q.op = "bind" => /\ vm[q.ref].life # "none"
                        /\ vm[q.ref].vmid = q.vmid
                        /\ vm[q.ref].gen = q.gen
                        /\ vm[q.ref].manifest = q.manifest
    /\ q.op = "finalize" => vm[q.ref].life = "gone"

RequestOK == \A p \in Procs : ReadFacts(req[p])

\* Rows that exist point at rows that exist.
LinksOK ==
    /\ \A r \in Refs : vm[r].life # "none" => vm[r].vmid \in Vmids
    /\ \A r \in Refs : exec[r].phase # "none" => exec[r].vmid \in Vmids

\* An unbound claim names no VM; the VM a claim names was bound and is its own.
OwnerOK ==
    /\ \A v \in Vmids :
         claim[v].state \in {"absent", "reserved", "cleanup"} =>
             claim[v].ref = None
    /\ \A v \in Vmids :
         claim[v].ref # None => /\ claim[v].ref \in bound
                                /\ vm[claim[v].ref].vmid = v
    /\ \A r \in bound : vm[r].life # "none"

IInv ==
    /\ TypeOK /\ RequestOK /\ LinksOK /\ OwnerOK
    /\ FenceMatchesLease /\ BoundVmCarriesClaim /\ LivingBoundVmKeepsClaim
----------------------------------------------------------------------------

USE NoneIsNoValue, BoundsAreNaturals

USE DEF ClaimStates, LifecycleStates, Claim, LeaseRow, Exec, Vm, Ops, Request,
        NoClaim, NoLease, NoExec, NoVm, Idle

Phases == {"none", "running", "verifying", "cleanup_required", "cleaning", "over"}

\* The columns a worker stores keep the type of an execution row.
LEMMA ExecSaveType ==
    ASSUME exec \in [Refs -> Exec], NEW r \in Refs, NEW ph \in Phases,
           NEW w \in Workers \cup {None}, NEW n \in Nat
    PROVE  [exec EXCEPT ![r].phase = ph, ![r].worker = w, ![r].expires = n]
               \in [Refs -> Exec]
<1>1. exec[r] \in Exec
  OBVIOUS
<1>2. [exec[r] EXCEPT !.phase = ph, !.worker = w, !.expires = n] \in Exec
  BY <1>1 DEF Phases
<1> QED
  BY <1>2

\* A handler that only reads, or gives up, leaves every table as it was.
LEMMA ReadKeepsIInv ==
    ASSUME IInv, OnlyReads, NEW p \in Procs, NEW q \in Request, ReadFacts(q),
           req' = [req EXCEPT ![p] = q]
    PROVE  IInv'
<1>1. TypeOK'
  BY DEF IInv, TypeOK, OnlyReads
<1>2. RequestOK'
  BY DEF IInv, TypeOK, OnlyReads, RequestOK, ReadFacts
<1>3. LinksOK' /\ OwnerOK' /\ FenceMatchesLease' /\ BoundVmCarriesClaim'
      /\ LivingBoundVmKeepsClaim'
  BY DEF IInv, OnlyReads, LinksOK, OwnerOK, FenceMatchesLease,
         BoundVmCarriesClaim, LivingBoundVmKeepsClaim
<1> QED
  BY <1>1, <1>2, <1>3 DEF IInv

\* Binding attaches the VM whose frozen details the request carries.
LEMMA BindCasKeepsIInv ==
    ASSUME IInv, NEW p \in Procs, BindCas(p)
    PROVE  IInv'
<1> USE DEF BindCas, BindWhere, SetClaim, Done, Unbound
<1>1. TypeOK'
  <2>1. req[p].vmid \in Vmids /\ req[p].ref \in Refs
    BY DEF IInv, RequestOK, ReadFacts
  <2>2. claim[req[p].vmid] \in Claim
    BY <2>1 DEF IInv, TypeOK
  <2>3. [claim[req[p].vmid] EXCEPT !.state = "bound", !.ref = req[p].ref] \in Claim
    BY <2>1, <2>2
  <2> QED
    BY <2>1, <2>3 DEF IInv, TypeOK
<1>2. RequestOK'
  BY DEF IInv, TypeOK, RequestOK, ReadFacts
<1>3. LinksOK' /\ OwnerOK'
  BY DEF IInv, TypeOK, RequestOK, ReadFacts, LinksOK, OwnerOK
<1>4. FenceMatchesLease'
  BY DEF IInv, TypeOK, RequestOK, ReadFacts, FenceMatchesLease
<1>5. BoundVmCarriesClaim'
  BY DEF IInv, TypeOK, RequestOK, ReadFacts, BoundVmCarriesClaim
<1>6. LivingBoundVmKeepsClaim'
  BY DEF IInv, TypeOK, RequestOK, ReadFacts, LinksOK, LivingBoundVmKeepsClaim
<1> QED
  BY <1>1, <1>2, <1>3, <1>4, <1>5, <1>6 DEF IInv

\* Refreshing an unbound reservation starts a new generation for nobody.
LEMMA RefreshCasKeepsIInv ==
    ASSUME IInv, NEW p \in Procs, RefreshCas(p)
    PROVE  IInv'
<1> USE DEF RefreshCas, Unbound, SetClaim, Done
<1>1. TypeOK'
  <2>1. req[p].vmid \in Vmids /\ req[p] \in Request
    BY DEF IInv, TypeOK, RequestOK, ReadFacts
  <2>2. claim[req[p].vmid] \in Claim
    BY <2>1 DEF IInv, TypeOK
  <2>3. [claim[req[p].vmid] EXCEPT !.manifest = req[p].manifest,
                               !.gen = req[p].gen + 1] \in Claim
    <3>1. req[p].manifest \in Manifests \cup {None} /\ req[p].gen + 1 \in Nat
      BY <2>1
    <3> QED
      BY <2>2, <3>1
  <2> QED
    BY <2>1, <2>3 DEF IInv, TypeOK
<1>2. RequestOK'
  BY DEF IInv, TypeOK, RequestOK, ReadFacts
<1>3. LinksOK' /\ OwnerOK'
  BY DEF IInv, TypeOK, RequestOK, ReadFacts, LinksOK, OwnerOK
<1>4. FenceMatchesLease'
  BY DEF IInv, TypeOK, RequestOK, ReadFacts, FenceMatchesLease
<1>5. BoundVmCarriesClaim'
  BY DEF IInv, TypeOK, RequestOK, ReadFacts, BoundVmCarriesClaim
<1>6. LivingBoundVmKeepsClaim'
  BY DEF IInv, TypeOK, RequestOK, ReadFacts, LinksOK, OwnerOK,
         LivingBoundVmKeepsClaim
<1> QED
  BY <1>1, <1>2, <1>3, <1>4, <1>5, <1>6 DEF IInv

\* Reclaiming a released guest forgets an owner that is gone.
LEMMA ReclaimCasKeepsIInv ==
    ASSUME IInv, NEW p \in Procs, ReclaimCas(p)
    PROVE  IInv'
<1> USE DEF ReclaimCas, ReclaimWhere, SetClaim, Done
<1>1. TypeOK'
  <2>1. req[p].vmid \in Vmids /\ req[p] \in Request
    BY DEF IInv, TypeOK, RequestOK, ReadFacts
  <2>2. claim[req[p].vmid] \in Claim
    BY <2>1 DEF IInv, TypeOK
  <2>3. [claim[req[p].vmid] EXCEPT !.state = "reserved", !.gen = req[p].gen + 1,
                               !.manifest = req[p].manifest, !.ref = None] \in Claim
    <3>1. req[p].manifest \in Manifests \cup {None} /\ req[p].gen + 1 \in Nat
      BY <2>1
    <3> QED
      BY <2>2, <3>1
  <2> QED
    BY <2>1, <2>3 DEF IInv, TypeOK
<1>2. RequestOK'
  BY DEF IInv, TypeOK, RequestOK, ReadFacts
<1>3. LinksOK' /\ OwnerOK'
  BY DEF IInv, TypeOK, RequestOK, ReadFacts, LinksOK, OwnerOK
<1>4. FenceMatchesLease'
  BY DEF IInv, TypeOK, RequestOK, ReadFacts, FenceMatchesLease
<1>5. BoundVmCarriesClaim'
  BY DEF IInv, TypeOK, RequestOK, ReadFacts, BoundVmCarriesClaim
<1>6. LivingBoundVmKeepsClaim'
  BY DEF IInv, TypeOK, RequestOK, ReadFacts, LinksOK, OwnerOK,
         LivingBoundVmKeepsClaim
<1> QED
  BY <1>1, <1>2, <1>3, <1>4, <1>5, <1>6 DEF IInv

\* Activation changes the state of a bound claim and nothing else.
LEMMA ActivateCasKeepsIInv ==
    ASSUME IInv, NEW p \in Procs, ActivateCas(p)
    PROVE  IInv'
<1> USE DEF ActivateCas, ActivateWhere, SetClaim, Done
<1>1. TypeOK'
  <2>1. req[p].vmid \in Vmids /\ req[p] \in Request
    BY DEF IInv, TypeOK, RequestOK, ReadFacts
  <2>2. claim[req[p].vmid] \in Claim
    BY <2>1 DEF IInv, TypeOK
  <2>3. [claim[req[p].vmid] EXCEPT !.state = "managed"] \in Claim
    BY <2>1, <2>2
  <2> QED
    BY <2>1, <2>3 DEF IInv, TypeOK
<1>2. RequestOK'
  BY DEF IInv, TypeOK, RequestOK, ReadFacts
<1>3. LinksOK' /\ OwnerOK'
  BY DEF IInv, TypeOK, RequestOK, ReadFacts, LinksOK, OwnerOK
<1>4. FenceMatchesLease'
  BY DEF IInv, TypeOK, RequestOK, ReadFacts, FenceMatchesLease
<1>5. BoundVmCarriesClaim'
  BY DEF IInv, TypeOK, RequestOK, ReadFacts, BoundVmCarriesClaim
<1>6. LivingBoundVmKeepsClaim'
  BY DEF IInv, TypeOK, RequestOK, ReadFacts, LinksOK, OwnerOK,
         LivingBoundVmKeepsClaim
<1> QED
  BY <1>1, <1>2, <1>3, <1>4, <1>5, <1>6 DEF IInv

\* Recovery clears the fence and the expired lease in one transaction.
LEMMA RecoverCasKeepsIInv ==
    ASSUME IInv, NEW p \in Procs, RecoverCas(p)
    PROVE  IInv'
<1> USE DEF RecoverCas, SetClaim, Done
<1>1. TypeOK'
  <2>1. req[p].vmid \in Vmids /\ req[p] \in Request
    BY DEF IInv, TypeOK, RequestOK, ReadFacts
  <2>2. claim[req[p].vmid] \in Claim
    BY <2>1 DEF IInv, TypeOK
  <2>3. [claim[req[p].vmid] EXCEPT !.state = "managed", !.fence = None] \in Claim
    BY <2>1, <2>2
  <2> QED
    BY <2>1, <2>3 DEF IInv, TypeOK
<1>2. RequestOK'
  BY DEF IInv, TypeOK, RequestOK, ReadFacts
<1>3. LinksOK' /\ OwnerOK'
  BY DEF IInv, TypeOK, RequestOK, ReadFacts, LinksOK, OwnerOK
<1>4. FenceMatchesLease'
  BY DEF IInv, TypeOK, RequestOK, ReadFacts, FenceMatchesLease
<1>5. BoundVmCarriesClaim'
  BY DEF IInv, TypeOK, RequestOK, ReadFacts, BoundVmCarriesClaim
<1>6. LivingBoundVmKeepsClaim'
  BY DEF IInv, TypeOK, RequestOK, ReadFacts, LinksOK, OwnerOK,
         LivingBoundVmKeepsClaim
<1> QED
  BY <1>1, <1>2, <1>3, <1>4, <1>5, <1>6 DEF IInv

\* Beginning an operation sets the fence and inserts its lease.
LEMMA FenceCasKeepsIInv ==
    ASSUME IInv, NEW p \in Procs, NEW l \in Leases, FenceCas(p, l)
    PROVE  IInv'
<1> USE DEF FenceCas, NewLease, SetClaim, Done
<1>1. TypeOK'
  <2>1. req[p].vmid \in Vmids /\ req[p] \in Request
    BY DEF IInv, TypeOK, RequestOK, ReadFacts
  <2>2. claim[req[p].vmid] \in Claim
    BY <2>1 DEF IInv, TypeOK
  <2>3. [claim[req[p].vmid] EXCEPT !.state = "operating", !.fence = l] \in Claim
    BY <2>1, <2>2
  <2> QED
    BY <2>1, <2>3 DEF IInv, TypeOK
<1>2. RequestOK'
  BY DEF IInv, TypeOK, RequestOK, ReadFacts
<1>3. LinksOK' /\ OwnerOK'
  BY DEF IInv, TypeOK, RequestOK, ReadFacts, LinksOK, OwnerOK
<1>4. FenceMatchesLease'
  BY DEF IInv, TypeOK, RequestOK, ReadFacts, FenceMatchesLease
<1>5. BoundVmCarriesClaim'
  BY DEF IInv, TypeOK, RequestOK, ReadFacts, BoundVmCarriesClaim
<1>6. LivingBoundVmKeepsClaim'
  BY DEF IInv, TypeOK, RequestOK, ReadFacts, LinksOK, OwnerOK,
         LivingBoundVmKeepsClaim
<1> QED
  BY <1>1, <1>2, <1>3, <1>4, <1>5, <1>6 DEF IInv

\* A completion clears the fence only with its own lease.
LEMMA CompleteCasKeepsIInv ==
    ASSUME IInv, NEW p \in Procs, CompleteCas(p)
    PROVE  IInv'
<1> USE DEF CompleteCas, CompleteWhere, SetClaim, Done
<1>1. TypeOK'
  <2>1. req[p].vmid \in Vmids /\ req[p] \in Request
    BY DEF IInv, TypeOK, RequestOK, ReadFacts
  <2>2. claim[req[p].vmid] \in Claim
    BY <2>1 DEF IInv, TypeOK
  <2>3. [claim[req[p].vmid] EXCEPT !.state = "managed", !.fence = None] \in Claim
    BY <2>1, <2>2
  <2> QED
    BY <2>1, <2>3 DEF IInv, TypeOK
<1>2. RequestOK'
  BY DEF IInv, TypeOK, RequestOK, ReadFacts
<1>3. LinksOK' /\ OwnerOK'
  BY DEF IInv, TypeOK, RequestOK, ReadFacts, LinksOK, OwnerOK
<1>4. FenceMatchesLease'
  BY DEF IInv, TypeOK, RequestOK, ReadFacts, FenceMatchesLease
<1>5. BoundVmCarriesClaim'
  BY DEF IInv, TypeOK, RequestOK, ReadFacts, BoundVmCarriesClaim
<1>6. LivingBoundVmKeepsClaim'
  BY DEF IInv, TypeOK, RequestOK, ReadFacts, LinksOK, OwnerOK,
         LivingBoundVmKeepsClaim
<1> QED
  BY <1>1, <1>2, <1>3, <1>4, <1>5, <1>6 DEF IInv

\* A retirement keeps the owner and leaves no lease behind.
LEMMA RetireCasKeepsIInv ==
    ASSUME IInv, NEW p \in Procs, RetireCas(p)
    PROVE  IInv'
<1> USE DEF RetireCas, SetClaim, Done
<1>1. TypeOK'
  <2>1. req[p].vmid \in Vmids /\ req[p] \in Request
    BY DEF IInv, TypeOK, RequestOK, ReadFacts
  <2>2. claim[req[p].vmid] \in Claim
    BY <2>1 DEF IInv, TypeOK
  <2>3. [claim[req[p].vmid] EXCEPT !.state = "retiring", !.fence = None] \in Claim
    BY <2>1, <2>2
  <2> QED
    BY <2>1, <2>3 DEF IInv, TypeOK
<1>2. RequestOK'
  BY DEF IInv, TypeOK, RequestOK, ReadFacts
<1>3. LinksOK' /\ OwnerOK'
  BY DEF IInv, TypeOK, RequestOK, ReadFacts, LinksOK, OwnerOK
<1>4. FenceMatchesLease'
  BY DEF IInv, TypeOK, RequestOK, ReadFacts, FenceMatchesLease
<1>5. BoundVmCarriesClaim'
  BY DEF IInv, TypeOK, RequestOK, ReadFacts, BoundVmCarriesClaim
<1>6. LivingBoundVmKeepsClaim'
  BY DEF IInv, TypeOK, RequestOK, ReadFacts, LinksOK, OwnerOK,
         LivingBoundVmKeepsClaim
<1> QED
  BY <1>1, <1>2, <1>3, <1>4, <1>5, <1>6 DEF IInv

\* A finalization releases a claim whose VM is gone for good.
LEMMA FinalizeCasKeepsIInv ==
    ASSUME IInv, NEW p \in Procs, FinalizeCas(p)
    PROVE  IInv'
<1> USE DEF FinalizeCas, SetClaim, Done
<1>1. TypeOK'
  <2>1. req[p].vmid \in Vmids /\ req[p] \in Request
    BY DEF IInv, TypeOK, RequestOK, ReadFacts
  <2>2. claim[req[p].vmid] \in Claim
    BY <2>1 DEF IInv, TypeOK
  <2>3. [claim[req[p].vmid] EXCEPT !.state = "released"] \in Claim
    BY <2>1, <2>2
  <2> QED
    BY <2>1, <2>3 DEF IInv, TypeOK
<1>2. RequestOK'
  BY DEF IInv, TypeOK, RequestOK, ReadFacts
<1>3. LinksOK' /\ OwnerOK'
  BY DEF IInv, TypeOK, RequestOK, ReadFacts, LinksOK, OwnerOK
<1>4. FenceMatchesLease'
  BY DEF IInv, TypeOK, RequestOK, ReadFacts, FenceMatchesLease
<1>5. BoundVmCarriesClaim'
  BY DEF IInv, TypeOK, RequestOK, ReadFacts, BoundVmCarriesClaim
<1>6. LivingBoundVmKeepsClaim'
  BY DEF IInv, TypeOK, RequestOK, ReadFacts, LinksOK, OwnerOK,
         LivingBoundVmKeepsClaim
<1> QED
  BY <1>1, <1>2, <1>3, <1>4, <1>5, <1>6 DEF IInv

\* A cleanup consumes a reservation that has no owner.
LEMMA AuthorizeCasKeepsIInv ==
    ASSUME IInv, NEW p \in Procs, AuthorizeCas(p)
    PROVE  IInv'
<1> USE DEF AuthorizeCas, Unbound, SetClaim, Done
<1>1. TypeOK'
  <2>1. req[p].vmid \in Vmids /\ req[p] \in Request
    BY DEF IInv, TypeOK, RequestOK, ReadFacts
  <2>2. claim[req[p].vmid] \in Claim
    BY <2>1 DEF IInv, TypeOK
  <2>3. [claim[req[p].vmid] EXCEPT !.state = "cleanup"] \in Claim
    BY <2>1, <2>2
  <2> QED
    BY <2>1, <2>3 DEF IInv, TypeOK
<1>2. RequestOK'
  BY DEF IInv, TypeOK, RequestOK, ReadFacts
<1>3. LinksOK' /\ OwnerOK'
  BY DEF IInv, TypeOK, RequestOK, ReadFacts, LinksOK, OwnerOK
<1>4. FenceMatchesLease'
  BY DEF IInv, TypeOK, RequestOK, ReadFacts, FenceMatchesLease
<1>5. BoundVmCarriesClaim'
  BY DEF IInv, TypeOK, RequestOK, ReadFacts, BoundVmCarriesClaim
<1>6. LivingBoundVmKeepsClaim'
  BY DEF IInv, TypeOK, RequestOK, ReadFacts, LinksOK, OwnerOK,
         LivingBoundVmKeepsClaim
<1> QED
  BY <1>1, <1>2, <1>3, <1>4, <1>5, <1>6 DEF IInv

\* A rollback releases a reservation that has no owner.
LEMMA RollbackCasKeepsIInv ==
    ASSUME IInv, NEW p \in Procs, RollbackCas(p)
    PROVE  IInv'
<1> USE DEF RollbackCas, Unbound, SetClaim, Done
<1>1. TypeOK'
  <2>1. req[p].vmid \in Vmids /\ req[p] \in Request
    BY DEF IInv, TypeOK, RequestOK, ReadFacts
  <2>2. claim[req[p].vmid] \in Claim
    BY <2>1 DEF IInv, TypeOK
  <2>3. [claim[req[p].vmid] EXCEPT !.state = "released"] \in Claim
    BY <2>1, <2>2
  <2>4. claim' \in [Vmids -> Claim]
    BY <2>1, <2>3 DEF IInv, TypeOK
  <2>5. exec' \in [Refs -> Exec]
    <3>1. exec \in [Refs -> Exec] /\ req[p].ref \in Refs
      BY DEF IInv, TypeOK, RequestOK, ReadFacts
    <3>2. exec' = [exec EXCEPT ![req[p].ref].phase = "over",
                               ![req[p].ref].worker = None,
                               ![req[p].ref].expires = 0]
      OBVIOUS
    <3> DEFINE r == req[p].ref
    <3>3. "over" \in Phases
      BY DEF Phases
    <3>4. [exec EXCEPT ![r].phase = "over", ![r].worker = None,
                       ![r].expires = 0] \in [Refs -> Exec]
      <4> HIDE DEF Exec
      <4> QED BY <3>1, <3>3, ExecSaveType
    <3> QED
      BY <3>2, <3>4
  <2>6. req' \in [Procs -> Request]
    BY DEF IInv, TypeOK
  <2> QED
    BY <2>4, <2>5, <2>6 DEF IInv, TypeOK
<1>2. RequestOK'
  BY DEF IInv, TypeOK, RequestOK, ReadFacts
<1>3. LinksOK' /\ OwnerOK'
  BY DEF IInv, TypeOK, RequestOK, ReadFacts, LinksOK, OwnerOK
<1>4. FenceMatchesLease'
  BY DEF IInv, TypeOK, RequestOK, ReadFacts, FenceMatchesLease
<1>5. BoundVmCarriesClaim'
  BY DEF IInv, TypeOK, RequestOK, ReadFacts, BoundVmCarriesClaim
<1>6. LivingBoundVmKeepsClaim'
  BY DEF IInv, TypeOK, RequestOK, ReadFacts, LinksOK, OwnerOK,
         LivingBoundVmKeepsClaim
<1> QED
  BY <1>1, <1>2, <1>3, <1>4, <1>5, <1>6 DEF IInv

\* The first reservation of a guest inserts an unowned claim.
LEMMA ReserveInsertKeepsIInv ==
    ASSUME IInv, NEW v \in Vmids, NEW m \in Manifests, ReserveInsert(v, m)
    PROVE  IInv'
<1> USE DEF ReserveInsert, SetClaim
<1>1. TypeOK'
  <2>1. [NoClaim EXCEPT !.state = "reserved", !.gen = 1, !.manifest = m] \in Claim
    OBVIOUS
  <2> QED
    BY <2>1 DEF IInv, TypeOK
<1>2. RequestOK'
  BY DEF IInv, TypeOK, RequestOK, ReadFacts
<1>3. LinksOK' /\ OwnerOK'
  BY DEF IInv, TypeOK, LinksOK, OwnerOK
<1>4. FenceMatchesLease' /\ BoundVmCarriesClaim'
  BY DEF IInv, TypeOK, OwnerOK, FenceMatchesLease, BoundVmCarriesClaim
<1>5. LivingBoundVmKeepsClaim'
  BY DEF IInv, TypeOK, LinksOK, OwnerOK, LivingBoundVmKeepsClaim
<1> QED
  BY <1>1, <1>2, <1>3, <1>4, <1>5 DEF IInv

\* A new execution points at the claim it was planned for.
LEMMA ExecuteInsertKeepsIInv ==
    ASSUME IInv, NEW p \in Procs, NEW r \in Refs, ExecuteInsert(p, r)
    PROVE  IInv'
<1> USE DEF ExecuteInsert, Done
<1>1. TypeOK'
  <2>1. req[p].vmid \in Vmids /\ req[p] \in Request
    BY DEF IInv, TypeOK, RequestOK, ReadFacts
  <2>2. [NoExec EXCEPT !.phase = "running", !.vmid = req[p].vmid,
                       !.gen = req[p].gen, !.manifest = req[p].manifest] \in Exec
    <3>1. req[p].manifest \in Manifests \cup {None} /\ req[p].gen \in Nat
      BY <2>1
    <3> QED
      BY <2>1, <3>1
  <2> QED
    BY <2>2 DEF IInv, TypeOK
<1>2. RequestOK'
  BY DEF IInv, TypeOK, RequestOK, ReadFacts
<1>3. LinksOK' /\ OwnerOK'
  BY DEF IInv, TypeOK, RequestOK, ReadFacts, LinksOK, OwnerOK
<1>4. FenceMatchesLease' /\ BoundVmCarriesClaim'
  BY DEF IInv, TypeOK, OwnerOK, FenceMatchesLease, BoundVmCarriesClaim
<1>5. LivingBoundVmKeepsClaim'
  BY DEF IInv, TypeOK, LinksOK, OwnerOK, LivingBoundVmKeepsClaim
<1> QED
  BY <1>1, <1>2, <1>3, <1>4, <1>5 DEF IInv

\* A worker lease touches the execution only.
LEMMA ExecAcquireKeepsIInv ==
    ASSUME IInv, NEW r \in Refs, NEW w \in Workers, ExecAcquire(r, w)
    PROVE  IInv'
<1> USE DEF ExecAcquire
<1>1. TypeOK'
  <2>1. exec[r] \in Exec /\ now + WorkerTicks \in Nat
    BY DEF IInv, TypeOK
  <2>2. [exec[r] EXCEPT !.worker = w, !.expires = now + WorkerTicks] \in Exec
    BY <2>1
  <2> QED
    BY <2>2 DEF IInv, TypeOK
<1>2. RequestOK'
  BY DEF IInv, TypeOK, RequestOK, ReadFacts
<1>3. LinksOK' /\ OwnerOK'
  BY DEF IInv, TypeOK, LinksOK, OwnerOK
<1>4. FenceMatchesLease' /\ BoundVmCarriesClaim'
  BY DEF IInv, TypeOK, OwnerOK, FenceMatchesLease, BoundVmCarriesClaim
<1>5. LivingBoundVmKeepsClaim'
  BY DEF IInv, TypeOK, LinksOK, OwnerOK, LivingBoundVmKeepsClaim
<1> QED
  BY <1>1, <1>2, <1>3, <1>4, <1>5 DEF IInv

\* The phases of an execution touch the execution only.
LEMMA ExecStepKeepsIInv ==
    ASSUME IInv, NEW r \in Refs, NEW phase \in Phases, ExecStep(r, phase)
    PROVE  IInv'
<1> USE DEF ExecStep
<1>1. TypeOK'
  <2>1. exec \in [Refs -> Exec]
    BY DEF IInv, TypeOK
  <2>2. [exec EXCEPT ![r].phase = phase, ![r].worker = None, ![r].expires = 0]
            \in [Refs -> Exec]
    BY <2>1, ExecSaveType
  <2> QED
    BY <2>2 DEF IInv, TypeOK
<1>2. RequestOK'
  BY DEF IInv, TypeOK, RequestOK, ReadFacts
<1>3. LinksOK' /\ OwnerOK'
  BY DEF IInv, TypeOK, LinksOK, OwnerOK, PhaseStep, Phases
<1>4. FenceMatchesLease' /\ BoundVmCarriesClaim'
  BY DEF IInv, TypeOK, OwnerOK, FenceMatchesLease, BoundVmCarriesClaim
<1>5. LivingBoundVmKeepsClaim'
  BY DEF IInv, TypeOK, LinksOK, OwnerOK, LivingBoundVmKeepsClaim
<1> QED
  BY <1>1, <1>2, <1>3, <1>4, <1>5 DEF IInv

\* A new VM carries the details of its execution; nobody has bound it yet.
LEMMA DeployExecutionKeepsIInv ==
    ASSUME IInv, NEW r \in Refs, DeployExecution(r)
    PROVE  IInv'
<1> USE DEF DeployExecution
<1>1. TypeOK'
  <2>1. exec[r] \in Exec
    BY DEF IInv, TypeOK
  <2>2. [life |-> "alive", vmid |-> exec[r].vmid, gen |-> exec[r].gen,
        manifest |-> exec[r].manifest, proof |-> TRUE] \in Vm
    BY <2>1
  <2> QED
    BY <2>2 DEF IInv, TypeOK
<1>2. RequestOK'
  BY DEF IInv, TypeOK, RequestOK, ReadFacts
<1>3. LinksOK' /\ OwnerOK'
  BY DEF IInv, TypeOK, LinksOK, OwnerOK
<1>4. FenceMatchesLease' /\ BoundVmCarriesClaim'
  BY DEF IInv, TypeOK, OwnerOK, FenceMatchesLease, BoundVmCarriesClaim
<1>5. LivingBoundVmKeepsClaim'
  BY DEF IInv, TypeOK, LinksOK, OwnerOK, LivingBoundVmKeepsClaim
<1> QED
  BY <1>1, <1>2, <1>3, <1>4, <1>5 DEF IInv

\* A VM deployed by hand carries the details of the reservation it saw.
LEMMA DeployLegacyKeepsIInv ==
    ASSUME IInv, NEW r \in Refs, NEW v \in Vmids, DeployLegacy(r, v)
    PROVE  IInv'
<1> USE DEF DeployLegacy
<1>1. TypeOK'
  <2>1. claim[v] \in Claim
    BY DEF IInv, TypeOK
  <2>2. [life |-> "alive", vmid |-> v, gen |-> claim[v].gen,
        manifest |-> claim[v].manifest, proof |-> FALSE] \in Vm
    BY <2>1
  <2> QED
    BY <2>2 DEF IInv, TypeOK
<1>2. RequestOK'
  BY DEF IInv, TypeOK, RequestOK, ReadFacts
<1>3. LinksOK' /\ OwnerOK'
  BY DEF IInv, TypeOK, LinksOK, OwnerOK
<1>4. FenceMatchesLease' /\ BoundVmCarriesClaim'
  BY DEF IInv, TypeOK, OwnerOK, FenceMatchesLease, BoundVmCarriesClaim
<1>5. LivingBoundVmKeepsClaim'
  BY DEF IInv, TypeOK, LinksOK, OwnerOK, LivingBoundVmKeepsClaim
<1> QED
  BY <1>1, <1>2, <1>3, <1>4, <1>5 DEF IInv

\* An expunged VM is gone for good, so only fewer VMs are alive.
LEMMA ExpungeVmKeepsIInv ==
    ASSUME IInv, NEW r \in Refs, ExpungeVm(r)
    PROVE  IInv'
<1> USE DEF ExpungeVm
<1>1. TypeOK'
  <2>1. vm[r] \in Vm
    BY DEF IInv, TypeOK
  <2>2. [vm[r] EXCEPT !.life = "gone"] \in Vm
    BY <2>1
  <2> QED
    BY <2>2 DEF IInv, TypeOK
<1>2. RequestOK'
  BY DEF IInv, TypeOK, RequestOK, ReadFacts
<1>3. LinksOK' /\ OwnerOK'
  BY DEF IInv, TypeOK, LinksOK, OwnerOK
<1>4. FenceMatchesLease' /\ BoundVmCarriesClaim'
  BY DEF IInv, TypeOK, OwnerOK, FenceMatchesLease, BoundVmCarriesClaim
<1>5. LivingBoundVmKeepsClaim'
  BY DEF IInv, TypeOK, LinksOK, OwnerOK, LivingBoundVmKeepsClaim
<1> QED
  BY <1>1, <1>2, <1>3, <1>4, <1>5 DEF IInv

\* The clock alone disturbs nothing: no part of the invariant reads it.
LEMMA TickKeepsIInv ==
    ASSUME IInv, Tick
    PROVE  IInv'
<1> USE DEF Tick
<1>1. TypeOK'
  BY DEF IInv, TypeOK
<1>2. RequestOK'
  BY DEF IInv, TypeOK, RequestOK, ReadFacts
<1>3. LinksOK' /\ OwnerOK'
  BY DEF IInv, TypeOK, LinksOK, OwnerOK
<1>4. FenceMatchesLease' /\ BoundVmCarriesClaim'
  BY DEF IInv, TypeOK, OwnerOK, FenceMatchesLease, BoundVmCarriesClaim
<1>5. LivingBoundVmKeepsClaim'
  BY DEF IInv, TypeOK, LinksOK, OwnerOK, LivingBoundVmKeepsClaim
<1> QED
  BY <1>1, <1>2, <1>3, <1>4, <1>5 DEF IInv

\* The bind callback reads the details frozen in its VM.
LEMMA BindReadKeepsIInv ==
    ASSUME IInv, NEW p \in Procs, NEW r \in Refs, BindRead(p, r)
    PROVE  IInv'
<1> DEFINE q == [Idle EXCEPT !.op = "bind", !.vmid = vm[r].vmid, !.ref = r,
                          !.gen = vm[r].gen, !.manifest = vm[r].manifest]
<1>1. vm[r] \in Vm /\ vm[r].vmid \in Vmids
  BY DEF IInv, TypeOK, LinksOK, BindRead
<1>2. q \in Request /\ ReadFacts(q)
  BY <1>1 DEF ReadFacts, IInv, LinksOK, BindRead
<1>3. OnlyReads /\ req' = [req EXCEPT ![p] = q]
  BY DEF BindRead, Begin
<1> HIDE DEF q
<1> QED
  BY <1>2, <1>3, ReadKeepsIInv

\* Activation reads the claim of a verifying execution.
LEMMA ActivateReadKeepsIInv ==
    ASSUME IInv, NEW p \in Procs, NEW r \in Refs, ActivateRead(p, r)
    PROVE  IInv'
<1> DEFINE q == [Idle EXCEPT !.op = "activate", !.vmid = exec[r].vmid, !.ref = r,
                          !.gen = exec[r].gen, !.worker = exec[r].worker]
<1>1. exec[r] \in Exec /\ exec[r].vmid \in Vmids
  BY DEF IInv, TypeOK, LinksOK, ActivateRead
<1>2. q \in Request /\ ReadFacts(q)
  BY <1>1 DEF ReadFacts
<1>3. OnlyReads /\ req' = [req EXCEPT ![p] = q]
  BY DEF ActivateRead, Begin
<1> HIDE DEF q
<1> QED
  BY <1>2, <1>3, ReadKeepsIInv

\* A completion names the VM its lease was handed out for.
LEMMA CompleteReadKeepsIInv ==
    ASSUME IInv, NEW p \in Procs, NEW l \in Leases, CompleteRead(p, l)
    PROVE  IInv'
<1> DEFINE q == [Idle EXCEPT !.op = "complete", !.vmid = vm[holder[l]].vmid,
                          !.ref = holder[l], !.gen = vm[holder[l]].gen,
                          !.lease = l]
<1>1. holder[l] \in Refs /\ vm[holder[l]] \in Vm
      /\ vm[holder[l]].vmid \in Vmids
  BY DEF IInv, TypeOK, CompleteRead,
         LifecycleIdentity, IdentityMatches
<1>2. q \in Request /\ ReadFacts(q)
  BY <1>1 DEF ReadFacts
<1>3. OnlyReads /\ req' = [req EXCEPT ![p] = q]
  BY DEF CompleteRead, Begin
<1> HIDE DEF q
<1> QED
  BY <1>2, <1>3, ReadKeepsIInv

\* A retirement names the claim of the calling VM.
LEMMA RetireReadKeepsIInv ==
    ASSUME IInv, NEW p \in Procs, NEW r \in Refs, RetireRead(p, r)
    PROVE  IInv'
<1> DEFINE q == [Idle EXCEPT !.op = "retire", !.vmid = vm[r].vmid, !.ref = r,
                          !.gen = claim[vm[r].vmid].gen,
                          !.manifest = claim[vm[r].vmid].manifest,
                          !.lease = claim[vm[r].vmid].fence]
<1>1. vm[r] \in Vm /\ vm[r].vmid \in Vmids
      /\ claim[vm[r].vmid] \in Claim
  BY DEF IInv, TypeOK, RetireRead
<1>2. q \in Request /\ ReadFacts(q)
  BY <1>1 DEF ReadFacts
<1>3. OnlyReads /\ req' = [req EXCEPT ![p] = q]
  BY DEF RetireRead, Begin
<1> HIDE DEF q
<1> QED
  BY <1>2, <1>3, ReadKeepsIInv

\* A finalization has seen that the VM of the claim is gone.
LEMMA FinalizeReadKeepsIInv ==
    ASSUME IInv, NEW p \in Procs, NEW v \in Vmids, FinalizeRead(p, v)
    PROVE  IInv'
<1> DEFINE q == [Idle EXCEPT !.op = "finalize", !.vmid = v, !.ref = claim[v].ref,
                          !.gen = claim[v].gen]
<1>1. claim[v] \in Claim /\ claim[v].ref \in Refs
      /\ vm[claim[v].ref].life = "gone"
  BY DEF IInv, TypeOK, OwnerOK, FinalizeRead,
         VmProvenAbsent
<1>2. q \in Request /\ ReadFacts(q)
  BY <1>1 DEF ReadFacts
<1>3. OnlyReads /\ req' = [req EXCEPT ![p] = q]
  BY DEF FinalizeRead, Begin
<1> HIDE DEF q
<1> QED
  BY <1>2, <1>3, ReadKeepsIInv

\* A plan names the claim it was built from.
LEMMA ExecuteReadKeepsIInv ==
    ASSUME IInv, NEW p \in Procs, NEW v \in Vmids, ExecuteRead(p, v)
    PROVE  IInv'
<1> DEFINE q == [Idle EXCEPT !.op = "execute", !.vmid = v, !.gen = claim[v].gen,
                          !.manifest = claim[v].manifest]
<1>1. claim[v] \in Claim
  BY DEF IInv, TypeOK
<1>2. q \in Request /\ ReadFacts(q)
  BY <1>1 DEF ReadFacts
<1>3. OnlyReads /\ req' = [req EXCEPT ![p] = q]
  BY DEF ExecuteRead, Begin
<1> HIDE DEF q
<1> QED
  BY <1>2, <1>3, ReadKeepsIInv

\* A cleanup authorization names the claim of the calling VM.
LEMMA AuthorizeReadKeepsIInv ==
    ASSUME IInv, NEW p \in Procs, NEW r \in Refs, AuthorizeRead(p, r)
    PROVE  IInv'
<1> DEFINE q == [Idle EXCEPT !.op = "authorize", !.vmid = vm[r].vmid, !.ref = r,
                          !.gen = vm[r].gen, !.manifest = vm[r].manifest]
<1>1. vm[r] \in Vm /\ vm[r].vmid \in Vmids
  BY DEF IInv, TypeOK, AuthorizeRead
<1>2. q \in Request /\ ReadFacts(q)
  BY <1>1 DEF ReadFacts
<1>3. OnlyReads /\ req' = [req EXCEPT ![p] = q]
  BY DEF AuthorizeRead, Begin
<1> HIDE DEF q
<1> QED
  BY <1>2, <1>3, ReadKeepsIInv

\* A rollback names the claim of its execution.
LEMMA RollbackReadKeepsIInv ==
    ASSUME IInv, NEW p \in Procs, NEW r \in Refs, RollbackRead(p, r)
    PROVE  IInv'
<1> DEFINE q == [Idle EXCEPT !.op = "rollback", !.vmid = exec[r].vmid, !.ref = r,
                          !.gen = exec[r].gen, !.worker = exec[r].worker]
<1>1. exec[r] \in Exec /\ exec[r].vmid \in Vmids
  BY DEF IInv, TypeOK, LinksOK, RollbackRead,
         CleanupIdentity
<1>2. q \in Request /\ ReadFacts(q)
  BY <1>1 DEF ReadFacts
<1>3. OnlyReads /\ req' = [req EXCEPT ![p] = q]
  BY DEF RollbackRead, Begin
<1> HIDE DEF q
<1> QED
  BY <1>2, <1>3, ReadKeepsIInv

\* A reservation request names the claim it read.
LEMMA ReserveReadKeepsIInv ==
    ASSUME IInv, NEW p \in Procs, NEW v \in Vmids, NEW m \in Manifests,
           ReserveRead(p, v, m)
    PROVE  IInv'
<1> DEFINE q(op) == [Idle EXCEPT !.op = op, !.vmid = v, !.gen = claim[v].gen,
                                 !.manifest = m]
<1>1. claim[v] \in Claim
  BY DEF IInv, TypeOK
<1>2. \A op \in {"refresh", "reclaim"} : q(op) \in Request /\ ReadFacts(q(op))
  BY <1>1 DEF ReadFacts
<1>3. PICK op \in {"refresh", "reclaim"} : req' = [req EXCEPT ![p] = q(op)]
  BY DEF ReserveRead, Begin
<1>4. OnlyReads
  BY DEF ReserveRead
<1> HIDE DEF q
<1> QED
  BY <1>2, <1>3, <1>4, ReadKeepsIInv

\* An operation request names the claim of the calling VM.
LEMMA AcquireReadKeepsIInv ==
    ASSUME IInv, NEW p \in Procs, NEW r \in Refs, AcquireRead(p, r)
    PROVE  IInv'
<1> DEFINE q(op, l) == [Idle EXCEPT !.op = op, !.vmid = vm[r].vmid, !.ref = r,
                                    !.gen = vm[r].gen, !.lease = l, !.at = now]
           L == Leases \cup {None}
<1>1. vm[r] \in Vm /\ vm[r].vmid \in Vmids /\ now \in Nat
  BY DEF IInv, TypeOK, AcquireRead
<1>2. \A op \in {"recover", "begin"}, l \in L :
        q(op, l) \in Request /\ ReadFacts(q(op, l))
  <2>1. ASSUME NEW op \in {"recover", "begin"}, NEW l \in L
        PROVE  q(op, l) \in Request
    <3>1. vm[r].gen \in Nat /\ op \in Ops
      BY <1>1
    <3> QED
      BY <1>1, <3>1
  <2>2. ASSUME NEW op \in {"recover", "begin"}, NEW l \in L
        PROVE  ReadFacts(q(op, l))
    BY <1>1 DEF ReadFacts
  <2> HIDE DEF q, L
  <2> QED
    BY <2>1, <2>2
<1>3. leaseRow[vm[r].vmid].id \in L /\ None \in L
  BY <1>1 DEF IInv, TypeOK
<1>4. PICK op \in {"recover", "begin"}, l \in L :
        req' = [req EXCEPT ![p] = q(op, l)]
  BY <1>3 DEF AcquireRead, Begin
<1>5. OnlyReads
  BY DEF AcquireRead
<1> HIDE DEF q, L
<1> QED
  BY <1>2, <1>4, <1>5, ReadKeepsIInv

\* A handler that stops writes nothing.
LEMMA GiveUpKeepsIInv ==
    ASSUME IInv, NEW p \in Procs, GiveUp(p)
    PROVE  IInv'
<1>1. Idle \in Request /\ ReadFacts(Idle)
  BY DEF ReadFacts
<1>2. OnlyReads /\ req' = [req EXCEPT ![p] = Idle]
  BY DEF GiveUp, Done
<1> QED
  BY <1>1, <1>2, ReadKeepsIInv
----------------------------------------------------------------------------

\* The empty registry satisfies the invariant.
THEOREM InitEstablishesIInv == Init => IInv
<1> SUFFICES ASSUME Init PROVE IInv
  OBVIOUS
<1> USE DEF Init
<1>1. TypeOK
  <2>1. NoClaim \in Claim /\ NoLease \in LeaseRow /\ NoExec \in Exec
        /\ NoVm \in Vm /\ Idle \in Request
    OBVIOUS
  <2> QED
    BY <2>1 DEF TypeOK
<1>2. RequestOK /\ LinksOK /\ OwnerOK
  BY DEF RequestOK, ReadFacts, LinksOK, OwnerOK
<1>3. FenceMatchesLease /\ BoundVmCarriesClaim /\ LivingBoundVmKeepsClaim
  BY DEF FenceMatchesLease, BoundVmCarriesClaim, LivingBoundVmKeepsClaim
<1> QED
  BY <1>1, <1>2, <1>3 DEF IInv

\* Every step of a request handler keeps the invariant.
LEMMA HandlerKeepsIInv ==
    ASSUME IInv, NEW p \in Procs, Handler(p)
    PROVE  IInv'
<1>1. CASE \E v \in Vmids, m \in Manifests : ReserveRead(p, v, m)
  BY <1>1, ReserveReadKeepsIInv
<1>2. CASE \E r \in Refs : BindRead(p, r)
  BY <1>2, BindReadKeepsIInv
<1>3. CASE \E r \in Refs : ActivateRead(p, r)
  BY <1>3, ActivateReadKeepsIInv
<1>4. CASE \E r \in Refs : AcquireRead(p, r)
  BY <1>4, AcquireReadKeepsIInv
<1>5. CASE \E r \in Refs : RetireRead(p, r)
  BY <1>5, RetireReadKeepsIInv
<1>6. CASE \E r \in Refs : AuthorizeRead(p, r)
  BY <1>6, AuthorizeReadKeepsIInv
<1>7. CASE \E r \in Refs : RollbackRead(p, r)
  BY <1>7, RollbackReadKeepsIInv
<1>8. CASE \E r \in Refs : ExecuteInsert(p, r)
  BY <1>8, ExecuteInsertKeepsIInv
<1>9. CASE \E l \in Leases : CompleteRead(p, l)
  BY <1>9, CompleteReadKeepsIInv
<1>10. CASE \E l \in Leases : FenceCas(p, l)
  BY <1>10, FenceCasKeepsIInv
<1>11. CASE \E v \in Vmids : FinalizeRead(p, v)
  BY <1>11, FinalizeReadKeepsIInv
<1>12. CASE \E v \in Vmids : ExecuteRead(p, v)
  BY <1>12, ExecuteReadKeepsIInv
<1>13. CASE RefreshCas(p)
  BY <1>13, RefreshCasKeepsIInv
<1>14. CASE ReclaimCas(p)
  BY <1>14, ReclaimCasKeepsIInv
<1>15. CASE BindCas(p)
  BY <1>15, BindCasKeepsIInv
<1>16. CASE ActivateCas(p)
  BY <1>16, ActivateCasKeepsIInv
<1>17. CASE RecoverCas(p)
  BY <1>17, RecoverCasKeepsIInv
<1>18. CASE CompleteCas(p)
  BY <1>18, CompleteCasKeepsIInv
<1>19. CASE RetireCas(p)
  BY <1>19, RetireCasKeepsIInv
<1>20. CASE FinalizeCas(p)
  BY <1>20, FinalizeCasKeepsIInv
<1>21. CASE AuthorizeCas(p)
  BY <1>21, AuthorizeCasKeepsIInv
<1>22. CASE RollbackCas(p)
  BY <1>22, RollbackCasKeepsIInv
<1>23. CASE GiveUp(p)
  BY <1>23, GiveUpKeepsIInv
<1> QED
  BY <1>1, <1>2, <1>3, <1>4, <1>5, <1>6, <1>7, <1>8, <1>9, <1>10, <1>11, <1>12, <1>13, <1>14, <1>15, <1>16, <1>17, <1>18, <1>19, <1>20, <1>21, <1>22, <1>23 DEF Handler

\* So does every step of the executor, of CloudStack and of the clock.
LEMMA EnvironmentKeepsIInv ==
    ASSUME IInv, Environment
    PROVE  IInv'
<1>1. CASE \E v \in Vmids, m \in Manifests : ReserveInsert(v, m)
  BY <1>1, ReserveInsertKeepsIInv
<1>2. CASE \E r \in Refs, w \in Workers : ExecAcquire(r, w)
  BY <1>2, ExecAcquireKeepsIInv
<1>3. CASE \E r \in Refs, phase \in Phases : ExecStep(r, phase)
  BY <1>3, ExecStepKeepsIInv
<1>4. CASE \E r \in Refs : DeployExecution(r)
  BY <1>4, DeployExecutionKeepsIInv
<1>5. CASE \E r \in Refs : ExpungeVm(r)
  BY <1>5, ExpungeVmKeepsIInv
<1>6. CASE \E r \in Refs, v \in Vmids : DeployLegacy(r, v)
  BY <1>6, DeployLegacyKeepsIInv
<1>7. CASE Tick
  BY <1>7, TickKeepsIInv
<1> QED
  BY <1>1, <1>2, <1>3, <1>4, <1>5, <1>6, <1>7 DEF Environment, Phases

\* IInv is inductive: whatever a handler read before, its compare-and-set, or
\* a step of CloudStack, of the executor or of the clock, keeps it.
THEOREM NextKeepsIInv == IInv /\ [Next]_vars => IInv'
<1> SUFFICES ASSUME IInv, [Next]_vars PROVE IInv'
  OBVIOUS
<1>1. CASE \E p \in Procs : Handler(p)
  BY <1>1, HandlerKeepsIInv
<1>2. CASE Environment
  BY <1>2, EnvironmentKeepsIInv
<1>3. CASE UNCHANGED vars
  BY <1>3 DEF vars, IInv, TypeOK, RequestOK, ReadFacts, LinksOK, OwnerOK,
              FenceMatchesLease, BoundVmCarriesClaim, LivingBoundVmKeepsClaim
<1> QED
  BY <1>1, <1>2, <1>3 DEF Next

\* The strengthened invariant holds of every behaviour of the registry.
THEOREM SpecKeepsIInv == Spec => []IInv
  BY InitEstablishesIInv, NextKeepsIInv, PTL DEF Spec

\* Every table and every request in flight holds values of its columns' types.
THEOREM RegistryTypeOK == Spec => []TypeOK
<1>1. IInv => TypeOK
  BY DEF IInv
<1> QED
  BY <1>1, SpecKeepsIInv, PTL

\* However completions, recoveries and retirements race, a claim is operating
\* exactly when the one lease row of that claim carries its fence.
THEOREM RegistryFenceMatchesLease == Spec => []FenceMatchesLease
<1>1. IInv => FenceMatchesLease
  BY DEF IInv
<1> QED
  BY <1>1, SpecKeepsIInv, PTL

\* No delayed callback binds a VM of an older generation or another manifest.
THEOREM RegistryBoundVmCarriesClaim == Spec => []BoundVmCarriesClaim
<1>1. IInv => BoundVmCarriesClaim
  BY DEF IInv
<1> QED
  BY <1>1, SpecKeepsIInv, PTL

\* A guest is never given up, let alone given away, under a living owner.
THEOREM RegistryLivingBoundVmKeepsClaim == Spec => []LivingBoundVmKeepsClaim
<1>1. IInv => LivingBoundVmKeepsClaim
  BY DEF IInv
<1> QED
  BY <1>1, SpecKeepsIInv, PTL
=============================================================================
