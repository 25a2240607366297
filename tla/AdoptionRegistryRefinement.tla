--------------------- MODULE AdoptionRegistryRefinement ---------------------
(***************************************************************************)
(* AdoptionRegistry implements ClaimLifecycle, and its two action          *)
(* properties, for every value of the constants. Beside IInv this needs    *)
(* what a handler knows of a lease that it is about to take away: the      *)
(* lease of that id, if it is still in its row, has run out. An id is      *)
(* handed out once, so no later operation can fence with it.               *)
(***************************************************************************)
EXTENDS AdoptionRegistryProofs

USE NoneIsNoValue, BoundsAreNaturals

USE DEF ClaimStates, LifecycleStates, Claim, LeaseRow, Exec, Vm, Ops, Request,
        NoClaim, NoLease, NoExec, NoVm, Idle

----------------------------------------------------------------------------
(* The invariant.                                                          *)

\* A handler that takes a lease away has seen it run out.
Evicts(q) == q.op = "recover" \/ (q.op = "retire" /\ q.lease # None)

EvictedLeaseHasExpired ==
    \A p \in Procs : Evicts(req[p]) =>
      /\ req[p].lease \in Leases /\ holder[req[p].lease] # None
      /\ leaseRow[req[p].vmid].id = req[p].lease =>
           leaseRow[req[p].vmid].expires <= now

\* The id in a lease row has been handed out.
LeasesAreIssued ==
    \A v \in Vmids : leaseRow[v].id # None => holder[leaseRow[v].id] # None

\* A guest that was never reserved has had no generation.
AbsentIsFresh == \A v \in Vmids : claim[v].state = "absent" => claim[v].gen = 0

\* An operation is begun for a VM.
BeginsForVm ==
    \A p \in Procs : req[p].op = "begin" => req[p].ref \in Refs

LInv ==
    /\ IInv /\ EvictedLeaseHasExpired /\ LeasesAreIssued /\ AbsentIsFresh
    /\ BeginsForVm

----------------------------------------------------------------------------
(* The invariant is inductive.                                             *)

\* What a step may do to the lease table, the ids handed out and the clock.
LEMMA LeaseMoves ==
  ASSUME LInv, [Next]_vars
  PROVE  /\ \A v \in Vmids :
              \/ leaseRow'[v] = leaseRow[v]
              \/ leaseRow'[v].id = None
              \/ /\ leaseRow'[v].id \in Leases
                 /\ holder[leaseRow'[v].id] = None
                 /\ holder'[leaseRow'[v].id] # None
         /\ \A l \in Leases : holder[l] # None => holder'[l] # None
         /\ now \in Nat /\ now' \in Nat /\ now <= now'
<1> DEFINE Goal == /\ \A v \in Vmids :
                        \/ leaseRow'[v] = leaseRow[v]
                        \/ leaseRow'[v].id = None
                        \/ /\ leaseRow'[v].id \in Leases
                           /\ holder[leaseRow'[v].id] = None
                           /\ holder'[leaseRow'[v].id] # None
                   /\ \A l \in Leases : holder[l] # None => holder'[l] # None
                   /\ now' \in Nat /\ now <= now'
<1>1. /\ leaseRow \in [Vmids -> LeaseRow] /\ now \in Nat
      /\ holder \in [Leases -> Refs \cup {None}]
      /\ \A p \in Procs : req[p].op # "idle" => req[p].vmid \in Vmids
      /\ None \notin Refs
  BY DEF LInv, IInv, TypeOK, RequestOK, ReadFacts
<1>2. ASSUME UNCHANGED <<leaseRow, holder, now>> PROVE Goal
  BY <1>1, <1>2
<1>3. ASSUME NEW p \in Procs, RecoverCas(p) \/ CompleteCas(p) \/ RetireCas(p)
      PROVE  Goal
  <2>1. leaseRow' = leaseRow \/ leaseRow' = [leaseRow EXCEPT ![req[p].vmid] = NoLease]
    BY <1>3 DEF RecoverCas, CompleteCas, RetireCas
  <2>2. UNCHANGED <<holder, now>>
    BY <1>3 DEF RecoverCas, CompleteCas, RetireCas
  <2> QED
    BY <1>1, <2>1, <2>2 DEF NoLease
<1>4. ASSUME NEW p \in Procs, NEW l \in Leases, FenceCas(p, l) PROVE Goal
  <2>1. /\ holder[l] = None /\ holder' = [holder EXCEPT ![l] = req[p].ref]
        /\ leaseRow' = [leaseRow EXCEPT ![req[p].vmid] = NewLease(req[p], l)]
        /\ now' = now /\ req[p].op = "begin"
    BY <1>4 DEF FenceCas
  <2>2. req[p].ref # None
    BY <2>1 DEF LInv, BeginsForVm
  <2> QED
    BY <1>1, <2>1, <2>2 DEF NewLease
<1>5. CASE Tick
  BY <1>1, <1>5 DEF Tick
<1>6. CASE Environment /\ ~Tick
  <2>1. UNCHANGED <<leaseRow, holder, now>>
    BY <1>6 DEF Environment, ReserveInsert, ExecAcquire, ExecStep,
       DeployExecution, ExpungeVm, DeployLegacy
  <2> QED
    BY <1>2, <2>1
<1>7. ASSUME NEW p \in Procs, Handler(p),
             ~RecoverCas(p), ~CompleteCas(p), ~RetireCas(p),
             \A l \in Leases : ~FenceCas(p, l)
      PROVE  Goal
  <2>1. UNCHANGED <<leaseRow, holder, now>>
    BY <1>7 DEF Handler, OnlyReads, ReserveRead, BindRead, ActivateRead,
       AcquireRead, RetireRead, AuthorizeRead, RollbackRead, ExecuteInsert,
       CompleteRead, FinalizeRead, ExecuteRead, RefreshCas, ReclaimCas,
       BindCas, ActivateCas, FinalizeCas, AuthorizeCas, RollbackCas, GiveUp
  <2> QED
    BY <1>2, <2>1
<1>8. CASE UNCHANGED vars
  BY <1>2, <1>8 DEF vars
<1> QED
  BY <1>1, <1>3, <1>4, <1>5, <1>6, <1>7, <1>8 DEF Next

\* A request is as before, or takes no lease away, or was just read.
LEMMA RequestMoves ==
  ASSUME LInv, [Next]_vars, NEW p \in Procs, Evicts(req'[p])
  PROVE  \/ req'[p] = req[p]
         \/ /\ UNCHANGED <<leaseRow, holder, now>>
            /\ req'[p].lease \in Leases /\ holder[req'[p].lease] # None
            /\ leaseRow[req'[p].vmid].id = req'[p].lease
            /\ leaseRow[req'[p].vmid].expires <= now
<1> DEFINE Goal == \/ req'[p] = req[p]
                   \/ /\ UNCHANGED <<leaseRow, holder, now>>
                      /\ req'[p].lease \in Leases /\ holder[req'[p].lease] # None
                      /\ leaseRow[req'[p].vmid].id = req'[p].lease
                      /\ leaseRow[req'[p].vmid].expires <= now
<1>1. /\ req \in [Procs -> Request] /\ leaseRow \in [Vmids -> LeaseRow]
      /\ claim \in [Vmids -> Claim] /\ LeasesAreIssued
      /\ \A r \in Refs : vm[r] \in Vm
  BY DEF LInv, IInv, TypeOK
<1>2. ASSUME NEW q \in Procs, NEW s, req' = [req EXCEPT ![q] = s], ~Evicts(s)
      PROVE  Goal
  BY <1>1, <1>2
<1>3. ASSUME NEW q \in Procs, Done(q) PROVE Goal
  <2>1. ~Evicts(Idle)
    BY DEF Evicts, Idle
  <2> QED
    BY <1>2, <1>3, <2>1 DEF Done
<1>4. ASSUME NEW q \in Procs, NEW r \in Refs, AcquireRead(q, r) PROVE Goal
  <2> DEFINE v == vm[r].vmid
             R(o, l) == [Idle EXCEPT !.op = o, !.vmid = v, !.ref = r,
                                     !.gen = vm[r].gen, !.lease = l, !.at = now]
  <2>1. v \in Vmids
    BY <1>1, <1>4 DEF AcquireRead
  <2>2. CASE Begin(q, R("begin", None))
    <3>1. ~Evicts(R("begin", None))
      BY DEF Evicts, Idle
    <3> QED
      BY <1>2, <2>2, <3>1 DEF Begin
  <2>3. CASE /\ claim[v].state = "operating" /\ claim[v].fence # None
             /\ leaseRow[v].id = claim[v].fence
             /\ LeaseExpired(leaseRow[v])
             /\ Begin(q, R("recover", leaseRow[v].id))
    <3>1. leaseRow[v].id \in Leases /\ holder[leaseRow[v].id] # None
          /\ leaseRow[v].expires <= now
      BY <1>1, <2>1, <2>3 DEF LeasesAreIssued, LeaseExpired
    <3>2. req' = [req EXCEPT ![q] = R("recover", leaseRow[v].id)]
      BY <2>3 DEF Begin
    <3>3. /\ R("recover", leaseRow[v].id).lease = leaseRow[v].id
          /\ R("recover", leaseRow[v].id).vmid = v
      BY DEF Idle
    <3>4. UNCHANGED <<leaseRow, holder, now>>
      BY <1>4 DEF AcquireRead, OnlyReads
    <3> QED
      BY <1>1, <3>1, <3>2, <3>3, <3>4
  <2> QED
    BY <1>4, <2>2, <2>3 DEF AcquireRead
<1>5. ASSUME NEW q \in Procs, NEW r \in Refs, RetireRead(q, r) PROVE Goal
  <2> DEFINE v == vm[r].vmid
             c == claim[v]
             s == [Idle EXCEPT !.op = "retire", !.vmid = v, !.ref = r,
                               !.gen = c.gen, !.manifest = c.manifest,
                               !.lease = c.fence]
  <2>1. v \in Vmids /\ req' = [req EXCEPT ![q] = s]
    BY <1>1, <1>5 DEF RetireRead, Begin
  <2>2. s.lease = c.fence /\ s.vmid = v /\ s.op = "retire"
    BY DEF Idle
  <2>3. UNCHANGED <<leaseRow, holder, now>>
    BY <1>5 DEF RetireRead, OnlyReads
  <2>4. CASE c.fence = None
    BY <1>2, <2>1, <2>2, <2>4 DEF Evicts
  <2>5. CASE c.fence # None
    <3>1. leaseRow[v].id = c.fence /\ LeaseExpired(leaseRow[v])
      BY <1>5, <2>5 DEF RetireRead
    <3>2. c.fence \in Leases /\ holder[c.fence] # None
          /\ leaseRow[v].expires <= now
      BY <1>1, <2>1, <2>5, <3>1 DEF LeasesAreIssued, LeaseExpired
    <3> HIDE DEF s
    <3> QED
      BY <1>1, <2>1, <2>2, <2>3, <3>1, <3>2
  <2> QED
    BY <2>4, <2>5
<1>6. ASSUME NEW q \in Procs, Handler(q), ~Done(q),
             \A r \in Refs : ~AcquireRead(q, r) /\ ~RetireRead(q, r)
      PROVE  Goal
  <2> DEFINE Harmless == /\ \A o \in Procs \ {q} : req'[o] = req[o]
                         /\ ~Evicts(req'[q])
  <2>1. Harmless
    <3>1. ASSUME NEW s, Begin(q, s), s.op \notin {"recover", "retire"}
          PROVE  Harmless
      BY <1>1, <3>1 DEF Begin, Evicts
    <3>2. ASSUME NEW v \in Vmids, NEW m \in Manifests, ReserveRead(q, v, m)
          PROVE  Harmless
      BY <3>1, <3>2 DEF ReserveRead
    <3>3. ASSUME NEW r \in Refs, BindRead(q, r) PROVE Harmless
      BY <3>1, <3>3 DEF BindRead
    <3>4. ASSUME NEW r \in Refs, ActivateRead(q, r) PROVE Harmless
      BY <3>1, <3>4 DEF ActivateRead
    <3>5. ASSUME NEW r \in Refs, AuthorizeRead(q, r) PROVE Harmless
      BY <3>1, <3>5 DEF AuthorizeRead
    <3>6. ASSUME NEW r \in Refs, RollbackRead(q, r) PROVE Harmless
      BY <3>1, <3>6 DEF RollbackRead
    <3>7. ASSUME NEW l \in Leases, CompleteRead(q, l) PROVE Harmless
      BY <3>1, <3>7 DEF CompleteRead
    <3>8. ASSUME NEW v \in Vmids, FinalizeRead(q, v) PROVE Harmless
      BY <3>1, <3>8 DEF FinalizeRead
    <3>9. ASSUME NEW v \in Vmids, ExecuteRead(q, v) PROVE Harmless
      BY <3>1, <3>9 DEF ExecuteRead
    <3> QED
      BY <1>6, <3>2, <3>3, <3>4, <3>5, <3>6, <3>7, <3>8, <3>9
      DEF Handler, ExecuteInsert, FenceCas, RefreshCas, ReclaimCas, BindCas,
          ActivateCas, RecoverCas, CompleteCas, RetireCas, FinalizeCas,
          AuthorizeCas, RollbackCas, GiveUp
  <2> QED
    BY <2>1
<1>7. CASE Environment \/ UNCHANGED vars
  BY <1>7 DEF Environment, ReserveInsert, ExecAcquire, ExecStep,
     DeployExecution, ExpungeVm, DeployLegacy, Tick, vars
<1> QED
  BY <1>3, <1>4, <1>5, <1>6, <1>7 DEF Next

\* No step makes a guest absent again.
LEMMA AbsentMoves ==
  ASSUME LInv, [Next]_vars, NEW v \in Vmids, claim'[v].state = "absent"
  PROVE  claim'[v] = claim[v]
<1>1. claim \in [Vmids -> Claim]
  BY DEF LInv, IInv, TypeOK
<1>2. ASSUME NEW u, NEW c, SetClaim(u, c), c.state # "absent"
      PROVE  claim'[v] = claim[v]
  BY <1>1, <1>2 DEF SetClaim
<1>3. ASSUME UNCHANGED claim PROVE claim'[v] = claim[v]
  BY <1>3
<1>4. ASSUME NEW p \in Procs, Handler(p) PROVE claim'[v] = claim[v]
  <2>0. req[p].op # "idle" => req[p].vmid \in Vmids
    BY DEF LInv, IInv, RequestOK, ReadFacts
  <2>1. CASE RefreshCas(p)
    BY <1>1, <2>0, <2>1 DEF RefreshCas, SetClaim
  <2>2. CASE ReclaimCas(p)
    BY <1>1, <2>0, <2>2 DEF ReclaimCas, SetClaim
  <2>3. CASE BindCas(p)
    BY <1>1, <2>0, <2>3 DEF BindCas, SetClaim
  <2>4. CASE ActivateCas(p)
    BY <1>1, <2>0, <2>4 DEF ActivateCas, SetClaim
  <2>5. CASE RecoverCas(p)
    BY <1>1, <2>0, <2>5 DEF RecoverCas, SetClaim
  <2>6. CASE \E l \in Leases : FenceCas(p, l)
    BY <1>1, <2>0, <2>6 DEF FenceCas, SetClaim
  <2>7. CASE CompleteCas(p)
    BY <1>1, <2>0, <2>7 DEF CompleteCas, SetClaim
  <2>8. CASE RetireCas(p)
    BY <1>1, <2>0, <2>8 DEF RetireCas, SetClaim
  <2>9. CASE FinalizeCas(p)
    BY <1>1, <2>0, <2>9 DEF FinalizeCas, SetClaim
  <2>10. CASE AuthorizeCas(p)
    BY <1>1, <2>0, <2>10 DEF AuthorizeCas, SetClaim
  <2>11. CASE RollbackCas(p)
    BY <1>1, <2>0, <2>11 DEF RollbackCas, SetClaim
  <2> QED
    BY <1>3, <1>4, <2>1, <2>2, <2>3, <2>4, <2>5, <2>6, <2>7, <2>8, <2>9,
       <2>10, <2>11
    DEF Handler, OnlyReads, ReserveRead, BindRead, ActivateRead, AcquireRead,
        RetireRead, AuthorizeRead, RollbackRead, ExecuteInsert, CompleteRead,
        FinalizeRead, ExecuteRead, GiveUp
<1>5. ASSUME NEW u \in Vmids, NEW m \in Manifests, ReserveInsert(u, m)
      PROVE  claim'[v] = claim[v]
  BY <1>2, <1>5 DEF ReserveInsert
<1>6. CASE Environment /\ ~\E u \in Vmids, m \in Manifests : ReserveInsert(u, m)
  BY <1>3, <1>6 DEF Environment, ExecAcquire, ExecStep, DeployExecution,
     ExpungeVm, DeployLegacy, Tick
<1>7. CASE UNCHANGED vars
  BY <1>7 DEF vars
<1> QED
  BY <1>4, <1>5, <1>6, <1>7 DEF Next

\* An operation in flight is as before, or was just begun for a VM.
LEMMA BeginMoves ==
  ASSUME LInv, [Next]_vars, NEW p \in Procs, req'[p].op = "begin"
  PROVE  req'[p] = req[p] \/ req'[p].ref \in Refs
<1> DEFINE Goal == req'[p] = req[p] \/ req'[p].ref \in Refs
<1>1. req \in [Procs -> Request]
  BY DEF LInv, IInv, TypeOK
<1>2. ASSUME NEW q \in Procs, NEW s, req' = [req EXCEPT ![q] = s],
             s.op # "begin" \/ s.ref \in Refs
      PROVE  Goal
  BY <1>1, <1>2
<1>3. ASSUME NEW q \in Procs, NEW s, Begin(q, s),
             s.op # "begin" \/ s.ref \in Refs
      PROVE  Goal
  BY <1>2, <1>3 DEF Begin
<1>4. ASSUME NEW q \in Procs, Done(q) PROVE Goal
  BY <1>2, <1>4 DEF Done
<1>5. ASSUME NEW q \in Procs, NEW v \in Vmids, NEW m \in Manifests,
             ReserveRead(q, v, m)
      PROVE  Goal
  BY <1>3, <1>5 DEF ReserveRead
<1>6. ASSUME NEW q \in Procs, NEW r \in Refs, BindRead(q, r) PROVE Goal
  BY <1>3, <1>6 DEF BindRead
<1>7. ASSUME NEW q \in Procs, NEW r \in Refs, ActivateRead(q, r) PROVE Goal
  BY <1>3, <1>7 DEF ActivateRead
<1>8. ASSUME NEW q \in Procs, NEW r \in Refs, AcquireRead(q, r) PROVE Goal
  BY <1>3, <1>8 DEF AcquireRead
<1>9. ASSUME NEW q \in Procs, NEW r \in Refs, RetireRead(q, r) PROVE Goal
  BY <1>3, <1>9 DEF RetireRead
<1>10. ASSUME NEW q \in Procs, NEW r \in Refs, AuthorizeRead(q, r) PROVE Goal
  BY <1>3, <1>10 DEF AuthorizeRead
<1>11. ASSUME NEW q \in Procs, NEW r \in Refs, RollbackRead(q, r) PROVE Goal
  BY <1>3, <1>11 DEF RollbackRead
<1>12. ASSUME NEW q \in Procs, NEW l \in Leases, CompleteRead(q, l) PROVE Goal
  BY <1>3, <1>12 DEF CompleteRead
<1>13. ASSUME NEW q \in Procs, NEW v \in Vmids, FinalizeRead(q, v) PROVE Goal
  BY <1>3, <1>13 DEF FinalizeRead
<1>14. ASSUME NEW q \in Procs, NEW v \in Vmids, ExecuteRead(q, v) PROVE Goal
  BY <1>3, <1>14 DEF ExecuteRead
<1>15. ASSUME NEW q \in Procs, Handler(q) PROVE Goal
  BY <1>4, <1>5, <1>6, <1>7, <1>8, <1>9, <1>10, <1>11, <1>12, <1>13, <1>14,
     <1>15
  DEF Handler, ExecuteInsert, FenceCas, RefreshCas, ReclaimCas, BindCas,
      ActivateCas, RecoverCas, CompleteCas, RetireCas, FinalizeCas,
      AuthorizeCas, RollbackCas, GiveUp
<1>16. CASE Environment \/ UNCHANGED vars
  BY <1>16 DEF Environment, ReserveInsert, ExecAcquire, ExecStep,
     DeployExecution, ExpungeVm, DeployLegacy, Tick, vars
<1> QED
  BY <1>15, <1>16 DEF Next

LEMMA InitEstablishesLInv == Init => LInv
<1> SUFFICES ASSUME Init PROVE LInv
  OBVIOUS
<1>1. IInv
  BY InitEstablishesIInv
<1> QED
  BY <1>1 DEF Init, LInv, EvictedLeaseHasExpired, Evicts, LeasesAreIssued,
     AbsentIsFresh, BeginsForVm

LEMMA NextKeepsLInv == LInv /\ [Next]_vars => LInv'
<1> SUFFICES ASSUME LInv, [Next]_vars PROVE LInv'
  OBVIOUS
<1>1. IInv'
  BY NextKeepsIInv DEF LInv
<1>2. /\ \A v \in Vmids :
            leaseRow[v].id \in Leases \cup {None} /\ leaseRow[v].expires \in Nat
      /\ \A v \in Vmids : leaseRow'[v].id \in Leases \cup {None}
      /\ \A p \in Procs : req'[p].op # "idle" => req'[p].vmid \in Vmids
  BY <1>1 DEF LInv, IInv, TypeOK, RequestOK, ReadFacts
<1>3. EvictedLeaseHasExpired'
  <2> SUFFICES ASSUME NEW p \in Procs, Evicts(req'[p])
               PROVE  /\ req'[p].lease \in Leases /\ holder'[req'[p].lease] # None
                      /\ leaseRow'[req'[p].vmid].id = req'[p].lease =>
                           leaseRow'[req'[p].vmid].expires <= now'
    BY DEF EvictedLeaseHasExpired, Evicts
  <2>1. req'[p].vmid \in Vmids
    BY <1>2 DEF Evicts
  <2>2. CASE req'[p] = req[p]
    <3>1. /\ req[p].lease \in Leases /\ holder[req[p].lease] # None
          /\ leaseRow[req[p].vmid].id = req[p].lease =>
               leaseRow[req[p].vmid].expires <= now
      BY <2>2 DEF LInv, EvictedLeaseHasExpired
    <3> QED
      BY <1>2, <2>1, <2>2, <3>1, LeaseMoves
  <2> QED
    BY <1>2, <2>1, <2>2, RequestMoves
<1>4. LeasesAreIssued'
  BY <1>2, LeaseMoves DEF LInv, LeasesAreIssued
<1>5. AbsentIsFresh'
  BY AbsentMoves DEF LInv, AbsentIsFresh
<1>6. BeginsForVm'
  BY BeginMoves DEF LInv, BeginsForVm
<1> QED
  BY <1>1, <1>3, <1>4, <1>5, <1>6 DEF LInv

\* What a handler that takes a lease away has seen stays true until it does.
THEOREM SpecKeepsLInv == Spec => []LInv
  BY InitEstablishesLInv, NextKeepsLInv, PTL DEF Spec

----------------------------------------------------------------------------
(* The action properties.                                                  *)

\* A lease that goes away was completed under its own id or had run out.
LEMMA LeaseLeaves ==
  ASSUME LInv, [Next]_vars, NEW v \in Vmids,
         leaseRow[v].id # None, leaseRow'[v] # leaseRow[v]
  PROVE  \/ leaseRow[v].expires <= now
         \/ \E p \in Procs : /\ req[p].op = "complete"
                              /\ req[p].lease = leaseRow[v].id
                              /\ req'[p].op = "idle"
<1> DEFINE Goal == \/ leaseRow[v].expires <= now
                   \/ \E p \in Procs : /\ req[p].op = "complete"
                                        /\ req[p].lease = leaseRow[v].id
                                        /\ req'[p].op = "idle"
<1>1. /\ leaseRow \in [Vmids -> LeaseRow] /\ req \in [Procs -> Request]
      /\ \A p \in Procs : req[p].op # "idle" => req[p].vmid \in Vmids
  BY DEF LInv, IInv, TypeOK, RequestOK, ReadFacts
<1>2. ASSUME NEW p \in Procs, RecoverCas(p) \/ RetireCas(p) PROVE Goal
  <2>1. v = req[p].vmid /\ leaseRow[v].id = req[p].lease
    BY <1>1, <1>2 DEF RecoverCas, RetireCas
  <2>2. Evicts(req[p])
    BY <1>1, <1>2, <2>1 DEF RecoverCas, RetireCas, Evicts
  <2> QED
    BY <2>1, <2>2 DEF LInv, EvictedLeaseHasExpired
<1>3. ASSUME NEW p \in Procs, CompleteCas(p) PROVE Goal
  <2>1. v = req[p].vmid /\ leaseRow[v].id = req[p].lease
    BY <1>1, <1>3 DEF CompleteCas
  <2>2. req[p].op = "complete" /\ req'[p].op = "idle"
    BY <1>1, <1>3 DEF CompleteCas, Done
  <2> QED
    BY <2>1, <2>2
<1>4. ASSUME NEW p \in Procs, NEW l \in Leases, FenceCas(p, l) PROVE Goal
  BY <1>1, <1>4 DEF FenceCas
<1>5. ASSUME NEW p \in Procs, Handler(p), ~RecoverCas(p), ~CompleteCas(p),
             ~RetireCas(p), \A l \in Leases : ~FenceCas(p, l)
      PROVE  FALSE
  BY <1>5 DEF Handler, OnlyReads, ReserveRead, BindRead, ActivateRead,
     AcquireRead, RetireRead, AuthorizeRead, RollbackRead, ExecuteInsert,
     CompleteRead, FinalizeRead, ExecuteRead, RefreshCas, ReclaimCas, BindCas,
     ActivateCas, FinalizeCas, AuthorizeCas, RollbackCas, GiveUp
<1>6. CASE Environment \/ UNCHANGED vars
  BY <1>6 DEF Environment, ReserveInsert, ExecAcquire, ExecStep,
     DeployExecution, ExpungeVm, DeployLegacy, Tick, vars
<1> QED
  BY <1>2, <1>3, <1>4, <1>5, <1>6 DEF Next

\* No operation and no retirement takes a live lease away: it ends by the
\* completion of that very lease or after its expiry, for every number of
\* handlers in every order.
THEOREM RegistryLeaseEndsByHolderOrExpiry == Spec => LeaseEndsByHolderOrExpiry
<1>1. LInv /\ [Next]_vars =>
        [\A v \in Vmids :
           (leaseRow[v].id # None /\ leaseRow'[v] # leaseRow[v]) =>
              \/ leaseRow[v].expires <= now
              \/ \E p \in Procs : /\ req[p].op = "complete"
                                   /\ req[p].lease = leaseRow[v].id
                                   /\ req'[p].op = "idle"]_vars
  BY LeaseLeaves
<1> QED
  BY <1>1, SpecKeepsLInv, PTL DEF Spec, LeaseEndsByHolderOrExpiry

\* The compare-and-set of an activation is what makes a bound claim managed.
LEMMA ActivationIsCas ==
  ASSUME LInv, [Next]_vars, NEW v \in Vmids,
         claim[v].state = "bound", claim'[v].state = "managed"
  PROVE  \E p \in Procs : ActivateCas(p) /\ req[p].vmid = v
<1>1. /\ claim \in [Vmids -> Claim]
      /\ \A p \in Procs : req[p].op # "idle" => req[p].vmid \in Vmids
  BY DEF LInv, IInv, TypeOK, RequestOK, ReadFacts
<1>2. ASSUME NEW p \in Procs, Handler(p), ~ActivateCas(p) PROVE FALSE
  <2>1. claim' # claim
    BY <1>1
  <2>2. CASE RefreshCas(p)
    BY <1>1, <2>2 DEF RefreshCas, SetClaim
  <2>3. CASE ReclaimCas(p)
    BY <1>1, <2>3 DEF ReclaimCas, SetClaim
  <2>4. CASE BindCas(p)
    BY <1>1, <2>4 DEF BindCas, SetClaim
  <2>5. CASE RecoverCas(p)
    BY <1>1, <2>5 DEF RecoverCas, SetClaim
  <2>6. CASE \E l \in Leases : FenceCas(p, l)
    BY <1>1, <2>6 DEF FenceCas, SetClaim
  <2>7. CASE CompleteCas(p)
    BY <1>1, <2>7 DEF CompleteCas, CompleteWhere, SetClaim
  <2>8. CASE RetireCas(p)
    BY <1>1, <2>8 DEF RetireCas, SetClaim
  <2>9. CASE FinalizeCas(p)
    BY <1>1, <2>9 DEF FinalizeCas, SetClaim
  <2>10. CASE AuthorizeCas(p)
    BY <1>1, <2>10 DEF AuthorizeCas, SetClaim
  <2>11. CASE RollbackCas(p)
    BY <1>1, <2>11 DEF RollbackCas, SetClaim
  <2> QED
    BY <1>2, <2>1, <2>2, <2>3, <2>4, <2>5, <2>6, <2>7, <2>8, <2>9, <2>10, <2>11
    DEF Handler, OnlyReads, ReserveRead, BindRead, ActivateRead, AcquireRead,
        RetireRead, AuthorizeRead, RollbackRead, ExecuteInsert, CompleteRead,
        FinalizeRead, ExecuteRead, GiveUp
<1>3. ASSUME NEW p \in Procs, ActivateCas(p) PROVE req[p].vmid = v
  BY <1>1, <1>3 DEF ActivateCas, SetClaim
<1>4. ASSUME Environment PROVE FALSE
  BY <1>1, <1>4 DEF Environment, ReserveInsert, SetClaim, ExecAcquire, ExecStep,
     DeployExecution, ExpungeVm, DeployLegacy, Tick
<1>5. ASSUME UNCHANGED vars PROVE FALSE
  BY <1>5 DEF vars
<1> QED
  BY <1>2, <1>3, <1>4, <1>5 DEF Next

\* A claim becomes managed only under the unexpired lease of the worker that
\* asked, on the verifying execution of that claim's own VM and generation.
THEOREM RegistryActivationFencedByWorker == Spec => ActivationFencedByWorker
<1> DEFINE Fenced(v) ==
             LET r == claim[v].ref
             IN /\ exec[r].phase = "verifying"
                /\ exec[r].vmid = v /\ exec[r].gen = claim[v].gen
                /\ \E p \in Procs : /\ req[p].op = "activate"
                                     /\ req'[p].op = "idle"
                                     /\ req[p].worker = exec[r].worker
                                     /\ exec[r].expires > now
<1>1. LInv /\ [Next]_vars =>
        [\A v \in Vmids :
           (claim[v].state = "bound" /\ claim'[v].state = "managed") =>
             Fenced(v)]_vars
  <2> SUFFICES ASSUME LInv, [Next]_vars, NEW v \in Vmids,
                      claim[v].state = "bound", claim'[v].state = "managed"
               PROVE  Fenced(v)
    OBVIOUS
  <2>1. PICK p \in Procs : ActivateCas(p) /\ req[p].vmid = v
    BY ActivationIsCas
  <2>2. req'[p].op = "idle"
    BY <2>1 DEF ActivateCas, Done, LInv, IInv, TypeOK
  <2> QED
    BY <2>1, <2>2 DEF ActivateCas, ActivateWhere, WorkerCurrent
<1> QED
  BY <1>1, SpecKeepsLInv, PTL DEF Spec, ActivationFencedByWorker

----------------------------------------------------------------------------
(* The refinement: each compare-and-set is one step of ClaimLifecycle, and *)
(* whatever leaves the claims, their leases, the VMs and the clock alone   *)
(* is hidden from it.                                                      *)

\* What the lifecycle sees of a claim row, of a lease row and of CloudStack.
LifeOf(c) == [phase |-> IF c.state = "operating" THEN "managed" ELSE c.state,
              gen |-> c.gen, owner |-> c.ref]
OpOf(row) == [id |-> row.id, expires |-> row.expires]

Life == [v \in Vmids |-> LifeOf(claim[v])]
Op == [v \in Vmids |-> OpOf(leaseRow[v])]
Gone == {r \in Refs : vm[r].life # "alive"}

\* The columns and rows the lifecycle is about have their types.
LEMMA RowsOfLInv ==
  ASSUME LInv
  PROVE  /\ claim \in [Vmids -> Claim] /\ leaseRow \in [Vmids -> LeaseRow]
         /\ vm \in [Refs -> Vm] /\ now \in Nat
         /\ \A p \in Procs : req[p] \in Request
         /\ \A p \in Procs : req[p].op # "idle" => req[p].vmid \in Vmids
BY DEF LInv, IInv, TypeOK, RequestOK, ReadFacts

\* What it sees of one row, and what a write of one row changes in that.
LEMMA LifeSees ==
  /\ \A v \in Vmids : Life[v] = LifeOf(claim[v]) /\ Op[v] = OpOf(leaseRow[v])
  /\ DOMAIN Life = Vmids /\ DOMAIN Op = Vmids
BY DEF Life, LifeOf, Op, OpOf

LEMMA ClaimWrite ==
  ASSUME claim \in [Vmids -> Claim], NEW v \in Vmids, NEW c, SetClaim(v, c)
  PROVE  Life' = [Life EXCEPT ![v] = LifeOf(c)]
BY DEF SetClaim, Life, LifeOf

LEMMA LeaseWrite ==
  ASSUME leaseRow \in [Vmids -> LeaseRow], NEW v \in Vmids, NEW c,
         leaseRow' = [leaseRow EXCEPT ![v] = c]
  PROVE  Op' = [Op EXCEPT ![v] = OpOf(c)]
BY DEF Op, OpOf

LEMMA NoWrite ==
  /\ UNCHANGED claim => UNCHANGED Life
  /\ UNCHANGED leaseRow => UNCHANGED Op
  /\ UNCHANGED vm => UNCHANGED Gone
BY DEF Life, Op, Gone

\* A fence column and a lease row are set together.
LEMMA FenceOfLInv ==
  ASSUME LInv, NEW v \in Vmids
  PROVE  IF claim[v].state = "operating"
         THEN claim[v].fence # None /\ leaseRow[v].id = claim[v].fence
         ELSE claim[v].fence = None /\ Op[v] = [id |-> None, expires |-> 0]
BY LifeSees DEF LInv, IInv, FenceMatchesLease, OpOf

LEMMA ReserveIsLifecycleStep ==
  ASSUME LInv, NEW v \in Vmids, NEW c, SetClaim(v, c),
         \/ claim[v].state \in {"absent", "released"}
         \/ claim[v].state = "reserved" /\ claim[v].ref = None,
         c.state = "reserved", c.gen = claim[v].gen + 1, c.ref = None,
         UNCHANGED <<leaseRow, vm, now>>
  PROVE  Lifecycle!Reserve(v)
<1>1. Life' = [Life EXCEPT ![v] = LifeOf(c)]
  BY RowsOfLInv, ClaimWrite
<1>2. LifeOf(c) = [phase |-> "reserved", gen |-> Life[v].gen + 1, owner |-> None]
  BY LifeSees DEF LifeOf
<1>3. \/ Life[v].phase \in {"absent", "released"}
      \/ Life[v].phase = "reserved" /\ Life[v].owner = None
  BY LifeSees DEF LifeOf
<1>4. Op[v] = [id |-> None, expires |-> 0]
  BY FenceOfLInv
<1>5. UNCHANGED <<Op, Gone, now>>
  BY NoWrite
<1> QED
  BY <1>1, <1>2, <1>3, <1>4, <1>5
  DEF Lifecycle!Reserve, Lifecycle!NoOp, Life, LifeOf, Op, OpOf, Gone

\* A write that changes the state column alone.
LEMMA StateIsLifecycleMove ==
  ASSUME LInv, NEW v \in Vmids, NEW from, NEW to,
         from # "operating", to \in ClaimStates \ {"operating"},
         claim[v].state = from \/ (from = "managed" /\ claim[v].state = "operating"),
         NEW c, SetClaim(v, c),
         c.state = to, c.gen = claim[v].gen, c.ref = claim[v].ref,
         UNCHANGED <<vm, now>>
  PROVE  Lifecycle!Move(v, from, to)
<1>1. Life' = [Life EXCEPT ![v] = LifeOf(c)]
  BY RowsOfLInv, ClaimWrite
<1>2. LifeOf(c) = [Life[v] EXCEPT !.phase = to]
  BY LifeSees DEF LifeOf
<1>3. Life[v].phase = from
  BY LifeSees DEF LifeOf
<1>4. UNCHANGED <<Gone, now>>
  BY NoWrite
<1> QED
  BY <1>1, <1>2, <1>3, <1>4 DEF Lifecycle!Move, Life, LifeOf, Gone

\* A write that ends the operation, or that never had one, frees the guest.
LEMMA LeaseEnds ==
  ASSUME LInv, NEW v \in Vmids,
         \/ leaseRow' = [leaseRow EXCEPT ![v] = NoLease]
         \/ UNCHANGED leaseRow /\ claim[v].state # "operating"
  PROVE  Op' = [Op EXCEPT ![v] = [id |-> None, expires |-> 0]]
<1>1. CASE leaseRow' = [leaseRow EXCEPT ![v] = NoLease]
  <2>1. OpOf(NoLease) = [id |-> None, expires |-> 0]
    BY DEF OpOf
  <2> QED
    BY <1>1, <2>1, RowsOfLInv, LeaseWrite
<1>2. CASE UNCHANGED leaseRow /\ claim[v].state # "operating"
  <2>1. Op' = Op /\ Op[v] = [id |-> None, expires |-> 0]
    BY <1>2, NoWrite, FenceOfLInv
  <2> QED
    BY <2>1 DEF Op
<1> QED
  BY <1>1, <1>2

LEMMA EndIsLifecycleStep ==
  ASSUME LInv, NEW v \in Vmids, claim[v].state = "operating",
         SetClaim(v, [claim[v] EXCEPT !.state = "managed", !.fence = None]),
         leaseRow' = [leaseRow EXCEPT ![v] = NoLease], UNCHANGED <<vm, now>>
  PROVE  Lifecycle!EndOp(v)
<1> DEFINE c == [claim[v] EXCEPT !.state = "managed", !.fence = None]
<1>1. Life' = [Life EXCEPT ![v] = LifeOf(c)]
  BY RowsOfLInv, ClaimWrite
<1>2. LifeOf(c) = Life[v] /\ Life[v].phase = "managed"
  BY RowsOfLInv, LifeSees DEF LifeOf
<1>3. Life' = Life
  BY <1>1, <1>2 DEF Life
<1>4. Op' = [Op EXCEPT ![v] = [id |-> None, expires |-> 0]]
  BY LeaseEnds
<1>5. Op[v] # [id |-> None, expires |-> 0]
  BY FenceOfLInv, LifeSees DEF OpOf
<1>6. UNCHANGED <<Gone, now>>
  BY NoWrite
<1> QED
  BY <1>2, <1>3, <1>4, <1>5, <1>6
  DEF Lifecycle!EndOp, Lifecycle!NoOp, Life, LifeOf, Op, OpOf, Gone

\* The row a request is about, as a constant.
LEMMA RowOfRequest ==
  ASSUME LInv, NEW p \in Procs, req[p].op # "idle"
  PROVE  \E v \in Vmids : v = req[p].vmid /\ claim[v] \in Claim
BY RowsOfLInv

\* A fence is set on a managed claim that has none.
LEMMA FenceIsLifecycleStep ==
  ASSUME LInv, NEW p \in Procs, NEW l \in Leases, FenceCas(p, l)
  PROVE  \E v \in Vmids : Lifecycle!BeginOp(v, l)
<1>1. PICK v \in Vmids : v = req[p].vmid /\ claim[v] \in Claim
  BY RowOfRequest DEF FenceCas
<1> DEFINE c == [claim[v] EXCEPT !.state = "operating", !.fence = l]
           n == NewLease(req[p], l)
<1>2. Life' = [Life EXCEPT ![v] = LifeOf(c)]
  BY <1>1, RowsOfLInv, ClaimWrite DEF FenceCas
<1>3. LifeOf(c) = Life[v] /\ Life[v].phase = "managed"
  BY <1>1, LifeSees DEF FenceCas, LifeOf
<1>4. Life' = Life
  BY <1>2, <1>3 DEF Life
<1>5. Op' = [Op EXCEPT ![v] = OpOf(n)]
  BY <1>1, RowsOfLInv, LeaseWrite DEF FenceCas
<1>6. OpOf(n) \in [id : {l}, expires : Nat]
  BY RowsOfLInv DEF NewLease, OpOf
<1>7. Op[v] = [id |-> None, expires |-> 0] /\ Op'[v] = OpOf(n)
  BY <1>1, <1>5, FenceOfLInv DEF FenceCas, Op
<1>8. UNCHANGED <<Gone, now>>
  BY NoWrite DEF FenceCas
<1> HIDE DEF n
<1>9. Lifecycle!BeginOp(v, l)
  BY <1>3, <1>4, <1>5, <1>6, <1>7, <1>8
  DEF Lifecycle!BeginOp, Lifecycle!NoOp, Life, LifeOf, Op, OpOf, Gone
<1> QED
  BY <1>9

\* The delete callback retires a claim without an operation, or past a dead one.
LEMMA RetireIsLifecycleStep ==
  ASSUME LInv, NEW p \in Procs, RetireCas(p)
  PROVE  \E v \in Vmids : Lifecycle!Retire(v)
<1>1. PICK v \in Vmids : v = req[p].vmid /\ claim[v] \in Claim
  BY RowOfRequest DEF RetireCas
<1> DEFINE c == [claim[v] EXCEPT !.state = "retiring", !.fence = None]
<1>2. /\ SetClaim(v, c) /\ UNCHANGED <<vm, now>>
      /\ claim[v].state \in {"bound", "managed", "operating"}
      /\ claim[v].fence = req[p].lease
  BY <1>1 DEF RetireCas
<1>3. Lifecycle!Move(v, "bound", "retiring") \/ Lifecycle!Move(v, "managed", "retiring")
  <2>1. /\ c.state = "retiring" /\ c.gen = claim[v].gen /\ c.ref = claim[v].ref
        /\ "retiring" \in ClaimStates \ {"operating"}
    BY <1>1
  <2> QED
    BY <1>2, <2>1, StateIsLifecycleMove
<1>4. /\ Op' = [Op EXCEPT ![v] = [id |-> None, expires |-> 0]]
      /\ Op[v] = [id |-> None, expires |-> 0] \/ Op[v].expires <= now
  <2>1. CASE claim[v].state # "operating"
    <3>1. UNCHANGED leaseRow
      BY <1>1, <1>2, <2>1, FenceOfLInv DEF RetireCas
    <3> QED
      BY <2>1, <3>1, LeaseEnds, FenceOfLInv
  <2>2. CASE claim[v].state = "operating"
    <3>1. req[p].lease # None /\ leaseRow[v].id = req[p].lease
      BY <1>2, <2>2, FenceOfLInv
    <3>2. leaseRow[v].expires <= now
      BY <1>1, <3>1 DEF RetireCas, LInv, EvictedLeaseHasExpired, Evicts
    <3>3. leaseRow' = [leaseRow EXCEPT ![v] = NoLease]
      BY <1>1, <3>1 DEF RetireCas
    <3>4. Op' = [Op EXCEPT ![v] = [id |-> None, expires |-> 0]]
      BY <3>3, LeaseEnds
    <3>5. Op[v].expires <= now
      BY <3>2, LifeSees DEF OpOf
    <3> QED
      BY <3>4, <3>5
  <2> QED
    BY <2>1, <2>2
<1>5. Lifecycle!Retire(v)
  BY <1>3, <1>4 DEF Lifecycle!Retire, Lifecycle!NoOp, Op, OpOf
<1> QED
  BY <1>5

LEMMA OwnIsLifecycleStep ==
  ASSUME LInv, NEW p \in Procs, BindCas(p)
  PROVE  \E v \in Vmids, r \in Refs : Lifecycle!Own(v, r)
<1>1. PICK v \in Vmids : v = req[p].vmid /\ claim[v] \in Claim
  BY RowOfRequest DEF BindCas
<1>2. PICK r \in Refs : r = req[p].ref
  BY DEF BindCas, LInv, IInv, RequestOK, ReadFacts
<1> DEFINE c == [claim[v] EXCEPT !.state = "bound", !.ref = r]
<1>3. Life' = [Life EXCEPT ![v] = LifeOf(c)]
  BY <1>1, <1>2, RowsOfLInv, ClaimWrite DEF BindCas
<1>4. LifeOf(c) = [phase |-> "bound", gen |-> Life[v].gen, owner |-> r]
  <2>1. c.state = "bound" /\ c.gen = claim[v].gen /\ c.ref = r
    BY <1>1
  <2> HIDE DEF c
  <2> QED
    BY <2>1, LifeSees DEF LifeOf
<1>5. Life[v].phase = "reserved" /\ Life[v].owner = None
  BY <1>1, LifeSees DEF BindCas, BindWhere, Unbound, LifeOf
<1>6. \A w \in Vmids : Life[w].owner # r
  BY <1>2, LifeSees DEF BindCas, LifeOf
<1>7. UNCHANGED <<Op, Gone, now>>
  BY NoWrite DEF BindCas
<1>8. Life' = [Life EXCEPT ![v].phase = "bound", ![v].owner = r]
  <2> DEFINE LifeType == [phase : ClaimStates, gen : Nat, owner : Refs \cup {None}]
  <2>1. Life \in [Vmids -> LifeType]
    BY RowsOfLInv DEF Life, LifeOf
  <2> QED
    BY <1>3, <1>4, <2>1
<1>9. Lifecycle!Own(v, r)
  BY <1>5, <1>6, <1>7, <1>8
  DEF Lifecycle!Own, Life, LifeOf, Op, OpOf, Gone
<1> QED
  BY <1>9

LEMMA MoveIsLifecycleStep ==
  ASSUME LInv, NEW p \in Procs,
         ActivateCas(p) \/ FinalizeCas(p) \/ AuthorizeCas(p) \/ RollbackCas(p)
  PROVE  \E v \in Vmids : \/ Lifecycle!Activate(v) \/ Lifecycle!Release(v)
                           \/ Lifecycle!Rollback(v)
<1>1. PICK v \in Vmids : v = req[p].vmid /\ claim[v] \in Claim
  BY RowOfRequest DEF ActivateCas, FinalizeCas, AuthorizeCas, RollbackCas
<1> DEFINE c(to) == [claim[v] EXCEPT !.state = to]
<1>2. ASSUME NEW from \in ClaimStates \ {"operating"},
             NEW to \in ClaimStates \ {"operating"}, claim[v].state = from,
             SetClaim(v, c(to)), UNCHANGED <<leaseRow, vm, now>>
      PROVE  /\ Lifecycle!Move(v, from, to) /\ UNCHANGED Op
             /\ Life[v].owner = claim[v].ref
  <2>1. c(to).state = to /\ c(to).gen = claim[v].gen /\ c(to).ref = claim[v].ref
    BY <1>1
  <2>2. UNCHANGED Op /\ Life[v].owner = claim[v].ref
    BY <1>2, NoWrite, LifeSees DEF LifeOf
  <2> HIDE DEF c
  <2> QED
    BY <1>2, <2>1, <2>2, StateIsLifecycleMove
<1>3. CASE ActivateCas(p)
  <2>1. Lifecycle!Move(v, "bound", "managed") /\ UNCHANGED Op
    BY <1>1, <1>2, <1>3 DEF ActivateCas, ActivateWhere
  <2>2. Lifecycle!Activate(v)
    BY <2>1 DEF Lifecycle!Activate, Op, OpOf
  <2> QED
    BY <2>2
<1>4. CASE FinalizeCas(p)
  <2>1. /\ Lifecycle!Move(v, "retiring", "released") /\ UNCHANGED Op
        /\ Life[v].owner = claim[v].ref
    BY <1>1, <1>2, <1>4 DEF FinalizeCas
  <2>2. claim[v].ref \in Gone
    BY <1>1, <1>4 DEF FinalizeCas, Gone, LInv, IInv, RequestOK, ReadFacts
  <2>3. Lifecycle!Release(v)
    BY <2>1, <2>2 DEF Lifecycle!Release, Life, LifeOf, Op, OpOf, Gone
  <2> QED
    BY <2>3
<1>5. CASE AuthorizeCas(p)
  <2>1. /\ Lifecycle!Move(v, "reserved", "cleanup") /\ UNCHANGED Op
        /\ Life[v].owner = None
    BY <1>1, <1>2, <1>5 DEF AuthorizeCas, Unbound
  <2>2. Lifecycle!Rollback(v)
    BY <2>1 DEF Lifecycle!Rollback, Life, LifeOf, Op, OpOf
  <2> QED
    BY <2>2
<1>6. CASE RollbackCas(p)
  <2>1. /\ \/ Lifecycle!Move(v, "reserved", "released")
           \/ Lifecycle!Move(v, "cleanup", "released")
        /\ UNCHANGED Op /\ Life[v].owner = None
    BY <1>1, <1>2, <1>6 DEF RollbackCas, Unbound
  <2>2. Lifecycle!Rollback(v)
    BY <2>1 DEF Lifecycle!Rollback, Life, LifeOf, Op, OpOf
  <2> QED
    BY <2>2
<1> QED
  BY <1>3, <1>4, <1>5, <1>6

LEMMA CasReserves ==
  ASSUME LInv, NEW p \in Procs, RefreshCas(p) \/ ReclaimCas(p)
  PROVE  \E v \in Vmids : Lifecycle!Reserve(v)
<1>1. PICK v \in Vmids : v = req[p].vmid /\ claim[v] \in Claim
  BY RowOfRequest DEF RefreshCas, ReclaimCas
<1>2. CASE RefreshCas(p)
  <2> DEFINE c == [claim[v] EXCEPT !.manifest = req[p].manifest,
                                   !.gen = req[p].gen + 1]
  <2>1. /\ claim[v].state = "reserved" /\ claim[v].ref = None
        /\ SetClaim(v, c) /\ UNCHANGED <<leaseRow, vm, now>>
        /\ claim[v].gen = req[p].gen
    BY <1>1, <1>2 DEF RefreshCas, Unbound
  <2>2. c.state = "reserved" /\ c.gen = claim[v].gen + 1 /\ c.ref = None
    BY <1>1, <2>1
  <2> HIDE DEF c
  <2> QED
    BY <2>1, <2>2, ReserveIsLifecycleStep
<1>3. CASE ReclaimCas(p)
  <2> DEFINE c == [claim[v] EXCEPT !.state = "reserved", !.gen = req[p].gen + 1,
                                   !.manifest = req[p].manifest, !.ref = None]
  <2>1. /\ claim[v].state = "released" /\ claim[v].gen = req[p].gen
        /\ SetClaim(v, c) /\ UNCHANGED <<leaseRow, vm, now>>
    BY <1>1, <1>3 DEF ReclaimCas, ReclaimWhere
  <2>2. c.state = "reserved" /\ c.gen = claim[v].gen + 1 /\ c.ref = None
    BY <1>1, <2>1
  <2> HIDE DEF c
  <2> QED
    BY <2>1, <2>2, ReserveIsLifecycleStep
<1> QED
  BY <1>2, <1>3

LEMMA CasEndsOperation ==
  ASSUME LInv, NEW p \in Procs, RecoverCas(p) \/ CompleteCas(p)
  PROVE  \E v \in Vmids : Lifecycle!EndOp(v)
<1>1. PICK v \in Vmids : v = req[p].vmid /\ claim[v] \in Claim
  BY RowOfRequest DEF RecoverCas, CompleteCas
<1>2. /\ claim[v].state = "operating"
      /\ SetClaim(v, [claim[v] EXCEPT !.state = "managed", !.fence = None])
      /\ claim[v].fence = req[p].lease /\ UNCHANGED <<vm, now>>
      /\ leaseRow' = IF leaseRow[v].id = req[p].lease
                     THEN [leaseRow EXCEPT ![v] = NoLease] ELSE leaseRow
  BY <1>1 DEF RecoverCas, CompleteCas, CompleteWhere
<1>3. leaseRow' = [leaseRow EXCEPT ![v] = NoLease]
  BY <1>2, FenceOfLInv
<1>4. Lifecycle!EndOp(v)
  BY <1>2, <1>3, EndIsLifecycleStep
<1> QED
  BY <1>4

LEMMA WorldIsLifecycleStep ==
  ASSUME LInv
  PROVE  /\ \A r \in Refs : DeployExecution(r) => Lifecycle!CloudStack(r)
         /\ \A r \in Refs, v \in Vmids :
              DeployLegacy(r, v) => Lifecycle!CloudStack(r)
         /\ \A r \in Refs : ExpungeVm(r) => Lifecycle!CloudStack(r)
         /\ Tick => Lifecycle!Advance
<1> USE RowsOfLInv
<1>1. ASSUME NEW r \in Refs, UNCHANGED <<claim, leaseRow, now>>,
             Gone' = IF r \in Gone THEN Gone \ {r} ELSE Gone \cup {r}
      PROVE  Lifecycle!CloudStack(r)
  <2>1. UNCHANGED <<Life, Op, now>>
    BY <1>1, NoWrite
  <2> QED
    BY <1>1, <2>1 DEF Lifecycle!CloudStack, Life, LifeOf, Op, OpOf, Gone
<1>2. ASSUME NEW r \in Refs, DeployExecution(r) PROVE Lifecycle!CloudStack(r)
  <2>1. Gone' = Gone \ {r} /\ r \in Gone
    BY <1>2 DEF DeployExecution, Gone
  <2> QED
    BY <1>1, <1>2, <2>1 DEF DeployExecution
<1>3. ASSUME NEW r \in Refs, NEW v \in Vmids, DeployLegacy(r, v)
      PROVE  Lifecycle!CloudStack(r)
  <2>1. Gone' = Gone \ {r} /\ r \in Gone
    BY <1>3 DEF DeployLegacy, Gone
  <2> QED
    BY <1>1, <1>3, <2>1 DEF DeployLegacy
<1>4. ASSUME NEW r \in Refs, ExpungeVm(r) PROVE Lifecycle!CloudStack(r)
  <2>1. Gone' = Gone \cup {r} /\ r \notin Gone
    BY <1>4 DEF ExpungeVm, Gone
  <2> QED
    BY <1>1, <1>4, <2>1 DEF ExpungeVm
<1>5. ASSUME Tick PROVE Lifecycle!Advance
  <2>1. UNCHANGED <<Life, Op, Gone>>
    BY <1>5, NoWrite DEF Tick
  <2> QED
    BY <1>5, <2>1 DEF Tick, Lifecycle!Advance, Life, LifeOf, Op, OpOf, Gone
<1> QED
  BY <1>2, <1>3, <1>4, <1>5

\* Every step of the registry is a step of the lifecycle, or hidden.
LEMMA StepIsLifecycleStep ==
  LInv /\ [Next]_vars => [Lifecycle!LNext]_(Lifecycle!lvars)
<1> SUFFICES ASSUME LInv, [Next]_vars
             PROVE  Lifecycle!LNext \/ UNCHANGED Lifecycle!lvars
  OBVIOUS
<1>1. ASSUME UNCHANGED <<claim, leaseRow, vm, now>>
      PROVE  UNCHANGED Lifecycle!lvars
  <2>1. UNCHANGED <<Life, Op, Gone, now>>
    BY <1>1, NoWrite
  <2> QED
    BY <2>1 DEF Lifecycle!lvars, Life, LifeOf, Op, OpOf, Gone
<1>2. ASSUME NEW p \in Procs, Handler(p)
      PROVE  Lifecycle!LNext \/ UNCHANGED <<claim, leaseRow, vm, now>>
  <2>1. CASE RefreshCas(p) \/ ReclaimCas(p)
    BY <2>1, CasReserves DEF Lifecycle!LNext
  <2>2. CASE BindCas(p)
    BY <2>2, OwnIsLifecycleStep DEF Lifecycle!LNext
  <2>3. CASE ActivateCas(p) \/ FinalizeCas(p) \/ AuthorizeCas(p) \/ RollbackCas(p)
    BY <2>3, MoveIsLifecycleStep DEF Lifecycle!LNext
  <2>4. CASE RecoverCas(p) \/ CompleteCas(p)
    BY <2>4, CasEndsOperation DEF Lifecycle!LNext
  <2>5. ASSUME NEW l \in Leases, FenceCas(p, l) PROVE Lifecycle!LNext
    BY <2>5, FenceIsLifecycleStep DEF Lifecycle!LNext
  <2>6. CASE RetireCas(p)
    BY <2>6, RetireIsLifecycleStep DEF Lifecycle!LNext
  <2> QED
    BY <1>2, <2>1, <2>2, <2>3, <2>4, <2>5, <2>6
    DEF Handler, OnlyReads, ReserveRead, BindRead, ActivateRead, AcquireRead,
        RetireRead, AuthorizeRead, RollbackRead, ExecuteInsert, CompleteRead,
        FinalizeRead, ExecuteRead, GiveUp
<1>3. ASSUME Environment
      PROVE  Lifecycle!LNext \/ UNCHANGED <<claim, leaseRow, vm, now>>
  <2>1. ASSUME NEW v \in Vmids, NEW m \in Manifests, ReserveInsert(v, m)
        PROVE  Lifecycle!LNext
    <3> DEFINE c == [NoClaim EXCEPT !.state = "reserved", !.gen = 1,
                                    !.manifest = m]
    <3>1. c.state = "reserved" /\ c.gen = claim[v].gen + 1 /\ c.ref = None
      BY <2>1 DEF ReserveInsert, LInv, AbsentIsFresh
    <3>2. Lifecycle!Reserve(v)
      BY <2>1, <3>1, ReserveIsLifecycleStep DEF ReserveInsert
    <3> QED
      BY <3>2 DEF Lifecycle!LNext
  <2>2. CASE \/ \E r \in Refs : DeployExecution(r) \/ ExpungeVm(r)
             \/ \E r \in Refs, v \in Vmids : DeployLegacy(r, v)
             \/ Tick
    BY <2>2, WorldIsLifecycleStep DEF Lifecycle!LNext
  <2> QED
    BY <1>3, <2>1, <2>2 DEF Environment, ExecAcquire, ExecStep
<1>4. ASSUME UNCHANGED vars PROVE UNCHANGED <<claim, leaseRow, vm, now>>
  BY <1>4 DEF vars
<1> QED
  BY <1>1, <1>2, <1>3, <1>4 DEF Next

\* The claim table starts as the lifecycle does.
LEMMA InitIsLifecycleInit == Init => Lifecycle!LInit
BY DEF Init, Lifecycle!LInit, Lifecycle!NoLife, Lifecycle!NoOp

\* The registry implements the lifecycle for every constant: whatever its
\* handlers read and however their writes interleave, a guest has one life at
\* a time, with one owner and one operation.
THEOREM RegistryImplementsLifecycle == Spec => ImplementsLifecycle
  BY InitIsLifecycleInit, SpecKeepsLInv, StepIsLifecycleStep, PTL
     DEF Spec, ImplementsLifecycle, Lifecycle!LifecycleSpec
=============================================================================
