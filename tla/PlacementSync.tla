--------------------------- MODULE PlacementSync ---------------------------
(***************************************************************************)
(* The placement half of backend/sync_engine.py: full_sync polls Proxmox   *)
(* and CloudStack into the proxmox_vms and cloudstack_vms tables, match_vms*)
(* links their rows, and reconcile_all / reconcile_vm write the placement  *)
(* and the power state of linked guests into CloudStack's vm_instance      *)
(* table. Beside the cycle (one at a time: sync_lock) operators link and   *)
(* unlink rows, edit the host mappings and reconcile by hand.              *)
(*                                                                         *)
(* Every read of the tables and every commit is a step of its own; guests, *)
(* CloudStack and the mappings may change between any two. The ORM writes  *)
(* only the columns whose value differs from what its session has loaded,  *)
(* so a commit that comes late overwrites columns, not rows. Rows that are *)
(* templates, containers or not of hypervisor External take no part, and   *)
(* `matched` is "the link is not NULL": every write sets both together.    *)
(***************************************************************************)
EXTENDS Naturals, FiniteSets

CONSTANTS
    Guests,      \* proxmox_vms ids: (cluster, VMID)
    CsVms,       \* CloudStack VM UUIDs
    Places,      \* (cluster, node)
    Hosts,       \* CloudStack hosts: name and id
    Clusters,    \* Proxmox clusters
    ClusterOf,   \* the cluster of each place and of each guest
    VmidOf,      \* the VMID of each guest, the External VMID of each VM
    Named,       \* <<g, c>> when c carries the name of g
    HostAt,      \* the CloudStack host that each place really is
    Home,        \* the guest that each CloudStack VM really stands for
    Starts,      \* where the guests are at first, and rows from earlier days
    Procs,       \* match and unmatch requests at a time
    FullSync,    \* the session of full_sync
    Routes,      \* sessions of the reconcile routes
    None,        \* SQL NULL, Python None
    MaxChanges,  \* bound on changes of guests, CloudStack and mappings
    MaxFailures, \* bound on failing polls, transactions, writes, processes
    MaxRequests, \* bound on the requests of operators
    MaxEvents    \* bound on all of these together

ASSUME PlacementConstants ==
    /\ None \notin Guests \cup CsVms \cup Places \cup Hosts
    /\ IsFiniteSet(Guests)
    /\ ClusterOf \in [Guests \cup Places -> Clusters]
    /\ DOMAIN VmidOf = Guests \cup CsVms
    /\ Named \subseteq Guests \X CsVms
    /\ HostAt \in [Places -> Hosts]
    /\ Home \in [CsVms -> Guests]
    /\ Starts \subseteq [node : [Guests -> Places],
                         rows : SUBSET [place : Places, host : Hosts]]
    /\ FullSync \notin Routes
    /\ {MaxChanges, MaxFailures, MaxRequests, MaxEvents} \subseteq Nat

\* What the constants mean: a cluster gives a VMID once (it is the key of
\* proxmox_vms), a VM has the External VMID of the guest it stands for, and
\* what a CloudStack host is does not span clusters.
ASSUME PlacementIdentity ==
    /\ \A g, h \in Guests :
         ClusterOf[g] = ClusterOf[h] /\ VmidOf[g] = VmidOf[h] => g = h
    /\ \A c \in CsVms : VmidOf[c] = VmidOf[Home[c]]
    /\ \A p, q \in Places : HostAt[p] = HostAt[q] => ClusterOf[p] = ClusterOf[q]

VARIABLES
    guest,   \* where Proxmox runs each guest, and its status
    vmi,     \* CloudStack's vm_instance rows
    mapping, \* host_mappings
    px,      \* proxmox_vms
    cs,      \* cloudstack_vms
    ready,   \* _inventory_collection_ready
    sync,    \* where full_sync is, and what match_vms has read
    sess,    \* where each reconciliation is, and what it decided
    req,     \* the match and unmatch requests, and what they have read
    polled,  \* what Proxmox answered to the poll of this cycle (history)
    raced,   \* links were committed from rows read too early (history)
    overlap, \* match or unmatch requests have overlapped (history)
    spent    \* what the bounds have left to limit

vars == <<guest, vmi, mapping, px, cs, ready, sync, sess, req, polled, raced,
          overlap, spent>>

World == <<guest, vmi, mapping>>
Rows == <<px, cs>>
History == <<polled, raced, overlap>>
Sessions == Routes \cup {FullSync}

Statuses == {"running", "stopped", "paused"}
Sources == {"", "manual", "host", "name"}
Durables == {"manual", "host"}
Guest == [node : Places \cup {None}, status : Statuses]
Vmi == [state : {"Running", "Stopped"}, host : Hosts \cup {None},
        removed : BOOLEAN]
Row == [place : Places, host : Hosts]
PxRow == [current : BOOLEAN, node : Places \cup {None}, status : Statuses,
          link : CsVms \cup {None}, source : Sources]
CsRow == [current : BOOLEAN, host : Hosts \cup {None},
          state : {"Running", "Stopped"}, link : Guests \cup {None},
          source : Sources]

NoPx == [current |-> FALSE, node |-> None, status |-> "stopped",
         link |-> None, source |-> ""]
NoCs == [current |-> FALSE, host |-> None, state |-> "Stopped",
         link |-> None, source |-> ""]
NoItem == [type |-> "none", g |-> None, c |-> None, source |-> None,
           target |-> None, node |-> None, status |-> "stopped"]
Idle == [pc |-> "idle", todo |-> {}, item |-> NoItem, wrote |-> FALSE]
Resting == [pc |-> "idle", px |-> [g \in Guests |-> NoPx],
            cs |-> [c \in CsVms |-> NoCs], maps |-> {}, failed |-> FALSE,
            stale |-> FALSE]
NoRequest == [op |-> "idle", g |-> None, c |-> None, px |-> NoPx, cs |-> NoCs,
              stale |-> FALSE]

TrueRows == {[place |-> p, host |-> HostAt[p]] : p \in Places}

\* Every guest runs in its cluster, every VM is placed where its guest is, nothing
\* was polled yet; the mappings are complete, and may hold wrong rows from
\* earlier days, which count as changes.
Init ==
    /\ \E start \in Starts :
         /\ guest = [g \in Guests |->
                       [node |-> start.node[g], status |-> "running"]]
         /\ mapping = TrueRows \cup start.rows
         /\ spent = [changes |-> Cardinality(start.rows), failures |-> 0,
                     requests |-> 0]
    /\ \A g \in Guests : ClusterOf[guest[g].node] = ClusterOf[g]
    /\ vmi = [c \in CsVms |-> [state |-> "Running", removed |-> FALSE,
                               host |-> HostAt[guest[Home[c]].node]]]
    /\ px = [g \in Guests |-> NoPx]
    /\ cs = [c \in CsVms |-> NoCs]
    /\ ready = FALSE
    /\ sync = Resting
    /\ sess = [s \in Sessions |-> Idle]
    /\ req = [p \in Procs |-> NoRequest]
    /\ polled = guest
    /\ raced = FALSE /\ overlap = FALSE

----------------------------------------------------------------------------
(* Host mappings.                                                          *)

\* _globally_unique_host_mappings: one row for the place, one for the host.
UniqueRows(maps) ==
    {m \in maps : \A n \in maps \ {m} : n.place # m.place /\ n.host # m.host}

MappedPlace(maps, p) == \E m \in UniqueRows(maps) : m.place = p
MappedHost(maps, h) == \E m \in UniqueRows(maps) : m.host = h
HostOf(maps, p) == (CHOOSE m \in UniqueRows(maps) : m.place = p).host

\* Mutant: the source mapping must be the target mapping, as for a new match.
Relationship_SamePlace(g, c, pxs, css, maps) ==
    /\ pxs[g].current /\ css[c].current
    /\ pxs[g].link = c /\ css[c].link = g
    /\ VmidOf[c] = VmidOf[g]
    /\ pxs[g].source = css[c].source /\ pxs[g].source \in Durables
    /\ [place |-> pxs[g].node, host |-> css[c].host] \in UniqueRows(maps)

\* _relationship_mappings: a durable pair, placed on both sides.
Relationship(g, c, pxs, css, maps) ==
    /\ pxs[g].current /\ css[c].current
    /\ pxs[g].link = c /\ css[c].link = g
    /\ VmidOf[c] = VmidOf[g]
    /\ pxs[g].source = css[c].source /\ pxs[g].source \in Durables
    /\ MappedHost(maps, css[c].host)
    /\ MappedPlace(maps, pxs[g].node)

----------------------------------------------------------------------------
(* match_vms, over the rows and mappings it has read.                      *)

Pair(g, c, source) == [g |-> g, c |-> c, source |-> source]

\* Established pairs that are kept, across a migration too.
Kept(pxs, css, maps) ==
    {Pair(gc[1], gc[2], pxs[gc[1]].source) : gc \in
        {p \in Guests \X CsVms :
            Relationship(p[1], p[2], pxs, css, maps)}}

\* Mutant: a guest with the External VMID is the guest, wherever it runs.
ByHost_AnyPlace(c, pxs, css, maps) ==
    {g \in Guests : pxs[g].current /\ VmidOf[g] = VmidOf[c]}

\* The guest with the External VMID at the place that the host of c maps to.
ByHost(c, pxs, css, maps) ==
    {g \in Guests : /\ pxs[g].current
                    /\ VmidOf[g] = VmidOf[c]
                    /\ [place |-> pxs[g].node, host |-> css[c].host]
                          \in UniqueRows(maps)}

\* Without a host: VMID and name. For the inventory only, never for writes.
ByName(c, pxs) ==
    {g \in Guests : pxs[g].current /\ VmidOf[g] = VmidOf[c] /\ <<g, c>> \in Named}

\* A host without one complete mapping is ambiguous or unmapped, not absent.
Candidates(c, pxs, css, maps) ==
    IF MappedHost(maps, css[c].host)
    THEN {Pair(g, c, "host") : g \in ByHost(c, pxs, css, maps)}
    ELSE IF css[c].host = None /\ css[c].state = "Stopped"
    THEN {Pair(g, c, "name") : g \in ByName(c, pxs)}
    ELSE {}

\* Mutant: guests of kept pairs are candidates again.
Free_Any(kept, candidates) == candidates

\* Guests of kept pairs are claimed.
Free(kept, candidates) ==
    {p \in candidates : \A k \in kept : k.g # p.g}

\* One candidate for the VM, and no other VM with the same one.
Found(pxs, css, maps) ==
    LET kept == Kept(pxs, css, maps)
        open == {c \in CsVms : css[c].current /\ \A k \in kept : k.c # c}
        choices == {Free(kept, Candidates(c, pxs, css, maps)) : c \in open}
        only == UNION {x \in choices : Cardinality(x) = 1}
    IN kept \cup {p \in only : \A q \in only : q.g = p.g => q = p}

\* Mutant: links are not cleared, only replaced.
Stored_NotCleared(now, seen, cleared, new) ==
    IF new # cleared THEN new ELSE now

\* What a column that held `seen` when it was read and `now` at the commit is
\* after it was cleared, flushed and set to `new`.
Stored(now, seen, cleared, new) ==
    IF seen # cleared \/ new # cleared THEN new ELSE now

MatchedPx(found, g) ==
    LET mine == {f \in found : f.g = g}
        link == IF mine = {} THEN None ELSE (CHOOSE f \in mine : TRUE).c
        src == IF mine = {} THEN "" ELSE (CHOOSE f \in mine : TRUE).source
    IN [px[g] EXCEPT !.link = Stored(@, sync.px[g].link, None, link),
                     !.source = Stored(@, sync.px[g].source, "", src)]

MatchedCs(found, c) ==
    LET mine == {f \in found : f.c = c}
        link == IF mine = {} THEN None ELSE (CHOOSE f \in mine : TRUE).g
        src == IF mine = {} THEN "" ELSE (CHOOSE f \in mine : TRUE).source
    IN [cs[c] EXCEPT !.link = Stored(@, sync.cs[c].link, None, link),
                     !.source = Stored(@, sync.cs[c].source, "", src)]

----------------------------------------------------------------------------
(* detect_drift.                                                           *)

\* A running guest wants Running, a stopped one Stopped, a paused one neither.
StateFits(status, state) ==
    CASE status = "running" -> state = "Running"
      [] status = "stopped" -> state = "Stopped"
      [] OTHER -> TRUE

DriftOf(g, c) ==
    LET target == HostOf(mapping, px[g].node)
        I(type) == {[type |-> type, g |-> g, c |-> c, source |-> cs[c].host,
                     target |-> target, node |-> px[g].node,
                     status |-> px[g].status]}
    IN IF target # cs[c].host THEN I("host")
       ELSE IF ~StateFits(px[g].status, cs[c].state) THEN I("state")
       ELSE {}

Drift ==
    UNION {DriftOf(gc[1], gc[2]) : gc \in
        {p \in Guests \X CsVms : Relationship(p[1], p[2], px, cs, mapping)}}

Identity(i) == [type |-> i.type, g |-> i.g, c |-> i.c, source |-> i.source,
                target |-> i.target]

Listing == IF ready THEN {Identity(i) : i \in Drift} ELSE {}

----------------------------------------------------------------------------
(* full_sync.                                                              *)

AnotherEvent == spent.changes + spent.failures + spent.requests < MaxEvents

Fails ==
    /\ AnotherEvent
    /\ spent.failures < MaxFailures
    /\ spent' = [spent EXCEPT !.failures = @ + 1]

At(from, to) == sync.pc = from /\ sync' = [sync EXCEPT !.pc = to]

StartCycle ==
    /\ At("idle", "proxmox")
    /\ ready' = FALSE
    /\ UNCHANGED <<World, Rows, sess, req, History, spent>>

Observed(g) ==
    IF guest[g].node = None THEN [px[g] EXCEPT !.current = FALSE]
    ELSE [px[g] EXCEPT !.current = TRUE, !.node = guest[g].node,
                       !.status = guest[g].status]

\* Only what was listed is current again.
PolledRows(missed) ==
    [g \in Guests |->
        IF g \in missed THEN [px[g] EXCEPT !.current = FALSE] ELSE Observed(g)]

\* sync_proxmox: one transaction for all clusters.
SyncProxmox ==
    /\ At("proxmox", "cloudstack")
    /\ polled' = guest
    /\ px' = PolledRows({})
    /\ UNCHANGED <<World, cs, ready, sess, req, raced, overlap, spent>>

\* Any clusters fail, each before or while its guests are read, which loses the
\* rest of them; or the transaction fails, and the rows stay as they were.
SyncProxmoxFails ==
    /\ sync.pc = "proxmox"
    /\ sync' = [sync EXCEPT !.pc = "cloudstack", !.failed = TRUE]
    /\ polled' = guest
    /\ Fails
    /\ \/ px' = px
       \/ \E missed \in SUBSET Guests : px' = PolledRows(missed)
    /\ UNCHANGED <<World, cs, ready, sess, req, raced, overlap>>

Listed(c) ==
    IF vmi[c].removed THEN [cs[c] EXCEPT !.current = FALSE]
    ELSE [cs[c] EXCEPT !.current = TRUE, !.host = vmi[c].host,
                       !.state = vmi[c].state]

ListedRows == [c \in CsVms |-> Listed(c)]
StaleRows == [c \in CsVms |-> [cs[c] EXCEPT !.current = FALSE]]

\* Mutant: the flag is raised at the end of every collection.
CollectionReady_Always == TRUE

\* Neither poll may have reported an error.
CollectionReady == ~sync.failed

\* sync_cloudstack, and the flag that full_sync raises after both polls.
SyncCloudstack ==
    /\ At("cloudstack", "match")
    /\ cs' = ListedRows
    /\ ready' = CollectionReady
    /\ UNCHANGED <<World, px, sess, req, History, spent>>

SyncCloudstackFails ==
    /\ sync.pc = "cloudstack"
    /\ sync' = [sync EXCEPT !.pc = "match", !.failed = TRUE]
    /\ cs' = StaleRows
    /\ Fails
    /\ UNCHANGED <<World, px, ready, sess, req, History>>

\* match_vms runs after a failed collection as well.
MatchRead ==
    /\ sync.pc = "match"
    /\ sync' = [sync EXCEPT !.pc = "commit", !.px = px, !.cs = cs,
                            !.maps = mapping, !.stale = FALSE]
    /\ UNCHANGED <<World, Rows, ready, sess, req, History, spent>>

\* The rows that others have read are stale once links were committed.
Outdated == [p \in Procs |-> IF req[p].op = "idle" THEN req[p]
                             ELSE [req[p] EXCEPT !.stale = TRUE]]

MatchCommit ==
    /\ sync.pc = "commit"
    /\ \E found \in {Found(sync.px, sync.cs, sync.maps)} :
         /\ px' = [g \in Guests |-> MatchedPx(found, g)]
         /\ cs' = [c \in CsVms |-> MatchedCs(found, c)]
    /\ raced' = sync.stale
    /\ req' = Outdated
    /\ sync' = [Resting EXCEPT !.pc = "reconcile", !.failed = sync.failed]
    /\ UNCHANGED <<World, ready, sess, polled, overlap, spent>>

\* The transaction is rolled back and the cycle goes on.
MatchFails ==
    /\ sync.pc = "commit"
    /\ sync' = [Resting EXCEPT !.pc = "reconcile", !.failed = sync.failed]
    /\ Fails
    /\ UNCHANGED <<World, Rows, ready, sess, req, History>>

\* The write authority keeps reconciliations apart (module WriteAuthority).
AuthorityFree == \A s \in Sessions : sess[s].pc = "idle"

Enter(s, r) == sess' = [sess EXCEPT ![s] = r]

\* reconcile_all takes the authority and lists the drift, if there is any.
AutoStart ==
    /\ sync.pc = "reconcile" /\ AuthorityFree
    /\ \E todo \in {Listing} :
         IF todo = {} THEN sync' = Resting /\ UNCHANGED sess
         ELSE /\ sync' = [sync EXCEPT !.pc = "auto"]
              /\ Enter(FullSync, [Idle EXCEPT !.pc = "next", !.todo = todo])
    /\ UNCHANGED <<World, Rows, ready, req, History, spent>>

\* Another writer has the authority: the cycle does without.
AutoSkip ==
    /\ sync.pc = "reconcile" /\ ~AuthorityFree
    /\ sync' = Resting
    /\ UNCHANGED <<World, Rows, ready, sess, req, History, spent>>

\* After a write CloudStack is polled once more, to pick the write up.
AutoEnd ==
    /\ sync.pc = "auto" /\ sess[FullSync].pc = "idle"
    /\ sync' = Resting
    /\ Enter(FullSync, Idle)
    /\ IF sess[FullSync].wrote
       THEN \/ cs' = ListedRows /\ UNCHANGED spent
            \/ cs' = StaleRows /\ Fails
       ELSE UNCHANGED <<cs, spent>>
    /\ UNCHANGED <<World, px, ready, req, History>>

----------------------------------------------------------------------------
(* reconcile_all and reconcile_vm.                                         *)

SessionOnly == UNCHANGED <<World, Rows, ready, sync, req, History, spent>>

\* The session ends, or goes on to its next item; full_sync wants to know
\* whether anything was written.
Continue(s, wrote) ==
    IF sess[s].todo = {} THEN [Idle EXCEPT !.wrote = wrote /\ s = FullSync]
    ELSE [sess[s] EXCEPT !.pc = "next", !.item = NoItem, !.wrote = wrote]

Requested ==
    /\ AnotherEvent
    /\ spent.requests < MaxRequests
    /\ spent' = [spent EXCEPT !.requests = @ + 1]

\* POST /api/reconcile/all.
RouteAll(r) ==
    /\ Requested /\ AuthorityFree
    /\ \E todo \in {Listing} \ {{}} :
         Enter(r, [Idle EXCEPT !.pc = "next", !.todo = todo])
    /\ UNCHANGED <<World, Rows, ready, sync, req, History>>

\* POST /api/reconcile/vm with an item of the caller: any that the rows confirm.
RouteOne(r) ==
    /\ Requested /\ AuthorityFree /\ ready
    /\ Enter(r, [Idle EXCEPT !.pc = "read"])
    /\ UNCHANGED <<World, Rows, ready, sync, req, History>>

\* reconcile_vm looks at the flag first, and then at the rows.
NextItem(s) ==
    /\ sess[s].pc = "next"
    /\ \E t \in sess[s].todo :
         LET rest == [sess[s] EXCEPT !.todo = @ \ {t}]
         IN Enter(s, IF ready
                     THEN [rest EXCEPT !.pc = "read",
                                       !.item = [NoItem EXCEPT !.type = t.type,
                                         !.g = t.g, !.c = t.c,
                                         !.source = t.source,
                                         !.target = t.target]]
                     ELSE IF rest.todo = {}
                     THEN [Idle EXCEPT !.wrote = rest.wrote /\ s = FullSync]
                     ELSE rest)
    /\ SessionOnly

Confirmed(s) ==
    {i \in Drift : sess[s].item = NoItem
                   \/ Identity(i) = Identity(sess[s].item)}

Read(s) ==
    /\ sess[s].pc = "read"
    /\ \/ \E i \in Confirmed(s) :
            Enter(s, [sess[s] EXCEPT !.item = i,
                        !.pc = IF i.type = "host" THEN "status" ELSE "write"])
       \/ Confirmed(s) = {} /\ Enter(s, Continue(s, sess[s].wrote))
    /\ SessionOnly

\* For a move the status is read once more, from the row as it is by then.
ReadStatus(s) ==
    /\ sess[s].pc = "status"
    /\ Enter(s, [sess[s] EXCEPT !.pc = "write",
                   !.item.status = px[sess[s].item.g].status])
    /\ SessionOnly

\* Mutant: the columns of source and target are swapped.
Placed_Source(i) ==
    IF i.status = "running" THEN [state |-> "Running", host |-> i.source]
    ELSE [state |-> "Stopped", host |-> None]

\* Mutant: the node is written where the id of the host belongs.
Placed_Node(i) ==
    IF i.status = "running" THEN [state |-> "Running", host |-> i.node]
    ELSE [state |-> "Stopped", host |-> None]

\* A guest that is not running has no host.
Placed(i) ==
    IF i.status = "running" THEN [state |-> "Running", host |-> i.target]
    ELSE [state |-> "Stopped", host |-> None]

\* update_vm_placement_and_state: WHERE uuid = ... AND removed IS NULL.
Updated(i) ==
    IF vmi[i.c].removed THEN vmi
    ELSE [vmi EXCEPT ![i.c].state = Placed(i).state, ![i.c].host = Placed(i).host]

Write(s) ==
    LET i == sess[s].item
    IN /\ sess[s].pc = "write"
       /\ vmi' = Updated(i)
       /\ Enter(s, Continue(s, sess[s].wrote \/ ~vmi[i.c].removed))
       /\ UNCHANGED <<guest, mapping, Rows, ready, sync, req, History, spent>>

\* The host is not resolved, the authority is lost or the database refuses; or
\* the row is written, but counts as failed as the log line cannot be stored.
WriteFails(s) ==
    /\ sess[s].pc \in {"status", "write"}
    /\ Fails
    /\ \/ UNCHANGED vmi
       \/ sess[s].pc = "write" /\ vmi' = Updated(sess[s].item)
    /\ Enter(s, Continue(s, sess[s].wrote))
    /\ UNCHANGED <<guest, mapping, Rows, ready, sync, req, History>>

\* Between two items renew_write_authority raises, or detect_drift does before
\* an item is decided: the session ends, that of the cycle with the cycle.
Aborts(s) ==
    /\ sess[s].pc \in {"next", "read"}
    /\ Fails
    /\ Enter(s, Idle)
    /\ sync' = IF s = FullSync THEN Resting ELSE sync
    /\ UNCHANGED <<World, Rows, ready, req, History>>

----------------------------------------------------------------------------
(* The match and unmatch routes: a read, then a commit.                    *)

\* Any process that is free takes a request; as they are alike, one stands for all.
Ask(p, r) ==
    /\ req[p].op = "idle"
    /\ p = CHOOSE q \in Procs : req[q].op = "idle"
    /\ Requested
    /\ req' = [req EXCEPT ![p] = r]
    /\ overlap' = (overlap \/ \E q \in Procs : req[q].op # "idle")

Unlinked(g, c) == px[g].link \in {None, c} /\ cs[c].link \in {None, g}

ManualMatchRead(p, g, c) ==
    /\ Ask(p, [op |-> "match", g |-> g, c |-> c, px |-> px[g], cs |-> cs[c],
               stale |-> FALSE])
    /\ px[g].current /\ cs[c].current
    /\ VmidOf[c] = VmidOf[g]
    /\ [place |-> px[g].node, host |-> cs[c].host] \in UniqueRows(mapping)
    /\ Unlinked(g, c)
    /\ UNCHANGED <<World, Rows, ready, sync, sess, polled, raced>>

\* A row that links to a VM without a row cannot be: rows are never deleted.
UnmatchRead(p, g) ==
    /\ px[g].node # None
    /\ Ask(p, [op |-> "unmatch", g |-> g, c |-> px[g].link, px |-> px[g],
               cs |-> IF px[g].link = None THEN NoCs ELSE cs[px[g].link],
               stale |-> FALSE])
    /\ UNCHANGED <<World, Rows, ready, sync, sess, polled, raced>>

Changed(now, seen, new) == IF new # seen THEN new ELSE now

RequestCommit(p) ==
    LET q == req[p]
        link == q.op = "match"
        src == IF link THEN "manual" ELSE ""
        SetPx == [px[q.g] EXCEPT
                    !.link = Changed(@, q.px.link, IF link THEN q.c ELSE None),
                    !.source = Changed(@, q.px.source, src)]
        SetCs == [cs[q.c] EXCEPT
                    !.link = Changed(@, q.cs.link, IF link THEN q.g ELSE None),
                    !.source = Changed(@, q.cs.source, src)]
    IN /\ q.op # "idle"
       /\ px' = [px EXCEPT ![q.g] = SetPx]
       /\ cs' = IF q.c = None THEN cs ELSE [cs EXCEPT ![q.c] = SetCs]
       /\ raced' = (raced \/ q.stale)
       /\ req' = [Outdated EXCEPT ![p] = NoRequest]
       /\ sync' = IF sync.pc = "commit" THEN [sync EXCEPT !.stale = TRUE]
                  ELSE sync
       /\ UNCHANGED <<World, ready, sess, polled, overlap, spent>>

----------------------------------------------------------------------------
(* Everybody else.                                                         *)

\* The process restarts: rows and links are kept, the rest is lost.
Restart ==
    /\ Fails
    /\ ready' = FALSE /\ sync' = Resting
    /\ sess' = [s \in Sessions |-> Idle]
    /\ req' = [p \in Procs |-> NoRequest]
    /\ UNCHANGED <<World, Rows, History>>

Changes ==
    /\ AnotherEvent
    /\ spent.changes < MaxChanges
    /\ spent' = [spent EXCEPT !.changes = @ + 1]
    /\ UNCHANGED <<Rows, ready, sync, sess, req, History>>

\* Proxmox moves, stops, pauses, starts or loses sight of a guest.
GuestChanges(g) ==
    /\ Changes
    /\ \/ \E n \in Places \cup {None} :
            /\ n # None => ClusterOf[n] = ClusterOf[g]
            /\ guest' = [guest EXCEPT ![g].node = n]
       \/ \E t \in Statuses : guest' = [guest EXCEPT ![g].status = t]
    /\ guest' # guest
    /\ UNCHANGED <<vmi, mapping>>

\* CloudStack starts its VM on a host of the cluster it belongs to, stops it,
\* or removes it.
CloudStackChanges(c) ==
    /\ Changes
    /\ ~vmi[c].removed
    /\ \/ \E p \in Places :
            /\ ClusterOf[p] = ClusterOf[Home[c]]
            /\ vmi' = [vmi EXCEPT ![c].state = "Running", ![c].host = HostAt[p]]
       \/ vmi' = [vmi EXCEPT ![c].state = "Stopped", ![c].host = None]
       \/ vmi' = [vmi EXCEPT ![c].removed = TRUE]
    /\ vmi' # vmi
    /\ UNCHANGED <<guest, mapping>>

\* create_host_mapping refuses a place or a host that another row has. Operators
\* enter the host that the place really is.
CreateMapping(m) ==
    /\ Changes
    /\ m \in TrueRows
    /\ \A n \in mapping : n.place # m.place /\ n.host # m.host
    /\ mapping' = mapping \cup {m}
    /\ UNCHANGED <<guest, vmi>>

\* delete_host_mapping. Operators who delete rows begin with the wrong ones.
DeleteMapping(m) ==
    /\ Changes
    /\ m \in TrueRows => mapping \subseteq TrueRows
    /\ mapping' = mapping \ {m}
    /\ UNCHANGED <<guest, vmi>>

----------------------------------------------------------------------------

Cycle ==
    \/ StartCycle \/ SyncProxmox \/ SyncCloudstack \/ MatchRead \/ MatchCommit
    \/ AutoStart \/ AutoSkip \/ AutoEnd

Session(s) == NextItem(s) \/ Read(s) \/ ReadStatus(s) \/ Write(s)

Faults ==
    \/ SyncProxmoxFails \/ SyncCloudstackFails \/ MatchFails \/ Restart
    \/ \E s \in Sessions : WriteFails(s) \/ Aborts(s)

Requests ==
    \/ \E r \in Routes : RouteAll(r) \/ RouteOne(r)
    \/ \E p \in Procs, g \in Guests :
         UnmatchRead(p, g) \/ \E c \in CsVms : ManualMatchRead(p, g, c)

Environment ==
    \/ \E g \in Guests : GuestChanges(g)
    \/ \E c \in CsVms : CloudStackChanges(c)
    \/ \E m \in TrueRows : CreateMapping(m)
    \/ \E m \in mapping : DeleteMapping(m)

Next ==
    \/ Cycle \/ Faults \/ Requests \/ Environment
    \/ \E s \in Sessions : Session(s)
    \/ \E p \in Procs : RequestCommit(p)

PSpec == Init /\ [][Next]_vars

\* The scheduler starts cycles for ever, and what was started goes on: one
\* reconciliation at a time, and the finitely many requests.
PLiveSpec ==
    /\ PSpec
    /\ WF_sync(Cycle)
    /\ WF_sess(\E s \in Sessions : Session(s))
    /\ WF_req(\E p \in Procs : RequestCommit(p))

----------------------------------------------------------------------------
(* Properties.                                                             *)

\* Rows, snapshots, decisions and requests keep the types of their columns.
PTypeOK ==
    /\ guest \in [Guests -> Guest] /\ vmi \in [CsVms -> Vmi]
    /\ mapping \subseteq Row
    /\ px \in [Guests -> PxRow] /\ cs \in [CsVms -> CsRow]
    /\ ready \in BOOLEAN /\ raced \in BOOLEAN /\ overlap \in BOOLEAN
    /\ polled \in [Guests -> Guest]
    /\ sync.px \in [Guests -> PxRow] /\ sync.cs \in [CsVms -> CsRow]
    /\ sync.maps \subseteq Row
    /\ \A s \in Sessions :
         sess[s].pc \in {"status", "write"} =>
            /\ sess[s].item.g \in Guests /\ sess[s].item.c \in CsVms
            /\ sess[s].item.target \in Hosts /\ sess[s].item.source \in Hosts
    /\ \A p \in Procs :
         /\ req[p].op \in {"idle", "match", "unmatch"}
         /\ req[p].px \in PxRow /\ req[p].cs \in CsRow

\* The two tables agree on who is linked to whom, and how.
LinksAgree ==
    /\ \A g \in Guests : px[g].link # None =>
         cs[px[g].link].link = g /\ cs[px[g].link].source = px[g].source
    /\ \A c \in CsVms : cs[c].link # None => px[cs[c].link].link = c

\* Only a commit from rows that another commit has overtaken can leave links
\* that disagree: what match_vms and one operator at a time do keeps them mutual
\* and one to one, whatever polls fail and rows disappear (sync_engine.py:597).
LinksAgreeUnlessRaced == ~raced => LinksAgree

\* Guests of two clusters share a VMID and a name, and a mapping may be wrong
\* beside the true one: what is about to be written to a VM is nevertheless the
\* placement of the very guest it stands for, as long as no two requests to
\* match or unmatch have overlapped (README.md:12). The routes let them overlap,
\* and a link made by name may then become "manual" (main.py:2365).
WritesAboutOwnGuest ==
    ~overlap =>
      \A s \in Sessions : sess[s].pc \in {"status", "write"} =>
        Home[sess[s].item.c] = sess[s].item.g

\* What the cycle is about to write is what Proxmox answered in this cycle: not
\* the row of a poll that failed, of a transaction that was rolled back, or of
\* the process before a restart (sync_engine.py:36).
AutoWritesWhatWasPolled ==
    LET i == sess[FullSync].item
    IN sess[FullSync].pc = "write" =>
         [node |-> i.node, status |-> i.status] = polled[i.g]

\* An established pair that both polls have seen and whose two placements are
\* mapped stays linked across a migration, whatever else is linked by the same
\* run of match_vms, unless an operator intervened (README.md:9).
EstablishedPairIsKept ==
    [][(sync.pc = "commit" /\ sync'.pc = "reconcile" /\ ~sync.stale) =>
         \A g \in Guests, c \in CsVms :
            (/\ px[g].link = c /\ cs[c].link = g
             /\ px[g].source = cs[c].source /\ px[g].source \in Durables
             /\ px[g].current /\ cs[c].current
             /\ MappedPlace(sync.maps, px[g].node)
             /\ MappedHost(sync.maps, cs[c].host))
            => px'[g].link = c /\ cs'[c].link = g]_vars

\* When changes, failures and operators come to rest, links agree for good,
\* whatever racing commits have left behind.
LinksHeal == <>[]LinksAgree

Agrees(g, c) ==
    /\ StateFits(guest[g].status, vmi[c].state)
    /\ guest[g].status = "running" => vmi[c].host = HostOf(mapping, guest[g].node)

\* ... and CloudStack has every guest that is linked, listed and mapped where
\* Proxmox runs it, whatever stale decisions were written on the way.
PlacementConverges ==
    <>[](\A g \in Guests, c \in CsVms :
            (/\ px[g].link = c /\ cs[c].link = g /\ px[g].source \in Durables
             /\ guest[g].node # None /\ ~vmi[c].removed
             /\ MappedPlace(mapping, guest[g].node)
             /\ MappedHost(mapping, vmi[c].host))
            => Agrees(g, c))
=============================================================================
