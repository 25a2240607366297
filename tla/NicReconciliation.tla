------------------------- MODULE NicReconciliation -------------------------
(***************************************************************************)
(* The NIC reconciliation of backend/sync_engine.py for one Proxmox guest  *)
(* and the CloudStack VM it may be linked to. A sync cycle polls both      *)
(* sides, links them, invalidates the markers of the NIC snapshots and     *)
(* collects new ones; sessions (the automatic one at the end of the cycle, *)
(* and the routes of operators at any time) derive the drift from marked   *)
(* snapshots and write to the nics table of CloudStack's own database.     *)
(*                                                                         *)
(* Every transaction and every remote read is a step. The guest, CloudStack*)
(* and the network mappings may change between any two, polls and queries  *)
(* may fail, and the process may restart: it then loses the two flags and  *)
(* the sessions, and keeps the rows. A session looks at the flag, reads the*)
(* rows, and writes: three steps.                                          *)
(***************************************************************************)
EXTENDS Naturals, Sequences, FiniteSets

CONSTANTS
    Devices,     \* Proxmox NIC slots net0, net1, ...
    Macs,        \* MAC addresses
    Bridges,     \* (bridge, VLAN) pairs
    Nets,        \* CloudStack networks
    Ips,         \* IPv4 addresses
    Routes,      \* sessions of the reconcile routes
    FullSync,    \* the session of full_sync
    None,        \* SQL NULL, Python None
    MaxChanges,  \* bound on changes of the guest, the mappings and CloudStack
    MaxFailures, \* bound on failing polls, queries and processes
    MaxRuns,     \* bound on the requests of operators
    MaxRows      \* bound on the rows of the nics table

ASSUME NicConstants ==
    /\ Devices \subseteq Nat /\ 0 \in Devices
    /\ None \notin Macs \cup Nets \cup Ips \cup Devices
    /\ FullSync \notin Routes
    /\ {MaxChanges, MaxFailures, MaxRuns, MaxRows} \subseteq Nat

VARIABLES
    guest,   \* the NICs of the guest
    table,   \* CloudStack's nics rows of the VM, by insertion
    mapping, \* network_mappings
    px,      \* proxmox_vms row: current, config_current, networks
    cs,      \* cloudstack_vms row: current, nics_current, nics
    linked,  \* the two rows are matched to each other
    ready,   \* _nic_collection_ready
    sync,    \* where full_sync is, and what it has read
    sess,    \* where each session is, and what it decided
    fresh,   \* the snapshots collected since the cycle began (history)
    spent    \* what the bounds have left to limit

vars == <<guest, table, mapping, px, cs, linked, ready, sync, sess, fresh,
          spent>>

Sessions == Routes \cup {FullSync}

NoNic == [mac |-> None, bridge |-> CHOOSE b \in Bridges : TRUE, ip |-> None]
Nic == [mac : Macs, bridge : Bridges, ip : Ips \cup {None}] \cup {NoNic}
GuestNics == {g \in [Devices -> Nic] :
                \A d, e \in Devices : g[d].mac = g[e].mac /\ d # e =>
                                        g[d].mac = None}
NicRow == [mac : Macs, device : Devices, net : Nets, ip : Ips \cup {None},
           default : BOOLEAN, live : BOOLEAN]
Types == {"missing", "network", "ip", "extra"}
Item == [type : Types, mac : Macs, device : Devices \cup {None},
         nic : Nat, net : Nets \cup {None}, ip : Ips \cup {None}]

Phases == {"idle", "cloudstack", "match", "invalidate", "reset", "config",
           "table", "reconcile", "auto"}
Idle == [pc |-> "idle", todo |-> {}, item |-> {}, wrote |-> FALSE]
Resting == [pc |-> "idle", read |-> [d \in Devices |-> NoNic], again |-> FALSE]

Init ==
    /\ \E m \in Macs, b \in Bridges, n \in Nets, i \in Ips :
         /\ guest = [d \in Devices |->
              IF d = 0 THEN [mac |-> m, bridge |-> b, ip |-> i] ELSE NoNic]
         /\ mapping = [c \in Bridges |-> IF c = b THEN n ELSE None]
         /\ table = <<[mac |-> m, device |-> 0, net |-> n, ip |-> i,
                       default |-> TRUE, live |-> TRUE]>>
    /\ px = [current |-> FALSE, marked |-> FALSE, nics |-> Resting.read]
    /\ cs = [current |-> FALSE, marked |-> FALSE, nics |-> << >>]
    /\ linked = FALSE /\ ready = FALSE
    /\ sync = Resting
    /\ sess = [s \in Sessions |-> Idle]
    /\ fresh = {}
    /\ spent = [changes |-> 0, failures |-> 0, runs |-> 0]

----------------------------------------------------------------------------
(* detect_nic_drift.                                                       *)

Present(g) == {d \in Devices : g[d].mac # None}

\* cs_by_mac keeps the last row of the listing, which is by device.
Twins(rows, m) == {i \in DOMAIN rows : rows[i].live /\ rows[i].mac = m}
IsTwin(rows, m, i) ==
    /\ i \in Twins(rows, m)
    /\ \A j \in Twins(rows, m) :
         \/ rows[j].device < rows[i].device
         \/ rows[j].device = rows[i].device /\ j <= i

\* Mutant: a NIC whose MAC CloudStack has is taken to be right.
NicDrift_MacOnly(d) ==
    LET n == px.nics[d]
    IN IF Twins(cs.nics, n.mac) # {} THEN {}
       ELSE {[type |-> "missing", mac |-> n.mac, device |-> d, nic |-> 0,
              net |-> mapping[n.bridge], ip |-> n.ip]}

\* What differs for the mapped NIC in slot d.
NicDrift(d) ==
    LET n == px.nics[d]
        target == mapping[n.bridge]
        I(type, i) == [type |-> type, mac |-> n.mac, device |-> d, nic |-> i,
                       net |-> target, ip |-> n.ip]
        row(i) == cs.nics[i]
    IN IF Twins(cs.nics, n.mac) = {} THEN {I("missing", 0)}
       ELSE UNION {
         (IF row(i).net # target THEN {I("network", i)} ELSE {}) \cup
         (IF n.ip # None /\ row(i).ip # n.ip THEN {I("ip", i)} ELSE {})
         : i \in {t \in DOMAIN cs.nics : IsTwin(cs.nics, n.mac, t)}}

\* Mutant: a NIC on a bridge without a mapping is compared as well.
MappedDevices_AnyBridge == Present(px.nics)

MappedDevices == {d \in Present(px.nics) : mapping[px.nics[d].bridge] # None}

\* A NIC whose bridge has no mapping is skipped before its row is looked up, so
\* its row counts as extra.
Extra ==
    {i \in DOMAIN cs.nics : cs.nics[i].live
        /\ ~\E d \in MappedDevices : IsTwin(cs.nics, px.nics[d].mac, i)}

Linked == linked /\ px.current /\ cs.current

\* Mutant: retained snapshots are as good as new ones.
Eligible_AnySnapshot == Linked

Eligible == Linked /\ px.marked /\ cs.marked

Drift ==
    IF ~Eligible THEN {}
    ELSE (UNION {NicDrift(d) : d \in MappedDevices}) \cup
         {[type |-> "extra", mac |-> cs.nics[i].mac, device |-> None,
           nic |-> i, net |-> None, ip |-> None] : i \in Extra}

Identity(i) == [type |-> i.type, mac |-> i.mac, device |-> i.device,
                nic |-> i.nic]

----------------------------------------------------------------------------
(* reconcile_nics_all and reconcile_nic.                                   *)

World == <<guest, mapping>>
Rows == <<px, cs, linked>>
SessionOnly == UNCHANGED <<World, table, Rows, ready, sync, fresh, spent>>

Step(s, r) == sess' = [sess EXCEPT ![s] = r]

\* The write authority keeps the sessions apart.
AuthorityFree == \A s \in Sessions : sess[s].pc = "idle"

\* The session ends, or goes on to its next item.
Continue(s, wrote) ==
    IF sess[s].todo = {}
    THEN [Idle EXCEPT !.wrote = wrote]
    ELSE [sess[s] EXCEPT !.pc = "next", !.item = {}, !.wrote = wrote]

Request(r) ==
    /\ spent.runs < MaxRuns
    /\ spent' = [spent EXCEPT !.runs = @ + 1]
    /\ ready /\ AuthorityFree
    /\ UNCHANGED <<World, table, Rows, ready, sync, fresh>>

RouteAll(r) == Request(r) /\ Step(r, [Idle EXCEPT !.pc = "list"])

\* One item that the caller presents: any that the rows still confirm.
RouteOne(r) == Request(r) /\ Step(r, [Idle EXCEPT !.pc = "read"])

\* The listing looks at the flag once more; an item that only this would have
\* kept off the list is refused in NextItem.
List(s) ==
    /\ sess[s].pc = "list"
    /\ LET todo == {Identity(i) : i \in Drift}
       IN Step(s, IF todo = {} THEN Idle
                  ELSE [Idle EXCEPT !.pc = "next", !.todo = todo])
    /\ SessionOnly

\* The flag is looked at for each item, before the rows are read again.
NextItem(s, t) ==
    /\ sess[s].pc = "next" /\ t \in sess[s].todo
    /\ LET rest == sess[s].todo \ {t}
       IN Step(s, IF ready
                  THEN [sess[s] EXCEPT !.pc = "read", !.item = {t},
                                       !.todo = rest]
                  ELSE IF rest = {} THEN [Idle EXCEPT !.wrote = sess[s].wrote]
                  ELSE [sess[s] EXCEPT !.todo = rest])
    /\ SessionOnly

Confirmed(s) == {i \in Drift : sess[s].item \in {{}, {Identity(i)}}}

Read(s) ==
    /\ sess[s].pc = "read"
    /\ \/ \E i \in Confirmed(s) :
            Step(s, [sess[s] EXCEPT !.pc = "write", !.item = {i}])
       \/ Confirmed(s) = {} /\ Step(s, Continue(s, sess[s].wrote))
    /\ SessionOnly

\* Mutant: the default mark of the other NICs is left alone.
Inserted_KeepsDefaults(i) ==
    Append(table, [mac |-> i.mac, device |-> i.device, net |-> i.net,
                   ip |-> i.ip, default |-> i.device = 0, live |-> TRUE])

\* insert_nic: a default NIC takes the mark from the others.
Inserted(i) ==
    Append([j \in DOMAIN table |->
              IF i.device = 0 /\ table[j].live
              THEN [table[j] EXCEPT !.default = FALSE] ELSE table[j]],
           [mac |-> i.mac, device |-> i.device, net |-> i.net, ip |-> i.ip,
            default |-> i.device = 0, live |-> TRUE])

\* update_nic and remove_nic: WHERE id = ... AND removed IS NULL. As they store
\* the time, they count every live row as changed.
Written(i) ==
    CASE i.type = "missing" -> Inserted(i)
      [] i.type = "network" -> [table EXCEPT ![i.nic].net =
                                  IF table[i.nic].live THEN i.net ELSE @]
      [] i.type = "ip" -> [table EXCEPT ![i.nic].ip =
                             IF table[i.nic].live THEN i.ip ELSE @]
      [] OTHER -> [table EXCEPT ![i.nic].live = FALSE]

Write(s, i) ==
    /\ sess[s].pc = "write" /\ i \in sess[s].item
    /\ i.type = "missing" => Len(table) < MaxRows
    /\ table' = Written(i)
    /\ Step(s, Continue(s, sess[s].wrote \/ i.type = "missing"
                                         \/ table[i.nic].live))
    /\ UNCHANGED <<World, Rows, ready, sync, fresh, spent>>

----------------------------------------------------------------------------
(* full_sync. Failures are bounded.                                        *)

Fails ==
    /\ spent.failures < MaxFailures
    /\ spent' = [spent EXCEPT !.failures = @ + 1]

Poll(from, to) == sync.pc = from /\ sync' = [sync EXCEPT !.pc = to]

\* sync_proxmox: the row is current when the poll of its cluster succeeds, and
\* as it was when the transaction fails.
SyncProxmox ==
    /\ Poll("idle", "cloudstack")
    /\ \/ px' = [px EXCEPT !.current = TRUE] /\ UNCHANGED spent
       \/ px' \in {px, [px EXCEPT !.current = FALSE]} /\ Fails
    /\ fresh' = {}
    /\ UNCHANGED <<World, table, cs, linked, ready, sess>>

SyncCloudstack ==
    /\ Poll("cloudstack", "match")
    /\ \/ cs' = [cs EXCEPT !.current = TRUE] /\ UNCHANGED spent
       \/ cs' = [cs EXCEPT !.current = FALSE] /\ Fails
    /\ UNCHANGED <<World, table, px, linked, ready, sess, fresh>>

\* match_vms drops every link of a row that is not current, unless it fails.
MatchVms ==
    /\ Poll("match", "invalidate")
    /\ \/ linked' = (px.current /\ cs.current) /\ UNCHANGED spent
       \/ UNCHANGED linked /\ Fails
    /\ UNCHANGED <<World, table, px, cs, ready, sess, fresh>>

\* sync_nics: the flag first, so that a failing reset leaves it down ...
Invalidate ==
    /\ Poll("invalidate", "reset")
    /\ ready' = FALSE
    /\ UNCHANGED <<World, table, Rows, sess, fresh, spent>>

\* ... then the markers of current rows, in a transaction of their own.
Reset ==
    /\ Poll("reset", "config")
    /\ px' = [px EXCEPT !.marked = @ /\ ~px.current]
    /\ cs' = [cs EXCEPT !.marked = @ /\ ~cs.current]
    /\ UNCHANGED <<World, table, linked, ready, sess, fresh, spent>>

ResetFails ==
    /\ Poll("reset", "reconcile")
    /\ Fails
    /\ UNCHANGED <<World, table, Rows, ready, sess, fresh>>

CollectConfig ==
    /\ sync.pc = "config"
    /\ sync' = [sync EXCEPT !.pc = "table", !.read = guest]
    /\ UNCHANGED <<World, table, Rows, ready, sess, fresh, spent>>

\* One commit stores both collections. A side whose query failed keeps its
\* marker down, and so does the flag; a guest of an unconfigured cluster or a VM
\* that CloudStack's database does not have is passed over without an error.
CollectTable ==
    LET Collected == (IF px.current THEN {"px"} ELSE {}) \cup
                     (IF linked /\ cs.current THEN {"cs"} ELSE {})
    IN /\ Poll("table", "reconcile")
       /\ \E failed, passed \in SUBSET {"px", "cs"} :
            LET got == Collected \ (failed \cup passed)
            IN /\ px' = IF "px" \in got
                        THEN [px EXCEPT !.marked = TRUE, !.nics = sync.read]
                        ELSE px
               /\ cs' = IF "cs" \in got
                        THEN [cs EXCEPT !.marked = TRUE, !.nics = table]
                        ELSE cs
               /\ fresh' = fresh \cup got
               /\ ready' = (failed = {})
               /\ IF failed \cup passed = {} THEN UNCHANGED spent ELSE Fails
       /\ UNCHANGED <<World, table, linked, sess>>

\* After placement writes CloudStack is polled once more: the outcome that
\* matters here is a poll that fails.
PollAgainFails ==
    /\ sync.pc = "reconcile" /\ ~sync.again
    /\ cs' = [cs EXCEPT !.current = FALSE]
    /\ Fails
    /\ UNCHANGED <<World, table, px, linked, ready, sync, sess, fresh>>

AutoMayStart == ~sync.again /\ ready /\ AuthorityFree

AutoStart ==
    /\ Poll("reconcile", "auto")
    /\ AutoMayStart
    /\ Step(FullSync, [Idle EXCEPT !.pc = "list"])
    /\ UNCHANGED <<World, table, Rows, ready, fresh, spent>>

AutoSkip ==
    /\ sync.pc = "reconcile" /\ ~AutoMayStart
    /\ sync' = Resting
    /\ UNCHANGED <<World, table, Rows, ready, sess, fresh, spent>>

\* After a write the snapshots are collected once more.
AutoEnd ==
    /\ sync.pc = "auto" /\ sess[FullSync].pc = "idle"
    /\ sync' = IF sess[FullSync].wrote
               THEN [Resting EXCEPT !.pc = "invalidate", !.again = TRUE]
               ELSE Resting
    /\ Step(FullSync, Idle)
    /\ UNCHANGED <<World, table, Rows, ready, fresh, spent>>

----------------------------------------------------------------------------
(* Failures of sessions and of the process, and everybody else.            *)

\* The write fails, or it is committed and its log line cannot be stored: the
\* item counts as failed either way, and the session goes on.
WriteFails(s) ==
    /\ sess[s].pc = "write"
    /\ Fails
    /\ table' \in {table} \cup {Written(i) : i \in sess[s].item}
    /\ Len(table') <= MaxRows
    /\ Step(s, Continue(s, sess[s].wrote))
    /\ UNCHANGED <<World, Rows, ready, sync, fresh>>

\* Reading the drift, and renewing the authority between two items, are outside
\* every try: the session ends, and the cycle with it, before it collects again.
Aborts(s) ==
    /\ sess[s].pc \in {"list", "next", "read"}
    /\ Fails
    /\ Step(s, Idle)
    /\ sync' = IF s = FullSync THEN Resting ELSE sync
    /\ UNCHANGED <<World, table, Rows, ready, fresh>>

Restart ==
    /\ Fails
    /\ ready' = FALSE /\ sync' = Resting
    /\ sess' = [s \in Sessions |-> Idle]
    /\ UNCHANGED <<World, table, Rows, fresh>>

Changes ==
    /\ spent.changes < MaxChanges
    /\ spent' = [spent EXCEPT !.changes = @ + 1]
    /\ UNCHANGED <<Rows, ready, sync, sess, fresh>>

GuestChanges ==
    /\ Changes
    /\ \E d \in Devices, n \in Nic : guest' = [guest EXCEPT ![d] = n]
    /\ guest' \in GuestNics
    /\ UNCHANGED <<mapping, table>>

MappingChanges ==
    /\ Changes
    /\ \E b \in Bridges, n \in Nets \cup {None} :
         mapping' = [mapping EXCEPT ![b] = n]
    /\ UNCHANGED <<guest, table>>

\* CloudStack plugs a NIC, or unplugs one that is not the default.
CloudStackChanges ==
    /\ Changes
    /\ \/ /\ Len(table) < MaxRows
          /\ \E m \in Macs, d \in Devices \ {0}, n \in Nets :
               table' = Append(table, [mac |-> m, device |-> d, net |-> n,
                  ip |-> None, default |-> FALSE, live |-> TRUE])
       \/ \E i \in DOMAIN table :
            /\ table[i].live /\ ~table[i].default
            /\ table' = [table EXCEPT ![i].live = FALSE]
    /\ UNCHANGED World

\* The match routes: an operator cuts the link, or restores it.
Relink ==
    /\ spent.changes < MaxChanges
    /\ spent' = [spent EXCEPT !.changes = @ + 1]
    /\ \/ linked /\ linked' = FALSE
       \/ ~linked /\ px.current /\ cs.current /\ linked' = TRUE
    /\ UNCHANGED <<World, table, px, cs, ready, sync, sess, fresh>>

----------------------------------------------------------------------------

Sync ==
    \/ SyncProxmox \/ SyncCloudstack \/ MatchVms \/ Invalidate \/ Reset
    \/ ResetFails \/ CollectConfig \/ CollectTable \/ PollAgainFails
    \/ AutoStart \/ AutoSkip \/ AutoEnd

Session(s) ==
    \/ List(s) \/ Read(s) \/ WriteFails(s)
    \/ \E t \in sess[s].todo : NextItem(s, t)
    \/ \E i \in sess[s].item : Write(s, i)

Next ==
    \/ Sync
    \/ \E r \in Routes : RouteAll(r) \/ RouteOne(r)
    \/ \E s \in Sessions : Session(s) \/ Aborts(s)
    \/ Restart \/ GuestChanges \/ MappingChanges \/ CloudStackChanges \/ Relink

NSpec == Init /\ [][Next]_vars

\* The scheduler starts cycles for ever, and what was started goes on.
NLiveSpec ==
    NSpec /\ WF_vars(Sync) /\ \A s \in Sessions : WF_vars(Session(s))

----------------------------------------------------------------------------
(* Properties.                                                             *)

\* Rows, snapshots and sessions keep the types of their columns.
NTypeOK ==
    /\ guest \in GuestNics
    /\ table \in Seq(NicRow)
    /\ mapping \in [Bridges -> Nets \cup {None}]
    /\ px \in [current : BOOLEAN, marked : BOOLEAN, nics : GuestNics]
    /\ cs \in [current : BOOLEAN, marked : BOOLEAN, nics : Seq(NicRow)]
    /\ linked \in BOOLEAN /\ ready \in BOOLEAN
    /\ sync \in [pc : Phases, read : GuestNics, again : BOOLEAN]
    /\ \A s \in Sessions :
         /\ sess[s].pc \in {"idle", "list", "next", "read", "write"}
         /\ sess[s].wrote \in BOOLEAN
         /\ sess[s].pc = "write" => sess[s].item \subseteq Item
    /\ fresh \subseteq {"px", "cs"}

\* Whatever fails or restarts, the automatic session writes what it derived from
\* snapshots of both sides that this very cycle collected (README.md:157).
AutoWritesFromThisCycle ==
    sess[FullSync].pc = "write" => fresh = {"px", "cs"}

\* However many sessions insert, from whatever snapshots, CloudStack's VM never
\* has two default NICs (cloudstack_db.py:425 "clears any existing default_nic").
AtMostOneDefault ==
    Cardinality({i \in DOMAIN table : table[i].live /\ table[i].default}) <= 1

\* CloudStack has exactly the NICs of the guest whose networks are mapped.
InSync ==
    LET mapped == {d \in Present(guest) : mapping[guest[d].bridge] # None}
        live == {i \in DOMAIN table : table[i].live}
        Same(i, d) == /\ table[i].mac = guest[d].mac
                      /\ table[i].net = mapping[guest[d].bridge]
                      /\ guest[d].ip \in {None, table[i].ip}
    IN /\ Cardinality(live) = Cardinality(mapped)
       /\ \A d \in mapped : \E i \in live : Same(i, d)

\* When changes, failures and operators come to rest, automatic reconciliation
\* brings the two sides together and leaves them so: what stale decisions,
\* duplicate inserts and half done runs left behind is found and repaired.
NicsConverge == <>[]InSync

\* "CS NICs with no matching Proxmox MAC" (sync_engine.py:1200): what is to be
\* removed matches no NIC of the guest as it was collected.
RemovedHasNoMatchingMac ==
    \A s \in Sessions : \A i \in sess[s].item :
        sess[s].pc = "write" /\ i.type = "extra" =>
            \A d \in Devices : px.nics[d].mac # i.mac
=============================================================================
