------------------------ MODULE PlacementSyncProofs ------------------------
(***************************************************************************)
(* What is proved of PlacementSync, for any guests, VMs, mappings, routes  *)
(* and bounds: the types of the rows, that the cycle writes what Proxmox   *)
(* answered in it, that links agree unless commits raced, that established *)
(* pairs are kept, and that what is written to a VM is the placement of    *)
(* the guest it stands for until requests of operators overlap.            *)
(*                                                                         *)
(* Everything about links rests on what the readers know: a snapshot that  *)
(* no commit has overtaken is what the tables hold (ReadsAreCurrent). What *)
(* an overtaken commit may mix is bounded by MixedAreNames.                *)
(***************************************************************************)
EXTENDS PlacementSync, FiniteSetTheorems, TLAPS

----------------------------------------------------------------------------
(* The invariants.                                                         *)

Phases == {"idle", "proxmox", "cloudstack", "match", "commit", "reconcile",
           "auto"}
PxRows == [Guests -> PxRow]
CsRows == [CsVms -> CsRow]
SyncRow == [pc : Phases, px : PxRows, cs : CsRows, maps : SUBSET Row,
            failed : BOOLEAN, stale : BOOLEAN]
Identities == [type : {"host", "state"}, g : Guests, c : CsVms,
               source : Hosts, target : Hosts]
Items == [type : {"none", "host", "state"}, g : Guests \cup {None},
          c : CsVms \cup {None}, source : Hosts \cup {None},
          target : Hosts \cup {None}, node : Places \cup {None},
          status : Statuses]
SessionRow == [pc : {"idle", "next", "read", "status", "write"},
               todo : SUBSET Identities, item : Items, wrote : BOOLEAN]
RequestRow == [op : {"idle", "match", "unmatch"}, g : Guests \cup {None},
               c : CsVms \cup {None}, px : PxRow, cs : CsRow,
               stale : BOOLEAN]

WorldTyped ==
    /\ guest \in [Guests -> Guest] /\ vmi \in [CsVms -> Vmi]
    /\ mapping \subseteq Row /\ polled \in [Guests -> Guest]
TablesTyped == px \in PxRows /\ cs \in CsRows
FlagsTyped ==
    ready \in BOOLEAN /\ raced \in BOOLEAN /\ overlap \in BOOLEAN

ItemNamed(i) ==
    i.g \in Guests /\ i.c \in CsVms /\ i.target \in Hosts /\ i.source \in Hosts
Decided(r) == r.pc \in {"status", "write"}
ItemsNamed == \A s \in Sessions : Decided(sess[s]) => ItemNamed(sess[s].item)

\* What a request is about, and what its reads refused.
Asked(q) ==
    /\ q.op # "idle" => q.g \in Guests
    /\ q.op = "match" => /\ q.c \in CsVms
                         /\ VmidOf[q.c] = VmidOf[q.g]
                         /\ q.px.link \in {None, q.c}
                         /\ q.cs.link \in {None, q.g}
    /\ q.op = "unmatch" => q.c = q.px.link

SyncTyped == sync \in SyncRow
SessionsTyped == sess \in [Sessions -> SessionRow] /\ ItemsNamed
RequestsTyped == req \in [Procs -> RequestRow] /\ \A p \in Procs : Asked(req[p])

Typed ==
    /\ WorldTyped /\ TablesTyped /\ FlagsTyped
    /\ SyncTyped /\ SessionsTyped /\ RequestsTyped

\* The session of the cycle runs within the cycle, whose flag is up.
AutoWithinSync == sess[FullSync].pc # "idle" => sync.pc = "auto"
AutoIsReady == sync.pc = "auto" => ready
FlagIsLate == ready => sync.pc \notin {"proxmox", "cloudstack"}

\* Once the poll of Proxmox went well, rows that are current are its answer.
RowsWerePolled ==
    ready \/ (sync.pc = "cloudstack" /\ ~sync.failed) =>
      \A g \in Guests : px[g].current =>
        px[g].node = polled[g].node /\ px[g].status = polled[g].status

AutoItemPolled ==
    LET i == sess[FullSync].item
    IN /\ sess[FullSync].pc \in {"status", "write"} =>
            px[i.g].current /\ i.node = polled[i.g].node
       /\ sess[FullSync].pc = "write" => i.status = polled[i.g].status

AutoInv ==
    /\ AutoWithinSync /\ AutoIsReady /\ FlagIsLate /\ RowsWerePolled
    /\ AutoItemPolled

\* What no commit has overtaken is what the tables hold.
SameLink(row, seen) == row.link = seen.link /\ row.source = seen.source
RequestIsCurrent(q) ==
    q.op # "idle" /\ ~q.stale =>
      /\ SameLink(px[q.g], q.px)
      /\ q.c # None => SameLink(cs[q.c], q.cs)
ReadsAreCurrent ==
    /\ sync.pc = "commit" /\ ~sync.stale => sync.px = px /\ sync.cs = cs
    /\ \A p \in Procs : RequestIsCurrent(req[p])

LinksHaveVmids ==
    \A g \in Guests : px[g].link # None => VmidOf[px[g].link] = VmidOf[g]

LinkInv == ReadsAreCurrent /\ LinksHaveVmids /\ LinksAgreeUnlessRaced

\* Guests and VMs stay in the cluster they belong to.
OwnPlace(g, n) == n # None => n \in Places /\ ClusterOf[n] = ClusterOf[g]
OwnHost(c, h) ==
    h # None =>
      \E p \in Places : HostAt[p] = h /\ ClusterOf[p] = ClusterOf[Home[c]]
OwnPlaces(rows) == \A g \in Guests : OwnPlace(g, rows[g].node)
OwnHosts(rows) == \A c \in CsVms : OwnHost(c, rows[c].host)
InOwnCluster ==
    /\ OwnPlaces(guest) /\ OwnPlaces(px) /\ OwnPlaces(sync.px)
    /\ OwnHosts(vmi) /\ OwnHosts(cs) /\ OwnHosts(sync.cs)

\* A wrong row is beside the true rows of its place and of its host.
Sound(maps) == maps \subseteq TrueRows \/ TrueRows \subseteq maps
MappingsSound == Sound(mapping) /\ Sound(sync.maps)

Mutual(pxs, css, g, c) == pxs[g].link = c /\ css[c].link = g
DurableAreHome(pxs, css) ==
    \A g \in Guests, c \in CsVms :
      /\ Mutual(pxs, css, g, c)
      /\ pxs[g].source = css[c].source /\ pxs[g].source \in Durables
      => Home[c] = g

\* What was linked since match_vms read, an operator linked.
LinkedSinceAreHome ==
    sync.pc = "commit" =>
      \A g \in Guests, c \in CsVms :
        px[g].link = c /\ sync.px[g].link = None => Home[c] = g

MatchIsHome == \A p \in Procs : req[p].op = "match" => Home[req[p].c] = req[p].g

\* A request that match_vms has overtaken finds no pair of strangers whose
\* source passes for durable on either side.
MixedAreNames ==
    (\E p \in Procs : req[p].op # "idle" /\ req[p].stale) =>
      \A g \in Guests, c \in CsVms :
        Mutual(px, cs, g, c) /\ Home[c] # g =>
          px[g].source \notin Durables /\ cs[c].source \notin Durables

ItemsAreHome ==
    \A s \in Sessions : sess[s].pc \in {"status", "write"} =>
      /\ Home[sess[s].item.c] = sess[s].item.g
      /\ OwnHost(sess[s].item.c, sess[s].item.target)

\* At most one request is between its read and its commit.
OneAtATime ==
    \A p, q \in Procs : req[p].op # "idle" /\ req[q].op # "idle" => p = q

HomeInv ==
    /\ InOwnCluster /\ MappingsSound
    /\ DurableAreHome(px, cs) /\ DurableAreHome(sync.px, sync.cs)
    /\ LinkedSinceAreHome /\ MatchIsHome /\ MixedAreNames /\ ItemsAreHome

----------------------------------------------------------------------------
(* Types.                                                                  *)

LEMMA NullsTyped ==
  /\ NoPx \in PxRow /\ NoCs \in CsRow
  /\ NoItem \in Items /\ Idle \in SessionRow
  /\ NoRequest \in RequestRow /\ Asked(NoRequest)
<1>1. NoPx \in PxRow /\ NoCs \in CsRow
  BY DEF NoPx, NoCs, PxRow, CsRow, Statuses, Sources
<1>2. NoItem \in Items
  BY DEF NoItem, Items, Statuses
<1>3. Idle \in SessionRow
  BY <1>2 DEF Idle, SessionRow
<1>4. NoRequest \in RequestRow /\ Asked(NoRequest)
  BY <1>1 DEF NoRequest, RequestRow, Asked
<1> QED
  BY <1>1, <1>2, <1>3, <1>4

LEMMA RestingTyped == Resting \in SyncRow
  BY NullsTyped DEF Resting, SyncRow, Phases, PxRows, CsRows

LEMMA TrueRowsTyped ==
  /\ TrueRows \subseteq Row
  /\ \A p \in Places : [place |-> p, host |-> HostAt[p]] \in TrueRows
  /\ \A m \in TrueRows : m.place \in Places /\ m.host = HostAt[m.place]
  BY PlacementConstants DEF TrueRows, Row

\* The host of a place that is mapped, the place of a host.
LEMMA MappedTyped ==
  ASSUME NEW maps \in SUBSET Row
  PROVE  /\ \A h : MappedHost(maps, h) => h \in Hosts
         /\ \A p : MappedPlace(maps, p) =>
              /\ p \in Places /\ HostOf(maps, p) \in Hosts
              /\ \E m \in UniqueRows(maps) :
                   m.place = p /\ m.host = HostOf(maps, p)
<1>1. UniqueRows(maps) \subseteq Row
  BY DEF UniqueRows
<1>2. \A h : MappedHost(maps, h) => h \in Hosts
  BY <1>1 DEF MappedHost, Row
<1>3. ASSUME NEW p, MappedPlace(maps, p)
      PROVE  \E m \in UniqueRows(maps) : m.place = p /\ m.host = HostOf(maps, p)
  BY <1>3 DEF MappedPlace, HostOf
<1> QED
  BY <1>1, <1>2, <1>3 DEF Row

\* What an established pair is.
LEMMA RelationshipIs ==
  ASSUME NEW pxs \in PxRows, NEW css \in CsRows, NEW maps \in SUBSET Row,
         NEW g \in Guests, NEW c \in CsVms, Relationship(g, c, pxs, css, maps)
  PROVE  /\ pxs[g].current /\ Mutual(pxs, css, g, c)
         /\ VmidOf[c] = VmidOf[g]
         /\ pxs[g].source = css[c].source /\ pxs[g].source \in Durables
         /\ css[c].host \in Hosts /\ pxs[g].node \in Places
         /\ MappedPlace(maps, pxs[g].node)
  BY MappedTyped DEF Relationship, Mutual

\* Drift is of established pairs; its items are what the rows hold.
LEMMA DriftIs ==
  ASSUME Typed, NEW i \in Drift
  PROVE  /\ i \in Items /\ i.type \in {"host", "state"}
         /\ i.g \in Guests /\ i.c \in CsVms
         /\ Relationship(i.g, i.c, px, cs, mapping)
         /\ i.source \in Hosts /\ i.target \in Hosts
         /\ i.target = HostOf(mapping, px[i.g].node)
         /\ i.node = px[i.g].node /\ i.status = px[i.g].status
         /\ px[i.g].current
         /\ Identity(i) \in Identities
<1>1. PICK gc \in Guests \X CsVms :
        Relationship(gc[1], gc[2], px, cs, mapping) /\ i \in DriftOf(gc[1], gc[2])
  BY DEF Drift
<1> DEFINE g == gc[1]
           c == gc[2]
           J(type) == [type |-> type, g |-> g, c |-> c, source |-> cs[c].host,
                       target |-> HostOf(mapping, px[g].node),
                       node |-> px[g].node, status |-> px[g].status]
<1>2. g \in Guests /\ c \in CsVms /\ Relationship(g, c, px, cs, mapping)
  BY <1>1
<1>3. i = J("host") \/ i = J("state")
  BY <1>1 DEF DriftOf
<1>4. px \in PxRows /\ cs \in CsRows /\ mapping \in SUBSET Row
  BY DEF Typed, TablesTyped, WorldTyped
<1>5. /\ px[g].current /\ cs[c].host \in Hosts /\ px[g].node \in Places
      /\ HostOf(mapping, px[g].node) \in Hosts /\ px[g].status \in Statuses
  BY <1>2, <1>4, RelationshipIs, MappedTyped DEF PxRows, PxRow
<1> HIDE DEF g, c
<1>6. \A type \in {"host", "state"} :
        J(type) \in Items /\ Identity(J(type)) \in Identities
  BY <1>2, <1>5 DEF Items, Identity, Identities
<1> QED
  BY <1>2, <1>3, <1>5, <1>6

\* A poll of Proxmox keeps links; rows that are current are what it answered.
LEMMA PolledRowsAre ==
  ASSUME Typed, NEW missed
  PROVE  /\ PolledRows(missed) \in PxRows
         /\ \A g \in Guests :
              /\ SameLink(PolledRows(missed)[g], px[g])
              /\ PolledRows(missed)[g].node \in {px[g].node, guest[g].node}
              /\ PolledRows(missed)[g].current =>
                   /\ PolledRows(missed)[g].node = guest[g].node
                   /\ PolledRows(missed)[g].status = guest[g].status
<1>1. px \in PxRows /\ guest \in [Guests -> Guest]
  BY DEF Typed, TablesTyped, WorldTyped
<1>2. ASSUME NEW g \in Guests, NEW r,
             \/ r = [px[g] EXCEPT !.current = FALSE]
             \/ r = [px[g] EXCEPT !.current = TRUE, !.node = guest[g].node,
                                  !.status = guest[g].status]
      PROVE  /\ r \in PxRow /\ SameLink(r, px[g])
             /\ r.node \in {px[g].node, guest[g].node}
             /\ r.current => r.node = guest[g].node /\ r.status = guest[g].status
  <2>1. px[g] \in PxRow /\ guest[g] \in Guest
    BY <1>1 DEF PxRows
  <2> QED
    BY <1>2, <2>1 DEF PxRow, Guest, SameLink
<1>3. \A g \in Guests :
        \/ PolledRows(missed)[g] = [px[g] EXCEPT !.current = FALSE]
        \/ PolledRows(missed)[g] =
             [px[g] EXCEPT !.current = TRUE, !.node = guest[g].node,
                           !.status = guest[g].status]
  BY DEF PolledRows, Observed
<1>4. PolledRows(missed) = [g \in Guests |-> PolledRows(missed)[g]]
  BY DEF PolledRows
<1> HIDE DEF SameLink
<1> QED
  BY <1>2, <1>3, <1>4 DEF PxRows

\* A poll of CloudStack keeps links; hosts are from the old or the new row.
PolledCs(rows) ==
    /\ rows \in CsRows
    /\ \A c \in CsVms : /\ SameLink(rows[c], cs[c])
                        /\ rows[c].host \in {cs[c].host, vmi[c].host}

LEMMA ListedRowsAre ==
  ASSUME Typed
  PROVE  PolledCs(ListedRows) /\ PolledCs(StaleRows)
<1>1. cs \in CsRows /\ vmi \in [CsVms -> Vmi]
  BY DEF Typed, TablesTyped, WorldTyped
<1>2. ASSUME NEW c \in CsVms, NEW r,
             \/ r = [cs[c] EXCEPT !.current = FALSE]
             \/ r = [cs[c] EXCEPT !.current = TRUE, !.host = vmi[c].host,
                                  !.state = vmi[c].state]
      PROVE  /\ r \in CsRow /\ SameLink(r, cs[c])
             /\ r.host \in {cs[c].host, vmi[c].host}
  <2>1. cs[c] \in CsRow /\ vmi[c] \in Vmi
    BY <1>1 DEF CsRows
  <2> QED
    BY <1>2, <2>1 DEF CsRow, Vmi, SameLink
<1>3. \A c \in CsVms :
        \/ ListedRows[c] = [cs[c] EXCEPT !.current = FALSE]
        \/ ListedRows[c] = [cs[c] EXCEPT !.current = TRUE, !.host = vmi[c].host,
                                         !.state = vmi[c].state]
  BY DEF ListedRows, Listed
<1>4. \A c \in CsVms : StaleRows[c] = [cs[c] EXCEPT !.current = FALSE]
  BY DEF StaleRows
<1>5. /\ ListedRows = [c \in CsVms |-> ListedRows[c]]
      /\ StaleRows = [c \in CsVms |-> StaleRows[c]]
  BY DEF ListedRows, StaleRows
<1>6. PolledCs(ListedRows)
  <2> HIDE DEF SameLink, ListedRows
  <2> QED
    BY <1>2, <1>3, <1>5 DEF CsRows, PolledCs
<1>7. PolledCs(StaleRows)
  <2> HIDE DEF SameLink, StaleRows
  <2> QED
    BY <1>2, <1>4, <1>5 DEF CsRows, PolledCs
<1> QED
  BY <1>6, <1>7

\* What match_vms finds: pairs of one guest and one VM with the same VMID.
FoundPair(f) ==
    /\ f.g \in Guests /\ f.c \in CsVms /\ f.source \in {"manual", "host", "name"}
    /\ VmidOf[f.c] = VmidOf[f.g]

LEMMA PairsAreFinite ==
  ASSUME NEW S, IsFiniteSet(S), NEW c, NEW source
  PROVE  IsFiniteSet({Pair(g, c, source) : g \in S})
<1> DEFINE T == {Pair(g, c, source) : g \in S}
           f == [g \in S |-> Pair(g, c, source)]
<1>1. f \in Surjection(S, T)
  BY DEF Surjection
<1> QED
  BY <1>1, FS_Surjection

LEMMA CandidatesAre ==
  ASSUME NEW pxs \in PxRows, NEW css \in CsRows, NEW maps \in SUBSET Row,
         NEW c \in CsVms
  PROVE  /\ \A f \in Candidates(c, pxs, css, maps) :
              /\ FoundPair(f) /\ f.c = c
              /\ \/ f.source = "name"
                 \/ [place |-> pxs[f.g].node, host |-> css[c].host]
                       \in UniqueRows(maps)
         /\ IsFiniteSet(Candidates(c, pxs, css, maps))
<1>1. \A g \in ByHost(c, pxs, css, maps) :
        /\ g \in Guests /\ VmidOf[c] = VmidOf[g]
        /\ [place |-> pxs[g].node, host |-> css[c].host] \in UniqueRows(maps)
  BY DEF ByHost
<1>2. \A g \in ByName(c, pxs) : g \in Guests /\ VmidOf[c] = VmidOf[g]
  BY DEF ByName
<1>3. IsFiniteSet(ByHost(c, pxs, css, maps)) /\ IsFiniteSet(ByName(c, pxs))
  <2>1. /\ ByHost(c, pxs, css, maps) \subseteq Guests
        /\ ByName(c, pxs) \subseteq Guests
    BY DEF ByHost, ByName
  <2> QED
    BY <2>1, FS_Subset, PlacementConstants
<1>4. /\ IsFiniteSet({Pair(g, c, "host") : g \in ByHost(c, pxs, css, maps)})
      /\ IsFiniteSet({Pair(g, c, "name") : g \in ByName(c, pxs)})
  BY <1>3, PairsAreFinite
<1>5. /\ \A f \in {Pair(g, c, "host") : g \in ByHost(c, pxs, css, maps)} :
           /\ FoundPair(f) /\ f.c = c
           /\ [place |-> pxs[f.g].node, host |-> css[c].host]
                \in UniqueRows(maps)
      /\ \A f \in {Pair(g, c, "name") : g \in ByName(c, pxs)} :
           FoundPair(f) /\ f.c = c /\ f.source = "name"
  BY <1>1, <1>2 DEF Pair, FoundPair
<1> QED
  BY <1>4, <1>5, FS_EmptySet DEF Candidates

LEMMA KeptAre ==
  ASSUME NEW pxs \in PxRows, NEW css \in CsRows, NEW maps \in SUBSET Row
  PROVE  /\ \A f \in Kept(pxs, css, maps) :
              /\ FoundPair(f) /\ f.source = pxs[f.g].source
              /\ Relationship(f.g, f.c, pxs, css, maps)
         /\ \A f, h \in Kept(pxs, css, maps) :
              f.g = h.g \/ f.c = h.c => f = h
         /\ \A g \in Guests, c \in CsVms :
              Relationship(g, c, pxs, css, maps) =>
                Pair(g, c, pxs[g].source) \in Kept(pxs, css, maps)
<1> DEFINE kept == Kept(pxs, css, maps)
<1>1. \A f \in kept : \E g \in Guests, c \in CsVms :
        f = Pair(g, c, pxs[g].source) /\ Relationship(g, c, pxs, css, maps)
  BY DEF Kept
<1>2. ASSUME NEW f \in kept
      PROVE  /\ FoundPair(f) /\ Relationship(f.g, f.c, pxs, css, maps)
             /\ Mutual(pxs, css, f.g, f.c)
             /\ f = Pair(f.g, f.c, pxs[f.g].source)
             /\ f.source = pxs[f.g].source
  <2>1. PICK g \in Guests, c \in CsVms :
          f = Pair(g, c, pxs[g].source) /\ Relationship(g, c, pxs, css, maps)
    BY <1>1
  <2>2. f.g = g /\ f.c = c /\ f.source = pxs[g].source
    BY <2>1 DEF Pair
  <2>3. /\ Mutual(pxs, css, g, c) /\ VmidOf[c] = VmidOf[g]
        /\ pxs[g].source \in Durables
    BY <2>1, RelationshipIs
  <2> QED
    BY <2>1, <2>2, <2>3 DEF FoundPair, Durables
<1>3. ASSUME NEW f \in kept, NEW h \in kept, f.g = h.g \/ f.c = h.c
      PROVE  f = h
  <2>1. f.g = h.g /\ f.c = h.c
    BY <1>2, <1>3 DEF Mutual
  <2> QED
    BY <1>2, <2>1
<1>4. ASSUME NEW g \in Guests, NEW c \in CsVms,
             Relationship(g, c, pxs, css, maps)
      PROVE  Pair(g, c, pxs[g].source) \in kept
  <2>1. /\ <<g, c>> \in Guests \X CsVms
        /\ Relationship(<<g, c>>[1], <<g, c>>[2], pxs, css, maps)
    BY <1>4
  <2> QED
    BY <2>1 DEF Kept
<1> QED
  BY <1>2, <1>3, <1>4

\* match_vms finds pairs one to one, the established ones among them.
LEMMA FoundAre ==
  ASSUME NEW pxs \in PxRows, NEW css \in CsRows, NEW maps \in SUBSET Row
  PROVE  /\ \A f \in Found(pxs, css, maps) :
              /\ FoundPair(f)
              /\ \/ f \in Kept(pxs, css, maps)
                 \/ f.source = "name"
                 \/ [place |-> pxs[f.g].node, host |-> css[f.c].host]
                       \in UniqueRows(maps)
         /\ \A f, h \in Found(pxs, css, maps) :
              f.g = h.g \/ f.c = h.c => f = h
         /\ Kept(pxs, css, maps) \subseteq Found(pxs, css, maps)
<1> DEFINE kept == Kept(pxs, css, maps)
           open == {c \in CsVms : css[c].current /\ \A k \in kept : k.c # c}
           X(c) == Free(kept, Candidates(c, pxs, css, maps))
           choices == {X(c) : c \in open}
           only == UNION {x \in choices : Cardinality(x) = 1}
           new == {p \in only : \A q \in only : q.g = p.g => q = p}
<1>1. Found(pxs, css, maps) = kept \cup new
  BY DEF Found
<1>2. ASSUME NEW f \in only
      PROVE  /\ f.c \in open /\ f \in X(f.c) /\ Cardinality(X(f.c)) = 1
             /\ \A k \in kept : k.g # f.g
             /\ FoundPair(f)
             /\ \/ f.source = "name"
                \/ [place |-> pxs[f.g].node, host |-> css[f.c].host]
                      \in UniqueRows(maps)
  <2>1. PICK c \in open : f \in X(c) /\ Cardinality(X(c)) = 1
    BY <1>2
  <2>2. f \in Candidates(c, pxs, css, maps) /\ \A k \in kept : k.g # f.g
    BY <2>1 DEF Free
  <2>3. c \in CsVms
    BY <2>1
  <2>4. /\ FoundPair(f) /\ f.c = c
        /\ \/ f.source = "name"
           \/ [place |-> pxs[f.g].node, host |-> css[c].host]
                 \in UniqueRows(maps)
    BY <2>2, <2>3, CandidatesAre
  <2> QED
    BY <2>1, <2>2, <2>4
<1>3. ASSUME NEW f \in only, NEW h \in only, f.c = h.c
      PROVE  f = h
  <2>1. f \in X(f.c) /\ h \in X(f.c) /\ Cardinality(X(f.c)) = 1 /\ f.c \in CsVms
    BY <1>2, <1>3
  <2>2. IsFiniteSet(X(f.c))
    BY <2>1, CandidatesAre, FS_Subset DEF Free
  <2>3. \E x : X(f.c) = {x}
    BY <2>1, <2>2, FS_Singleton
  <2> QED
    BY <2>1, <2>3
<1>4. ASSUME NEW f \in kept \cup new, NEW h \in kept \cup new,
             f.g = h.g \/ f.c = h.c
      PROVE  f = h
  <2>1. CASE f \in kept /\ h \in kept
    BY <1>4, <2>1, KeptAre
  <2>2. CASE f \in new /\ h \in new
    BY <1>3, <1>4, <2>2
  <2>3. CASE f \in kept /\ h \in new
    BY <1>2, <1>4, <2>3
  <2>4. CASE f \in new /\ h \in kept
    BY <1>2, <1>4, <2>4
  <2> QED
    BY <1>4, <2>1, <2>2, <2>3, <2>4
<1>5. \A f \in kept \cup new :
        /\ FoundPair(f)
        /\ \/ f \in kept
           \/ f.source = "name"
           \/ [place |-> pxs[f.g].node, host |-> css[f.c].host]
                 \in UniqueRows(maps)
  BY <1>2, KeptAre
<1> QED
  BY <1>1, <1>4, <1>5

\* A set of pairs, one to one.
OneToOne(found) ==
    /\ \A f \in found : FoundPair(f)
    /\ \A f, h \in found : f.g = h.g \/ f.c = h.c => f = h

\* A column that match_vms has read and found nothing for is cleared, unless it
\* was clear already: then it is as it is.
Cleared(now, seen, clear) == IF seen # clear THEN clear ELSE now

LEMMA MatchedPxIs ==
  ASSUME Typed, NEW found, OneToOne(found), NEW g \in Guests
  PROVE  LET r == MatchedPx(found, g)
         IN /\ r \in PxRow
            /\ r.current = px[g].current /\ r.node = px[g].node
            /\ r.status = px[g].status
            /\ \A f \in found : f.g = g => r.link = f.c /\ r.source = f.source
            /\ (\A f \in found : f.g # g) =>
                 /\ r.link = Cleared(px[g].link, sync.px[g].link, None)
                 /\ r.source = Cleared(px[g].source, sync.px[g].source, "")
<1> DEFINE mine == {f \in found : f.g = g}
           link == IF mine = {} THEN None ELSE (CHOOSE f \in mine : TRUE).c
           src == IF mine = {} THEN "" ELSE (CHOOSE f \in mine : TRUE).source
           newLink == Stored(px[g].link, sync.px[g].link, None, link)
           newSrc == Stored(px[g].source, sync.px[g].source, "", src)
           r == MatchedPx(found, g)
<1>1. px[g] \in PxRow
  BY DEF Typed, TablesTyped, PxRows
<1>2. r = [px[g] EXCEPT !.link = newLink, !.source = newSrc]
  BY DEF MatchedPx
<1>3. CASE mine = {}
  <2>1. /\ newLink = Cleared(px[g].link, sync.px[g].link, None)
        /\ newSrc = Cleared(px[g].source, sync.px[g].source, "")
    BY <1>3 DEF Stored, Cleared
  <2>2. newLink \in CsVms \cup {None} /\ newSrc \in Sources
    BY <1>1, <2>1 DEF PxRow, Sources, Cleared
  <2> HIDE DEF newLink, newSrc
  <2> QED
    BY <1>1, <1>2, <1>3, <2>1, <2>2 DEF PxRow
<1>4. CASE mine # {}
  <2>1. PICK h \in mine : h = CHOOSE f \in mine : TRUE
    BY <1>4
  <2>2. FoundPair(h) /\ h.g = g /\ \A f \in found : f.g = g => f = h
    BY <2>1 DEF OneToOne
  <2>3. newLink = h.c /\ newSrc = h.source
    BY <1>4, <2>1, <2>2, PlacementConstants DEF Stored, FoundPair
  <2>4. newLink \in CsVms \cup {None} /\ newSrc \in Sources
    BY <2>2, <2>3 DEF FoundPair, Sources
  <2> HIDE DEF newLink, newSrc, mine
  <2>5. \E f \in found : f.g = g
    BY <2>1 DEF mine
  <2> QED
    BY <1>1, <1>2, <2>2, <2>3, <2>4, <2>5 DEF PxRow
<1> QED
  BY <1>3, <1>4

LEMMA MatchedCsIs ==
  ASSUME Typed, NEW found, OneToOne(found), NEW c \in CsVms
  PROVE  LET r == MatchedCs(found, c)
         IN /\ r \in CsRow
            /\ r.current = cs[c].current /\ r.host = cs[c].host
            /\ \A f \in found : f.c = c => r.link = f.g /\ r.source = f.source
            /\ (\A f \in found : f.c # c) =>
                 /\ r.link = Cleared(cs[c].link, sync.cs[c].link, None)
                 /\ r.source = Cleared(cs[c].source, sync.cs[c].source, "")
<1> DEFINE mine == {f \in found : f.c = c}
           link == IF mine = {} THEN None ELSE (CHOOSE f \in mine : TRUE).g
           src == IF mine = {} THEN "" ELSE (CHOOSE f \in mine : TRUE).source
           newLink == Stored(cs[c].link, sync.cs[c].link, None, link)
           newSrc == Stored(cs[c].source, sync.cs[c].source, "", src)
           r == MatchedCs(found, c)
<1>1. cs[c] \in CsRow
  BY DEF Typed, TablesTyped, CsRows
<1>2. r = [cs[c] EXCEPT !.link = newLink, !.source = newSrc]
  BY DEF MatchedCs
<1>3. CASE mine = {}
  <2>1. /\ newLink = Cleared(cs[c].link, sync.cs[c].link, None)
        /\ newSrc = Cleared(cs[c].source, sync.cs[c].source, "")
    BY <1>3 DEF Stored, Cleared
  <2>2. newLink \in Guests \cup {None} /\ newSrc \in Sources
    BY <1>1, <2>1 DEF CsRow, Sources, Cleared
  <2> HIDE DEF newLink, newSrc
  <2> QED
    BY <1>1, <1>2, <1>3, <2>1, <2>2 DEF CsRow
<1>4. CASE mine # {}
  <2>1. PICK h \in mine : h = CHOOSE f \in mine : TRUE
    BY <1>4
  <2>2. FoundPair(h) /\ h.c = c /\ \A f \in found : f.c = c => f = h
    BY <2>1 DEF OneToOne
  <2>3. newLink = h.g /\ newSrc = h.source
    BY <1>4, <2>1, <2>2, PlacementConstants DEF Stored, FoundPair
  <2>4. newLink \in Guests \cup {None} /\ newSrc \in Sources
    BY <2>2, <2>3 DEF FoundPair, Sources
  <2> HIDE DEF newLink, newSrc, mine
  <2>5. \E f \in found : f.c = c
    BY <2>1 DEF mine
  <2> QED
    BY <1>1, <1>2, <2>2, <2>3, <2>4, <2>5 DEF CsRow
<1> QED
  BY <1>3, <1>4

\* Where a session goes from here.
LEMMA EnterTyped ==
  ASSUME Typed, NEW s \in Sessions, NEW r \in SessionRow, Enter(s, r),
         Decided(r) => ItemNamed(r.item)
  PROVE  SessionsTyped'
<1>1. sess \in [Sessions -> SessionRow] /\ ItemsNamed
  BY DEF Typed, SessionsTyped
<1>2. sess' = [sess EXCEPT ![s] = r]
  BY DEF Enter
<1>3. sess' \in [Sessions -> SessionRow]
  BY <1>1, <1>2
<1>4. \A t \in Sessions : sess'[t] = IF t = s THEN r ELSE sess[t]
  BY <1>1, <1>2
<1>5. ASSUME NEW t \in Sessions, Decided(sess'[t]) PROVE ItemNamed(sess'[t].item)
  BY <1>1, <1>4, <1>5 DEF ItemsNamed
<1>6. ItemsNamed'
  <2>1. \A t \in Sessions : Decided(sess'[t]) => ItemNamed(sess'[t].item)
    BY <1>5
  <2> QED
    BY <2>1 DEF ItemsNamed, ItemNamed, Decided
<1> QED
  BY <1>3, <1>6 DEF SessionsTyped

LEMMA ContinueIs ==
  ASSUME Typed, NEW s \in Sessions, NEW wrote \in BOOLEAN
  PROVE  /\ Continue(s, wrote) \in SessionRow /\ ~Decided(Continue(s, wrote))
         /\ Continue(s, wrote).pc \in {"idle", "next"}
         /\ Idle \in SessionRow /\ ~Decided(Idle)
         /\ sess[s] \in SessionRow
<1>1. sess[s] \in SessionRow
  BY DEF Typed, SessionsTyped
<1>2. Idle \in SessionRow /\ Idle.pc = "idle" /\ NoItem \in Items
  BY NullsTyped DEF Idle
<1>3. (wrote /\ s = FullSync) \in BOOLEAN
  OBVIOUS
<1>4. /\ Continue(s, wrote) \in SessionRow
      /\ Continue(s, wrote).pc \in {"idle", "next"}
  BY <1>1, <1>2, <1>3 DEF Continue, SessionRow
<1> QED
  BY <1>1, <1>2, <1>4 DEF Decided

\* Where a session may go: nowhere that decides, to an item of the drift, or on
\* with the status as it is by now.
Goes(s, r) ==
    \/ ~Decided(r)
    \/ r.item \in Drift
    \/ /\ sess[s].pc = "status" /\ r.pc = "write"
       /\ r.item = [sess[s].item EXCEPT !.status = px[sess[s].item.g].status]

LEMMA SessionStepIs ==
  ASSUME Typed, NEW s \in Sessions, Session(s) \/ WriteFails(s)
  PROVE  /\ \E r \in SessionRow : Enter(s, r) /\ Goes(s, r)
         /\ sess[s].pc # "idle"
         /\ UNCHANGED <<guest, mapping, px, cs, ready, sync, req, History>>
<1>1. sess[s] \in SessionRow /\ (Decided(sess[s]) => ItemNamed(sess[s].item))
  BY DEF Typed, SessionsTyped, ItemsNamed
<1>2. sess[s].wrote \in BOOLEAN
  BY <1>1 DEF SessionRow
<1>3. /\ sess[s].pc # "idle"
      /\ UNCHANGED <<guest, mapping, px, cs, ready, sync, req, History>>
  BY DEF Session, NextItem, Read, ReadStatus, Write, WriteFails, SessionOnly,
     World, Rows
<1>4. CASE NextItem(s)
  <2>1. PICK t \in sess[s].todo :
          LET rest == [sess[s] EXCEPT !.todo = @ \ {t}]
          IN Enter(s, IF ready
                      THEN [rest EXCEPT !.pc = "read",
                                       !.item = [NoItem EXCEPT !.type = t.type,
                                         !.g = t.g, !.c = t.c,
                                         !.source = t.source,
                                         !.target = t.target]]
                      ELSE IF rest.todo = {}
                      THEN [Idle EXCEPT !.wrote = rest.wrote /\ s = FullSync]
                      ELSE rest)
    BY <1>4 DEF NextItem
  <2> DEFINE rest == [sess[s] EXCEPT !.todo = @ \ {t}]
             item == [NoItem EXCEPT !.type = t.type, !.g = t.g, !.c = t.c,
                                    !.source = t.source, !.target = t.target]
             r == IF ready THEN [rest EXCEPT !.pc = "read", !.item = item]
                  ELSE IF rest.todo = {}
                  THEN [Idle EXCEPT !.wrote = rest.wrote /\ s = FullSync]
                  ELSE rest
  <2>2. t \in Identities
    BY <1>1 DEF SessionRow
  <2>3. item \in Items
    BY <2>2, NullsTyped DEF Items, Identities
  <2>4. rest \in SessionRow /\ rest.pc = "next"
    BY <1>1, <1>4 DEF SessionRow, NextItem
  <2>5. Idle \in SessionRow /\ Idle.pc = "idle"
    BY NullsTyped DEF Idle
  <2>6. (rest.wrote /\ s = FullSync) \in BOOLEAN
    OBVIOUS
  <2> HIDE DEF rest, item
  <2>7. r \in SessionRow /\ r.pc \in {"read", "idle", "next"}
    BY <2>3, <2>4, <2>5, <2>6 DEF SessionRow
  <2>8. Enter(s, r)
    BY <2>1 DEF rest, item
  <2> HIDE DEF r
  <2> QED
    BY <1>3, <2>7, <2>8 DEF Decided, Goes
<1>5. CASE Read(s)
  <2>1. ASSUME NEW i \in Confirmed(s),
               Enter(s, [sess[s] EXCEPT !.item = i,
                           !.pc = IF i.type = "host" THEN "status" ELSE "write"])
        PROVE  \E r \in SessionRow : Enter(s, r) /\ Goes(s, r)
    <3> DEFINE r == [sess[s] EXCEPT !.item = i,
                       !.pc = IF i.type = "host" THEN "status" ELSE "write"]
    <3>1. i \in Drift /\ i \in Items
      BY DriftIs DEF Confirmed
    <3>2. r \in SessionRow /\ r.item = i
      BY <1>1, <3>1 DEF SessionRow
    <3> QED
      BY <2>1, <3>1, <3>2 DEF Goes
  <2>2. ASSUME Enter(s, Continue(s, sess[s].wrote))
        PROVE  \E r \in SessionRow : Enter(s, r) /\ Goes(s, r)
    BY <1>2, <2>2, ContinueIs DEF Goes
  <2>3. \E r \in SessionRow : Enter(s, r) /\ Goes(s, r)
    BY <1>5, <2>1, <2>2 DEF Read
  <2> QED
    BY <1>3, <2>3
<1>6. CASE ReadStatus(s)
  <2> DEFINE st == px[sess[s].item.g].status
             r == [sess[s] EXCEPT !.pc = "write", !.item.status = st]
  <2>1. ItemNamed(sess[s].item)
    BY <1>1, <1>6 DEF ReadStatus, Decided
  <2>2. st \in Statuses
    BY <2>1 DEF ItemNamed, Typed, TablesTyped, PxRows, PxRow
  <2>3. Enter(s, r) /\ sess[s].pc = "status"
    BY <1>6 DEF ReadStatus
  <2>4. /\ r \in SessionRow /\ r.pc = "write"
        /\ r.item = [sess[s].item EXCEPT !.status = st]
    <3> HIDE DEF st
    <3> QED
      BY <1>1, <2>2 DEF SessionRow, Items
  <2> QED
    BY <1>3, <2>3, <2>4 DEF Goes
<1>7. CASE Write(s) \/ WriteFails(s)
  <2>1. \E w \in BOOLEAN : Enter(s, Continue(s, w))
    BY <1>2, <1>7 DEF Write, WriteFails
  <2> QED
    BY <1>3, <2>1, ContinueIs DEF Goes
<1> QED
  BY <1>4, <1>5, <1>6, <1>7 DEF Session

\* What a session decides to write is well formed.
LEMMA SessionKeepsTypes ==
  ASSUME Typed, NEW s \in Sessions, Session(s) \/ WriteFails(s)
  PROVE  Typed'
<1>1. sess[s] \in SessionRow /\ (Decided(sess[s]) => ItemNamed(sess[s].item))
  BY DEF Typed, SessionsTyped, ItemsNamed
<1>2. PICK r \in SessionRow : Enter(s, r) /\ Goes(s, r)
  BY SessionStepIs
<1>3. Decided(r) => ItemNamed(r.item)
  <2>1. ASSUME r.item \in Drift PROVE ItemNamed(r.item)
    BY <2>1, DriftIs DEF ItemNamed
  <2>2. ASSUME sess[s].pc = "status",
               r.item = [sess[s].item EXCEPT !.status = px[sess[s].item.g].status]
        PROVE  ItemNamed(r.item)
    BY <1>1, <2>2 DEF Decided, ItemNamed, SessionRow, Items
  <2> QED
    BY <1>2, <2>1, <2>2 DEF Goes
<1>4. SessionsTyped'
  BY <1>2, <1>3, EnterTyped
<1>5. vmi' \in [CsVms -> Vmi]
  <2>1. vmi \in [CsVms -> Vmi]
    BY DEF Typed, WorldTyped
  <2>2. CASE sess[s].pc = "write" /\ vmi' = Updated(sess[s].item)
    <3> DEFINE i == sess[s].item
               new == Placed(i)
    <3>1. ItemNamed(i)
      BY <1>1, <2>2 DEF Decided
    <3>2. new.state \in {"Running", "Stopped"} /\ new.host \in Hosts \cup {None}
      BY <3>1 DEF Placed, ItemNamed
    <3>3. \/ UNCHANGED vmi
          \/ vmi' = [vmi EXCEPT ![i.c].state = new.state, ![i.c].host = new.host]
      BY <2>2 DEF Updated
    <3> HIDE DEF new
    <3> QED
      BY <2>1, <3>1, <3>2, <3>3 DEF Vmi, ItemNamed
  <2>3. CASE UNCHANGED vmi
    BY <2>1, <2>3
  <2> QED
    BY <2>2, <2>3 DEF Session, NextItem, Read, ReadStatus, Write, WriteFails,
       SessionOnly, World
<1>6. UNCHANGED <<guest, mapping, px, cs, ready, sync, req, polled, raced,
               overlap>>
  BY SessionStepIs DEF History
<1> QED
  BY <1>4, <1>5, <1>6 DEF Typed, WorldTyped, TablesTyped, FlagsTyped,
     SyncTyped, RequestsTyped

\* What the commit of a request does to the two tables.
LEMMA RequestCommitIs ==
  ASSUME Typed, NEW p \in Procs, RequestCommit(p)
  PROVE  LET q == req[p]
             link == q.op = "match"
             src == IF link THEN "manual" ELSE ""
         IN /\ q \in RequestRow /\ q.op # "idle" /\ Asked(q) /\ q.g \in Guests
            /\ px' \in PxRows /\ cs' \in CsRows
            /\ \A g \in Guests : /\ px'[g].current = px[g].current
                                 /\ px'[g].node = px[g].node
                                 /\ px'[g].status = px[g].status
                                 /\ g # q.g => px'[g] = px[g]
            /\ \A c \in CsVms : /\ cs'[c].current = cs[c].current
                                /\ cs'[c].host = cs[c].host
                                /\ c # q.c => cs'[c] = cs[c]
            /\ px'[q.g].link = Changed(px[q.g].link, q.px.link,
                                       IF link THEN q.c ELSE None)
            /\ px'[q.g].source = Changed(px[q.g].source, q.px.source, src)
            /\ q.c # None =>
                 /\ cs'[q.c].link = Changed(cs[q.c].link, q.cs.link,
                                            IF link THEN q.g ELSE None)
                 /\ cs'[q.c].source = Changed(cs[q.c].source, q.cs.source, src)
<1> DEFINE q == req[p]
           link == q.op = "match"
           src == IF link THEN "manual" ELSE ""
           pxLink == Changed(px[q.g].link, q.px.link, IF link THEN q.c ELSE None)
           pxSrc == Changed(px[q.g].source, q.px.source, src)
           csLink == Changed(cs[q.c].link, q.cs.link, IF link THEN q.g ELSE None)
           csSrc == Changed(cs[q.c].source, q.cs.source, src)
<1>1. /\ q \in RequestRow /\ q.op # "idle" /\ Asked(q)
      /\ q.g \in Guests /\ q.c \in CsVms \cup {None}
      /\ link => q.c \in CsVms
  BY DEF Typed, RequestsTyped, RequestCommit, Asked, RequestRow
<1>2. px \in PxRows /\ cs \in CsRows /\ px[q.g] \in PxRow
  BY <1>1 DEF Typed, TablesTyped, PxRows
<1>3. px' = [px EXCEPT ![q.g] = [px[q.g] EXCEPT !.link = pxLink,
                                               !.source = pxSrc]]
  BY DEF RequestCommit
<1>4. cs' = IF q.c = None THEN cs
            ELSE [cs EXCEPT ![q.c] = [cs[q.c] EXCEPT !.link = csLink,
                                                    !.source = csSrc]]
  BY DEF RequestCommit
<1>5. pxLink \in CsVms \cup {None} /\ pxSrc \in Sources
  BY <1>1, <1>2 DEF Changed, PxRow, Sources
<1>6. ASSUME q.c # None
      PROVE  csLink \in Guests \cup {None} /\ csSrc \in Sources
             /\ q.c \in CsVms /\ cs[q.c] \in CsRow
  <2>1. q.c \in CsVms /\ cs[q.c] \in CsRow
    BY <1>1, <1>2, <1>6 DEF CsRows
  <2> QED
    BY <1>1, <2>1 DEF Changed, CsRow, Sources
<1> HIDE DEF pxLink, pxSrc, csLink, csSrc, q, link, src
<1>7. /\ px' \in PxRows
      /\ \A g \in Guests : /\ px'[g].current = px[g].current
                           /\ px'[g].node = px[g].node
                           /\ px'[g].status = px[g].status
                           /\ g # q.g => px'[g] = px[g]
      /\ px'[q.g].link = pxLink /\ px'[q.g].source = pxSrc
  <2> DEFINE r == [px[q.g] EXCEPT !.link = pxLink, !.source = pxSrc]
  <2>1. /\ r \in PxRow /\ r.current = px[q.g].current
        /\ r.node = px[q.g].node /\ r.status = px[q.g].status
        /\ r.link = pxLink /\ r.source = pxSrc
    BY <1>2, <1>5 DEF PxRow
  <2>2. px' = [px EXCEPT ![q.g] = r]
    BY <1>3
  <2> HIDE DEF r
  <2> QED
    BY <1>1, <1>2, <2>1, <2>2 DEF PxRows
<1>8. /\ cs' \in CsRows
      /\ \A c \in CsVms : /\ cs'[c].current = cs[c].current
                          /\ cs'[c].host = cs[c].host
                          /\ c # q.c => cs'[c] = cs[c]
      /\ q.c # None => cs'[q.c].link = csLink /\ cs'[q.c].source = csSrc
  <2>1. CASE q.c = None
    BY <1>2, <1>4, <2>1
  <2>2. CASE q.c # None
    <3> DEFINE r == [cs[q.c] EXCEPT !.link = csLink, !.source = csSrc]
    <3>1. /\ r \in CsRow /\ r.current = cs[q.c].current
          /\ r.host = cs[q.c].host
          /\ r.link = csLink /\ r.source = csSrc
      BY <1>6, <2>2 DEF CsRow
    <3>2. cs' = [cs EXCEPT ![q.c] = r]
      BY <1>4, <2>2
    <3> HIDE DEF r
    <3> QED
      BY <1>2, <1>6, <2>2, <3>1, <3>2 DEF CsRows
  <2> QED
    BY <2>1, <2>2
<1> QED
  BY <1>1, <1>7, <1>8 DEF q, link, src, pxLink, pxSrc, csLink, csSrc

\* Requests keep what they have read when links are committed.
LEMMA OutdatedAre ==
  ASSUME Typed
  PROVE  /\ Outdated \in [Procs -> RequestRow]
         /\ \A p \in Procs :
              /\ Asked(Outdated[p]) /\ Outdated[p].op = req[p].op
              /\ Outdated[p].g = req[p].g /\ Outdated[p].c = req[p].c
              /\ Outdated[p].px = req[p].px /\ Outdated[p].cs = req[p].cs
              /\ Outdated[p].op # "idle" => Outdated[p].stale
<1>1. req \in [Procs -> RequestRow] /\ \A p \in Procs : Asked(req[p])
  BY DEF Typed, RequestsTyped
<1>2. ASSUME NEW p \in Procs, NEW r,
             r = IF req[p].op = "idle" THEN req[p]
                 ELSE [req[p] EXCEPT !.stale = TRUE]
      PROVE  /\ r \in RequestRow /\ Asked(r) /\ r.op = req[p].op
             /\ r.g = req[p].g /\ r.c = req[p].c
             /\ r.px = req[p].px /\ r.cs = req[p].cs
             /\ r.op # "idle" => r.stale
  BY <1>1, <1>2 DEF RequestRow, Asked
<1>3. \A p \in Procs :
        Outdated[p] = IF req[p].op = "idle" THEN req[p]
                      ELSE [req[p] EXCEPT !.stale = TRUE]
  BY DEF Outdated
<1>4. Outdated = [p \in Procs |-> Outdated[p]]
  BY DEF Outdated
<1> QED
  BY <1>2, <1>3, <1>4

LEMMA RequestCommitKeepsTypes ==
  ASSUME Typed, NEW p \in Procs, RequestCommit(p)
  PROVE  Typed'
<1>1. px' \in PxRows /\ cs' \in CsRows
  BY RequestCommitIs
<1>2. RequestsTyped'
  <2>1. req' = [Outdated EXCEPT ![p] = NoRequest]
    BY DEF RequestCommit
  <2>2. NoRequest \in RequestRow /\ Asked(NoRequest)
    BY NullsTyped
  <2>3. req' \in [Procs -> RequestRow]
    BY <2>1, <2>2, OutdatedAre
  <2>4. \A r \in Procs : req'[r] = IF r = p THEN NoRequest ELSE Outdated[r]
    BY <2>1, OutdatedAre
  <2>5. \A r \in Procs : Asked(req'[r])
    BY <2>2, <2>4, OutdatedAre
  <2> QED
    BY <2>3, <2>5 DEF RequestsTyped, Asked
<1>3. SyncTyped'
  BY DEF Typed, SyncTyped, SyncRow, RequestCommit
<1>4. raced' \in BOOLEAN
  <2>1. raced \in BOOLEAN /\ req[p].stale \in BOOLEAN
    BY DEF Typed, FlagsTyped, RequestsTyped, RequestRow
  <2> QED
    BY <2>1 DEF RequestCommit
<1> QED
  BY <1>1, <1>2, <1>3, <1>4 DEF RequestCommit, World, Typed,
     WorldTyped, TablesTyped, FlagsTyped, SessionsTyped, ItemsNamed

\* What the commit of match_vms does to the two tables.
LEMMA MatchCommitIs ==
  ASSUME Typed, MatchCommit
  PROVE  LET found == Found(sync.px, sync.cs, sync.maps)
         IN /\ OneToOne(found)
            /\ px' = [g \in Guests |-> MatchedPx(found, g)]
            /\ cs' = [c \in CsVms |-> MatchedCs(found, c)]
            /\ px' \in PxRows /\ cs' \in CsRows
            /\ sync.px \in PxRows /\ sync.cs \in CsRows
            /\ sync.maps \in SUBSET Row
<1> DEFINE found == Found(sync.px, sync.cs, sync.maps)
<1>1. /\ sync.px \in PxRows /\ sync.cs \in CsRows /\ sync.maps \in SUBSET Row
  BY DEF Typed, SyncTyped, SyncRow
<1>2. OneToOne(found)
  BY <1>1, FoundAre DEF OneToOne
<1>3. /\ px' = [g \in Guests |-> MatchedPx(found, g)]
      /\ cs' = [c \in CsVms |-> MatchedCs(found, c)]
  BY DEF MatchCommit
<1> HIDE DEF found
<1>4. px' \in PxRows
  BY <1>2, <1>3, MatchedPxIs DEF PxRows
<1>5. cs' \in CsRows
  BY <1>2, <1>3, MatchedCsIs DEF CsRows
<1> QED
  BY <1>1, <1>2, <1>3, <1>4, <1>5 DEF found

LEMMA MatchCommitKeepsPlaces ==
  ASSUME Typed, MatchCommit
  PROVE  /\ \A g \in Guests : /\ px'[g].current = px[g].current
                              /\ px'[g].node = px[g].node
                              /\ px'[g].status = px[g].status
         /\ \A c \in CsVms : /\ cs'[c].current = cs[c].current
                             /\ cs'[c].host = cs[c].host
<1> DEFINE found == Found(sync.px, sync.cs, sync.maps)
<1>1. /\ OneToOne(found)
      /\ px' = [g \in Guests |-> MatchedPx(found, g)]
      /\ cs' = [c \in CsVms |-> MatchedCs(found, c)]
  BY MatchCommitIs
<1> HIDE DEF found
<1>2. ASSUME NEW g \in Guests
      PROVE  /\ px'[g].current = px[g].current
             /\ px'[g].node = px[g].node
             /\ px'[g].status = px[g].status
  <2>1. px'[g] = MatchedPx(found, g)
    BY <1>1
  <2> QED
    BY <1>1, <2>1, MatchedPxIs
<1>3. ASSUME NEW c \in CsVms
      PROVE  cs'[c].current = cs[c].current /\ cs'[c].host = cs[c].host
  <2>1. cs'[c] = MatchedCs(found, c)
    BY <1>1
  <2> QED
    BY <1>1, <2>1, MatchedCsIs
<1> QED
  BY <1>2, <1>3

LEMMA CycleKeepsTypes ==
  ASSUME Typed, Cycle
  PROVE  Typed'
<1>1. sync \in SyncRow
  BY DEF Typed, SyncTyped
<1>2. CASE StartCycle
  <2>1. sync' \in SyncRow
    BY <1>1, <1>2 DEF StartCycle, At, SyncRow, Phases
  <2> QED
    BY <1>2, <2>1 DEF StartCycle, Typed, World, Rows, History, WorldTyped,
       TablesTyped, FlagsTyped, SyncTyped, SessionsTyped, ItemsNamed,
       RequestsTyped
<1>3. CASE SyncProxmox
  <2>1. sync' \in SyncRow
    BY <1>1, <1>3 DEF SyncProxmox, At, SyncRow, Phases
  <2>2. px' \in PxRows
    BY <1>3, PolledRowsAre DEF SyncProxmox
  <2> QED
    BY <1>3, <2>1, <2>2 DEF SyncProxmox, Typed, World, WorldTyped,
       TablesTyped, FlagsTyped, SyncTyped, SessionsTyped, ItemsNamed,
       RequestsTyped
<1>4. CASE SyncCloudstack
  <2>1. sync' \in SyncRow
    BY <1>1, <1>4 DEF SyncCloudstack, At, SyncRow, Phases
  <2>2. cs' \in CsRows
    BY <1>4, ListedRowsAre DEF SyncCloudstack, PolledCs
  <2>3. ready' \in BOOLEAN
    BY <1>4 DEF SyncCloudstack, CollectionReady
  <2> QED
    BY <1>4, <2>1, <2>2, <2>3 DEF SyncCloudstack, Typed, World, History,
       WorldTyped, TablesTyped, FlagsTyped, SyncTyped, SessionsTyped,
       ItemsNamed, RequestsTyped
<1>5. CASE MatchRead
  <2>1. px \in PxRows /\ cs \in CsRows /\ mapping \subseteq Row
    BY DEF Typed, TablesTyped, WorldTyped
  <2>2. sync' \in SyncRow
    BY <1>1, <1>5, <2>1 DEF MatchRead, SyncRow, Phases
  <2> QED
    BY <1>5, <2>2 DEF MatchRead, Typed, World, Rows, History, WorldTyped,
       TablesTyped, FlagsTyped, SyncTyped, SessionsTyped, ItemsNamed,
       RequestsTyped
<1>6. CASE MatchCommit
  <2>1. sync' \in SyncRow
    BY <1>1, <1>6, RestingTyped DEF MatchCommit, SyncRow, Phases
  <2>2. px' \in PxRows /\ cs' \in CsRows
    BY <1>6, MatchCommitIs
  <2>3. RequestsTyped'
    BY <1>6, OutdatedAre DEF MatchCommit, RequestsTyped, Asked
  <2>4. raced' \in BOOLEAN
    BY <1>1, <1>6 DEF MatchCommit, SyncRow
  <2> QED
    BY <1>6, <2>1, <2>2, <2>3, <2>4 DEF MatchCommit, Typed, World,
       WorldTyped, TablesTyped, FlagsTyped, SyncTyped, SessionsTyped,
       ItemsNamed
<1>7. CASE AutoStart
  <2>1. Listing \in SUBSET Identities
    BY DriftIs DEF Listing
  <2>2. sync' \in SyncRow
    BY <1>1, <1>7, RestingTyped DEF AutoStart, SyncRow, Phases
  <2>3. SessionsTyped'
    <3>1. CASE UNCHANGED sess
      BY <3>1 DEF Typed, SessionsTyped, ItemsNamed
    <3>2. CASE Enter(FullSync, [Idle EXCEPT !.pc = "next", !.todo = Listing])
      <4> DEFINE r == [Idle EXCEPT !.pc = "next", !.todo = Listing]
      <4>1. r \in SessionRow /\ r.pc = "next"
        BY <2>1, NullsTyped DEF SessionRow
      <4> QED
        BY <3>2, <4>1, EnterTyped DEF Decided, Sessions
    <3> QED
      BY <1>7, <3>1, <3>2 DEF AutoStart
  <2> QED
    BY <1>7, <2>2, <2>3 DEF AutoStart, Typed, World, Rows, History,
       WorldTyped, TablesTyped, FlagsTyped, SyncTyped, RequestsTyped
<1>8. CASE AutoSkip
  BY <1>8, RestingTyped DEF AutoSkip, Typed, World, Rows, History,
     WorldTyped, TablesTyped, FlagsTyped, SyncTyped, SessionsTyped,
     ItemsNamed, RequestsTyped
<1>9. CASE AutoEnd
  <2>1. cs' \in CsRows
    <3>1. cs \in CsRows
      BY DEF Typed, TablesTyped
    <3> QED
      BY <1>9, <3>1, ListedRowsAre DEF AutoEnd, PolledCs
  <2>2. SessionsTyped'
    BY <1>9, NullsTyped, EnterTyped DEF AutoEnd, Decided, Sessions, Idle
  <2> QED
    BY <1>9, <2>1, <2>2, RestingTyped DEF AutoEnd, Typed, World, History,
       WorldTyped, TablesTyped, FlagsTyped, SyncTyped, RequestsTyped
<1> QED
  BY <1>2, <1>3, <1>4, <1>5, <1>6, <1>7, <1>8, <1>9 DEF Cycle

LEMMA FaultsKeepTypes ==
  ASSUME Typed, Faults
  PROVE  Typed'
<1>1. sync \in SyncRow
  BY DEF Typed, SyncTyped
<1>2. CASE SyncProxmoxFails
  <2>1. sync' \in SyncRow
    BY <1>1, <1>2 DEF SyncProxmoxFails, SyncRow, Phases
  <2>2. px \in PxRows
    BY DEF Typed, TablesTyped
  <2>3. px' \in PxRows
    BY <1>2, <2>2, PolledRowsAre DEF SyncProxmoxFails
  <2> QED
    BY <1>2, <2>1, <2>3 DEF SyncProxmoxFails, Typed, World, WorldTyped,
       TablesTyped, FlagsTyped, SyncTyped, SessionsTyped, ItemsNamed,
       RequestsTyped
<1>3. CASE SyncCloudstackFails
  <2>1. sync' \in SyncRow
    BY <1>1, <1>3 DEF SyncCloudstackFails, SyncRow, Phases
  <2>2. cs' \in CsRows
    BY <1>3, ListedRowsAre DEF SyncCloudstackFails, PolledCs
  <2> QED
    BY <1>3, <2>1, <2>2 DEF SyncCloudstackFails, Typed, World, History,
       WorldTyped, TablesTyped, FlagsTyped, SyncTyped, SessionsTyped,
       ItemsNamed, RequestsTyped
<1>4. CASE MatchFails
  <2>1. sync' \in SyncRow
    BY <1>1, <1>4, RestingTyped DEF MatchFails, SyncRow, Phases
  <2> QED
    BY <1>4, <2>1 DEF MatchFails, Typed, World, Rows, History, WorldTyped,
       TablesTyped, FlagsTyped, SyncTyped, SessionsTyped, ItemsNamed,
       RequestsTyped
<1>5. CASE Restart
  <2>1. sess' \in [Sessions -> SessionRow]
    BY <1>5, NullsTyped DEF Restart
  <2>2. ItemsNamed'
    BY <1>5 DEF Restart, ItemsNamed, Decided, Idle
  <2>3. RequestsTyped'
    BY <1>5, NullsTyped DEF Restart, RequestsTyped, Asked
  <2> QED
    BY <1>5, <2>1, <2>2, <2>3, RestingTyped DEF Restart, Typed, World, Rows,
       History, WorldTyped, TablesTyped, FlagsTyped, SyncTyped, SessionsTyped
<1>6. ASSUME NEW s \in Sessions, WriteFails(s)
      PROVE  Typed'
  BY <1>6, SessionKeepsTypes
<1>7. ASSUME NEW s \in Sessions, Aborts(s)
      PROVE  Typed'
  <2>1. SessionsTyped'
    BY <1>7, NullsTyped, EnterTyped DEF Aborts, Decided, Idle
  <2>2. sync' \in SyncRow
    BY <1>1, <1>7, RestingTyped DEF Aborts
  <2> QED
    BY <1>7, <2>1, <2>2 DEF Aborts, Typed, World, Rows, History, WorldTyped,
       TablesTyped, FlagsTyped, SyncTyped, RequestsTyped
<1> QED
  BY <1>2, <1>3, <1>4, <1>5, <1>6, <1>7 DEF Faults

\* What the reads of a request establish.
LEMMA AskedIs ==
  ASSUME Typed, NEW p \in Procs, NEW g \in Guests,
         \/ \E c \in CsVms : ManualMatchRead(p, g, c)
         \/ UnmatchRead(p, g)
  PROVE  \E r \in RequestRow :
           /\ req' = [req EXCEPT ![p] = r]
           /\ Asked(r) /\ ~r.stale /\ r.g = g /\ r.px = px[g]
           /\ r.op # "idle"
           /\ r.c # None => r.cs = cs[r.c]
           /\ r.op = "match" =>
                [place |-> px[g].node, host |-> cs[r.c].host]
                  \in UniqueRows(mapping)
<1>1. px[g] \in PxRow /\ cs \in CsRows
  BY DEF Typed, TablesTyped, PxRows
<1>2. ASSUME NEW c \in CsVms, ManualMatchRead(p, g, c)
      PROVE  \E r \in RequestRow :
               /\ req' = [req EXCEPT ![p] = r]
               /\ Asked(r) /\ ~r.stale /\ r.g = g /\ r.px = px[g]
               /\ r.op # "idle"
               /\ r.c # None => r.cs = cs[r.c]
               /\ r.op = "match" =>
                    [place |-> px[g].node, host |-> cs[r.c].host]
                      \in UniqueRows(mapping)
  <2> DEFINE r == [op |-> "match", g |-> g, c |-> c, px |-> px[g],
                   cs |-> cs[c], stale |-> FALSE]
  <2>1. r \in RequestRow
    BY <1>1 DEF RequestRow, CsRows
  <2>2. req' = [req EXCEPT ![p] = r]
    BY <1>2 DEF ManualMatchRead, Ask
  <2>3. /\ VmidOf[c] = VmidOf[g] /\ Unlinked(g, c)
        /\ [place |-> px[g].node, host |-> cs[c].host] \in UniqueRows(mapping)
    BY <1>2 DEF ManualMatchRead
  <2>4. Asked(r)
    BY <2>3 DEF Asked, Unlinked
  <2> QED
    BY <2>1, <2>2, <2>3, <2>4
<1>3. ASSUME UnmatchRead(p, g)
      PROVE  \E r \in RequestRow :
               /\ req' = [req EXCEPT ![p] = r]
               /\ Asked(r) /\ ~r.stale /\ r.g = g /\ r.px = px[g]
               /\ r.op # "idle"
               /\ r.c # None => r.cs = cs[r.c]
               /\ r.op = "match" =>
                    [place |-> px[g].node, host |-> cs[r.c].host]
                      \in UniqueRows(mapping)
  <2> DEFINE seen == IF px[g].link = None THEN NoCs ELSE cs[px[g].link]
             r == [op |-> "unmatch", g |-> g, c |-> px[g].link, px |-> px[g],
                   cs |-> seen, stale |-> FALSE]
  <2>1. px[g].link \in CsVms \cup {None}
    BY <1>1 DEF PxRow
  <2>2. seen \in CsRow
    BY <1>1, <2>1, NullsTyped DEF CsRows
  <2>3. r \in RequestRow
    <3> HIDE DEF seen
    <3> QED
      BY <1>1, <2>1, <2>2 DEF RequestRow
  <2>4. req' = [req EXCEPT ![p] = r]
    BY <1>3 DEF UnmatchRead, Ask
  <2> QED
    BY <2>3, <2>4 DEF Asked
<1> QED
  BY <1>2, <1>3

LEMMA RequestsKeepTypes ==
  ASSUME Typed, Requests
  PROVE  Typed'
<1>1. ASSUME NEW r \in Routes, RouteAll(r) \/ RouteOne(r)
      PROVE  Typed'
  <2>1. Listing \in SUBSET Identities
    BY DriftIs DEF Listing
  <2>2. \E x \in SessionRow : Enter(r, x) /\ ~Decided(x)
    <3>1. CASE RouteAll(r)
      <4> DEFINE x == [Idle EXCEPT !.pc = "next", !.todo = Listing]
      <4>1. x \in SessionRow /\ x.pc = "next"
        BY <2>1, NullsTyped DEF SessionRow
      <4> QED
        BY <3>1, <4>1 DEF RouteAll, Decided
    <3>2. CASE RouteOne(r)
      <4> DEFINE x == [Idle EXCEPT !.pc = "read"]
      <4>1. x \in SessionRow /\ x.pc = "read"
        BY NullsTyped DEF SessionRow
      <4> QED
        BY <3>2, <4>1 DEF RouteOne, Decided
    <3> QED
      BY <1>1, <3>1, <3>2
  <2>3. SessionsTyped'
    BY <2>2, EnterTyped DEF Sessions
  <2> QED
    BY <1>1, <2>3 DEF RouteAll, RouteOne, Typed, World, Rows, History,
       WorldTyped, TablesTyped, FlagsTyped, SyncTyped, RequestsTyped
<1>2. ASSUME NEW p \in Procs, NEW g \in Guests,
             \/ \E c \in CsVms : ManualMatchRead(p, g, c)
             \/ UnmatchRead(p, g)
      PROVE  Typed'
  <2>1. PICK r \in RequestRow : req' = [req EXCEPT ![p] = r] /\ Asked(r)
    BY <1>2, AskedIs
  <2>2. RequestsTyped'
    <3>1. req \in [Procs -> RequestRow] /\ \A q \in Procs : Asked(req[q])
      BY DEF Typed, RequestsTyped
    <3>2. /\ req' \in [Procs -> RequestRow]
          /\ \A q \in Procs : req'[q] = IF q = p THEN r ELSE req[q]
      BY <2>1, <3>1
    <3>3. \A q \in Procs : Asked(req'[q])
      BY <2>1, <3>1, <3>2
    <3> QED
      BY <3>2, <3>3 DEF RequestsTyped, Asked
  <2>3. overlap' \in BOOLEAN
    BY <1>2 DEF ManualMatchRead, UnmatchRead, Ask, Typed, FlagsTyped
  <2> QED
    BY <1>2, <2>2, <2>3 DEF ManualMatchRead, UnmatchRead, Typed, World, Rows,
       History, WorldTyped, TablesTyped, FlagsTyped, SyncTyped, SessionsTyped,
       ItemsNamed
<1> QED
  BY <1>1, <1>2 DEF Requests

LEMMA EnvironmentKeepsTypes ==
  ASSUME Typed, Environment
  PROVE  Typed'
<1>1. /\ guest \in [Guests -> Guest] /\ vmi \in [CsVms -> Vmi]
      /\ mapping \subseteq Row
  BY DEF Typed, WorldTyped
<1>2. UNCHANGED <<px, cs, ready, sync, sess, req, polled, raced, overlap>>
  BY DEF Environment, GuestChanges, CloudStackChanges, CreateMapping,
     DeleteMapping, Changes, Rows, History
<1>3. ASSUME NEW g \in Guests, GuestChanges(g)
      PROVE  WorldTyped'
  <2>1. \/ \E n \in Places \cup {None} : guest' = [guest EXCEPT ![g].node = n]
        \/ \E t \in Statuses : guest' = [guest EXCEPT ![g].status = t]
    BY <1>3 DEF GuestChanges
  <2>2. guest' \in [Guests -> Guest]
    BY <1>1, <2>1 DEF Guest
  <2> QED
    BY <1>2, <1>3, <2>2 DEF GuestChanges, Typed, WorldTyped
<1>4. ASSUME NEW c \in CsVms, CloudStackChanges(c)
      PROVE  WorldTyped'
  <2>1. \/ \E h \in Hosts \cup {None}, t \in {"Running", "Stopped"} :
             vmi' = [vmi EXCEPT ![c].state = t, ![c].host = h]
        \/ vmi' = [vmi EXCEPT ![c].removed = TRUE]
    BY <1>4, PlacementConstants DEF CloudStackChanges
  <2>2. vmi' \in [CsVms -> Vmi]
    <3>1. vmi[c] \in Vmi
      BY <1>1
    <3>2. ASSUME NEW h \in Hosts \cup {None}, NEW t \in {"Running", "Stopped"},
                 vmi' = [vmi EXCEPT ![c].state = t, ![c].host = h]
          PROVE  vmi' \in [CsVms -> Vmi]
      <4> DEFINE r == [vmi[c] EXCEPT !.state = t, !.host = h]
      <4>1. r \in Vmi
        BY <3>1 DEF Vmi
      <4>2. vmi' = [vmi EXCEPT ![c] = r]
        BY <1>1, <3>2
      <4> HIDE DEF r
      <4> QED
        BY <1>1, <4>1, <4>2
    <3>3. CASE vmi' = [vmi EXCEPT ![c].removed = TRUE]
      BY <1>1, <3>1, <3>3 DEF Vmi
    <3> QED
      BY <2>1, <3>2, <3>3
  <2> QED
    BY <1>2, <1>4, <2>2 DEF CloudStackChanges, Typed, WorldTyped
<1>5. ASSUME NEW m \in TrueRows \cup mapping, CreateMapping(m) \/ DeleteMapping(m)
      PROVE  WorldTyped'
  BY <1>1, <1>2, <1>5, TrueRowsTyped DEF CreateMapping, DeleteMapping, Typed,
     WorldTyped
<1>6. WorldTyped'
  BY <1>3, <1>4, <1>5 DEF Environment
<1> QED
  BY <1>2, <1>6 DEF Typed, TablesTyped, FlagsTyped, SyncTyped, SessionsTyped,
     ItemsNamed, RequestsTyped

\* At first every guest runs somewhere in its cluster.
LEMMA StartPlaces ==
  ASSUME Init
  PROVE  /\ guest \in [Guests -> Guest]
         /\ \A g \in Guests : guest[g].node \in Places
         /\ mapping \subseteq Row /\ TrueRows \subseteq mapping
<1>1. PICK start \in Starts :
        /\ guest = [g \in Guests |->
                      [node |-> start.node[g], status |-> "running"]]
        /\ mapping = TrueRows \cup start.rows
  BY DEF Init
<1>2. /\ start.node \in [Guests -> Places]
      /\ start.rows \subseteq [place : Places, host : Hosts]
  BY PlacementConstants
<1>3. \A g \in Guests : start.node[g] \in Places
  BY <1>2
<1>4. \A g \in Guests :
        [node |-> start.node[g], status |-> "running"] \in Guest
  BY <1>3 DEF Guest, Statuses
<1> QED
  BY <1>1, <1>2, <1>3, <1>4, TrueRowsTyped DEF Row

\* And nothing is under way.
LEMMA StartsQuiet ==
  ASSUME Init
  PROVE  /\ sync = Resting /\ ready = FALSE /\ raced = FALSE /\ overlap = FALSE
         /\ sess = [s \in Sessions |-> Idle]
         /\ req = [p \in Procs |-> NoRequest]
         /\ px = [g \in Guests |-> NoPx] /\ cs = [c \in CsVms |-> NoCs]
         /\ polled = guest
  BY DEF Init

LEMMA InitTyped == Init => Typed
<1> SUFFICES ASSUME Init PROVE Typed
  OBVIOUS
<1>1. guest \in [Guests -> Guest]
  BY StartPlaces
<1>2. \A g \in Guests : guest[g].node \in Places
  BY StartPlaces
<1>3. vmi \in [CsVms -> Vmi]
  BY <1>2, PlacementConstants DEF Init, Vmi
<1>4. mapping \subseteq Row
  BY StartPlaces
<1>5. px \in PxRows /\ cs \in CsRows
  BY NullsTyped, StartsQuiet DEF PxRows, CsRows
<1>6. sess \in [Sessions -> SessionRow] /\ ItemsNamed
  <2>1. Idle \in SessionRow /\ Idle.pc = "idle"
    BY NullsTyped DEF Idle
  <2>2. sess = [s \in Sessions |-> Idle]
    BY StartsQuiet
  <2> QED
    BY <2>1, <2>2 DEF ItemsNamed, Decided
<1>7. RequestsTyped
  BY NullsTyped, StartsQuiet DEF RequestsTyped
<1> QED
  BY <1>1, <1>3, <1>4, <1>5, <1>6, <1>7, RestingTyped, StartsQuiet DEF Typed,
     WorldTyped, TablesTyped, FlagsTyped, SyncTyped, SessionsTyped

LEMMA StepKeepsTypes ==
  ASSUME Typed, [Next]_vars
  PROVE  Typed'
<1>1. CASE UNCHANGED vars
  BY <1>1 DEF vars, Typed, WorldTyped, TablesTyped, FlagsTyped, SyncTyped,
     SessionsTyped, ItemsNamed, RequestsTyped
<1> QED
  BY <1>1, CycleKeepsTypes, FaultsKeepTypes, RequestsKeepTypes,
     EnvironmentKeepsTypes, SessionKeepsTypes, RequestCommitKeepsTypes
     DEF Next

\* The types of PTypeOK hold in every reachable state.
THEOREM PlacementTypes == PSpec => []PTypeOK
<1>1. Typed => PTypeOK
  BY DEF Typed, PTypeOK, WorldTyped, TablesTyped, FlagsTyped, SyncTyped,
     SyncRow, SessionsTyped, ItemsNamed, ItemNamed, Decided, RequestsTyped,
     RequestRow, PxRows, CsRows
<1> QED
  BY <1>1, InitTyped, StepKeepsTypes, PTL DEF PSpec

----------------------------------------------------------------------------
(* The cycle writes what Proxmox answered in it.                           *)

\* The columns that a poll of Proxmox writes.
SamePlaces ==
    \A g \in Guests : /\ px'[g].current = px[g].current
                      /\ px'[g].node = px[g].node
                      /\ px'[g].status = px[g].status

\* Steps that leave the cycle and what it relies on alone.
LEMMA AutoFramed ==
  ASSUME Typed, AutoInv, SamePlaces, sync'.pc = sync.pc,
         sync'.failed = sync.failed, UNCHANGED <<ready, polled>>,
         sess'[FullSync] = sess[FullSync]
  PROVE  AutoInv'
<1> DEFINE r == sess[FullSync]
<1>1. Decided(r) => r.item.g \in Guests
  BY DEF Typed, SessionsTyped, ItemsNamed, ItemNamed, Sessions
<1>2. AutoWithinSync' /\ AutoIsReady' /\ FlagIsLate'
  BY DEF AutoInv, AutoWithinSync, AutoIsReady, FlagIsLate
<1>3. RowsWerePolled'
  BY DEF AutoInv, RowsWerePolled, SamePlaces
<1>4. AutoItemPolled'
  BY <1>1 DEF AutoInv, AutoItemPolled, SamePlaces, Decided
<1> QED
  BY <1>2, <1>3, <1>4 DEF AutoInv

\* Steps after which the cycle has nothing decided.
LEMMA AutoUndecided ==
  ASSUME ~Decided(sess'[FullSync])
  PROVE  AutoItemPolled'
  BY DEF AutoItemPolled, Decided

LEMMA AutoSessionStep ==
  ASSUME Typed, AutoInv, NEW s \in Sessions, Session(s) \/ WriteFails(s)
  PROVE  AutoInv'
<1>1. /\ sess \in [Sessions -> SessionRow] /\ FullSync \in Sessions
      /\ Decided(sess[FullSync]) => ItemNamed(sess[FullSync].item)
  BY DEF Typed, SessionsTyped, ItemsNamed, Sessions
<1>2. UNCHANGED <<px, ready, sync, polled>> /\ sess[s].pc # "idle"
  BY SessionStepIs DEF History
<1>3. PICK r \in SessionRow : Enter(s, r) /\ Goes(s, r)
  BY SessionStepIs
<1>4. CASE s # FullSync
  BY <1>1, <1>2, <1>3, <1>4, AutoFramed DEF Enter, SamePlaces
<1>5. CASE s = FullSync
  <2>1. sync.pc = "auto" /\ ready
    BY <1>2, <1>5 DEF AutoInv, AutoWithinSync, AutoIsReady
  <2>2. AutoWithinSync' /\ AutoIsReady' /\ FlagIsLate' /\ RowsWerePolled'
    BY <1>2, <2>1 DEF AutoInv, AutoWithinSync, AutoIsReady, FlagIsLate,
       RowsWerePolled
  <2>3. \A g \in Guests : px[g].current =>
          px[g].node = polled[g].node /\ px[g].status = polled[g].status
    BY <2>1 DEF AutoInv, RowsWerePolled
  <2>4. sess'[FullSync] = r
    BY <1>1, <1>3, <1>5 DEF Enter
  <2>5. AutoItemPolled'
    <3>1. CASE ~Decided(r)
      BY <2>4, <3>1, AutoUndecided
    <3>2. CASE r.item \in Drift
      <4>1. LET i == r.item
            IN /\ i.g \in Guests /\ i.node = px[i.g].node
               /\ i.status = px[i.g].status /\ px[i.g].current
        BY <3>2, DriftIs
      <4> QED
        BY <1>2, <2>3, <2>4, <4>1 DEF AutoItemPolled
    <3>3. CASE /\ sess[s].pc = "status" /\ r.pc = "write"
               /\ r.item = [sess[s].item EXCEPT
                              !.status = px[sess[s].item.g].status]
      <4> DEFINE i == sess[FullSync].item
      <4>1. i \in Items /\ i.g \in Guests
        BY <1>1, <1>5, <3>3 DEF Decided, ItemNamed, SessionRow
      <4>2. px[i.g].current /\ i.node = polled[i.g].node
        BY <1>5, <3>3 DEF AutoInv, AutoItemPolled
      <4>3. r.item.g = i.g /\ r.item.node = i.node /\ r.item.status = px[i.g].status
        BY <1>5, <3>3, <4>1 DEF Items
      <4> QED
        BY <1>2, <2>3, <2>4, <4>1, <4>2, <4>3 DEF AutoItemPolled
    <3> QED
      BY <1>3, <3>1, <3>2, <3>3 DEF Goes
  <2> QED
    BY <2>2, <2>5 DEF AutoInv
<1> QED
  BY <1>4, <1>5

LEMMA CycleKeepsAuto ==
  ASSUME Typed, AutoInv, Cycle
  PROVE  AutoInv'
<1>1. sync \in SyncRow /\ sess \in [Sessions -> SessionRow] /\ FullSync \in Sessions
  BY DEF Typed, SyncTyped, SessionsTyped, Sessions
<1>2. Resting.pc = "idle"
  BY DEF Resting
<1>3. sync.pc # "auto" => sess[FullSync].pc = "idle"
  BY DEF AutoInv, AutoWithinSync
<1>4. CASE StartCycle
  <2>1. sync'.pc = "proxmox" /\ ~ready' /\ sess'[FullSync].pc = "idle"
    BY <1>1, <1>3, <1>4 DEF StartCycle, At, SyncRow
  <2> QED
    BY <2>1, AutoUndecided DEF AutoInv, AutoWithinSync, AutoIsReady, FlagIsLate,
       RowsWerePolled, Decided
<1>5. CASE SyncProxmox
  <2>1. /\ sync.pc = "proxmox" /\ sync'.pc = "cloudstack"
        /\ ~ready /\ ready' = ready /\ sess'[FullSync].pc = "idle"
    BY <1>1, <1>3, <1>5 DEF SyncProxmox, At, SyncRow, AutoInv, FlagIsLate
  <2>2. px' = PolledRows({}) /\ polled' = guest
    BY <1>5 DEF SyncProxmox
  <2>3. RowsWerePolled'
    BY <2>2, PolledRowsAre DEF RowsWerePolled
  <2> QED
    BY <2>1, <2>3, AutoUndecided DEF AutoInv, AutoWithinSync, AutoIsReady,
       FlagIsLate, Decided
<1>6. CASE SyncCloudstack
  <2>1. /\ sync.pc = "cloudstack" /\ sync'.pc = "match"
        /\ ready' = ~sync.failed /\ sess'[FullSync].pc = "idle"
        /\ UNCHANGED <<px, polled>>
    BY <1>1, <1>3, <1>6 DEF SyncCloudstack, At, SyncRow, CollectionReady, History
  <2>2. RowsWerePolled'
    BY <2>1 DEF AutoInv, RowsWerePolled
  <2> QED
    BY <2>1, <2>2, AutoUndecided DEF AutoInv, AutoWithinSync, AutoIsReady,
       FlagIsLate, Decided
<1>7. CASE MatchRead
  <2>1. /\ sync.pc = "match" /\ sync'.pc = "commit" /\ sess'[FullSync].pc = "idle"
        /\ UNCHANGED <<px, polled, ready>>
    BY <1>1, <1>3, <1>7 DEF MatchRead, SyncRow, World, Rows, History
  <2>2. RowsWerePolled'
    BY <2>1 DEF AutoInv, RowsWerePolled
  <2> QED
    BY <2>1, <2>2, AutoUndecided DEF AutoInv, AutoWithinSync, AutoIsReady,
       FlagIsLate, Decided
<1>8. CASE MatchCommit
  <2>1. /\ sync.pc = "commit" /\ sync'.pc = "reconcile"
        /\ sess'[FullSync].pc = "idle" /\ UNCHANGED <<polled, ready>>
    BY <1>1, <1>3, <1>8, RestingTyped DEF MatchCommit, SyncRow
  <2>2. SamePlaces
    BY <1>8, MatchCommitKeepsPlaces DEF SamePlaces
  <2>3. RowsWerePolled'
    BY <2>1, <2>2 DEF AutoInv, RowsWerePolled, SamePlaces
  <2> QED
    BY <2>1, <2>3, AutoUndecided DEF AutoInv, AutoWithinSync, AutoIsReady,
       FlagIsLate, Decided
<1>9. CASE AutoStart
  <2>1. /\ sync.pc = "reconcile" /\ sess[FullSync].pc = "idle"
        /\ UNCHANGED <<px, polled, ready>>
    BY <1>3, <1>9 DEF AutoStart, World, Rows, History
  <2>2. RowsWerePolled' \/ sync'.pc \notin {"idle", "auto"}
    BY <2>1, <1>9, <1>1, <1>2, RestingTyped DEF AutoInv, RowsWerePolled, AutoStart, SyncRow
  <2>3. CASE Listing = {}
    <3>1. sync' = Resting /\ sess' = sess
      BY <1>9, <2>3 DEF AutoStart
    <3> QED
      BY <1>2, <2>1, <2>2, <3>1, AutoUndecided DEF AutoInv, AutoWithinSync,
         AutoIsReady, FlagIsLate, Decided
  <2>4. CASE Listing # {}
    <3>1. ready
      BY <2>4 DEF Listing
    <3>2. /\ sync' = [sync EXCEPT !.pc = "auto"]
          /\ sess' = [sess EXCEPT ![FullSync] =
                        [Idle EXCEPT !.pc = "next", !.todo = Listing]]
      BY <1>9, <2>4 DEF AutoStart, Enter
    <3>3. sync'.pc = "auto" /\ sess'[FullSync].pc = "next"
      BY <1>1, <3>2, NullsTyped DEF SyncRow, SessionRow
    <3> QED
      BY <2>1, <2>2, <3>1, <3>3, AutoUndecided DEF AutoInv, AutoWithinSync,
         AutoIsReady, FlagIsLate, Decided
  <2> QED
    BY <2>3, <2>4
<1>10. CASE AutoSkip \/ AutoEnd
  <2>1. /\ sync'.pc = "idle" /\ UNCHANGED <<px, polled, ready>>
        /\ sess'[FullSync].pc = "idle"
    BY <1>1, <1>2, <1>3, <1>10 DEF AutoSkip, AutoEnd, Enter, Idle, World, Rows,
       History
  <2>2. RowsWerePolled'
    BY <2>1 DEF AutoInv, RowsWerePolled
  <2> QED
    BY <2>1, <2>2, AutoUndecided DEF AutoInv, AutoWithinSync, AutoIsReady,
       FlagIsLate, Decided
<1> QED
  BY <1>4, <1>5, <1>6, <1>7, <1>8, <1>9, <1>10 DEF Cycle

LEMMA StepKeepsAuto ==
  ASSUME Typed, AutoInv, [Next]_vars
  PROVE  AutoInv'
<1>1. /\ sync \in SyncRow /\ sess \in [Sessions -> SessionRow]
      /\ FullSync \in Sessions
  BY DEF Typed, SyncTyped, SessionsTyped, Sessions
<1>2. Resting.pc = "idle" /\ Idle.pc = "idle"
  BY DEF Resting, Idle
<1>3. sync.pc # "auto" => sess[FullSync].pc = "idle"
  BY DEF AutoInv, AutoWithinSync
<1>4. CASE SyncProxmoxFails
  <2>1. /\ sync.pc = "proxmox" /\ sync'.pc = "cloudstack" /\ sync'.failed
        /\ ~ready /\ ready' = ready /\ sess'[FullSync].pc = "idle"
    BY <1>1, <1>3, <1>4 DEF SyncProxmoxFails, SyncRow, AutoInv, FlagIsLate
  <2> QED
    BY <2>1, AutoUndecided DEF AutoInv, AutoWithinSync, AutoIsReady, FlagIsLate,
       RowsWerePolled, Decided
<1>5. CASE SyncCloudstackFails
  <2>1. /\ sync.pc = "cloudstack" /\ sync'.pc = "match"
        /\ ~ready /\ ready' = ready /\ sess'[FullSync].pc = "idle"
    BY <1>1, <1>3, <1>5 DEF SyncCloudstackFails, SyncRow, AutoInv, FlagIsLate
  <2> QED
    BY <2>1, AutoUndecided DEF AutoInv, AutoWithinSync, AutoIsReady, FlagIsLate,
       RowsWerePolled, Decided
<1>6. CASE MatchFails
  <2>1. /\ sync.pc = "commit" /\ sync'.pc = "reconcile"
        /\ sess'[FullSync].pc = "idle" /\ UNCHANGED <<px, polled, ready>>
    BY <1>1, <1>3, <1>6, RestingTyped DEF MatchFails, SyncRow, World, Rows,
       History
  <2>2. RowsWerePolled'
    BY <2>1 DEF AutoInv, RowsWerePolled
  <2> QED
    BY <2>1, <2>2, AutoUndecided DEF AutoInv, AutoWithinSync, AutoIsReady,
       FlagIsLate, Decided
<1>7. CASE Restart
  <2>1. sync'.pc = "idle" /\ ~ready' /\ sess'[FullSync].pc = "idle"
    BY <1>1, <1>2, <1>7 DEF Restart
  <2> QED
    BY <2>1, AutoUndecided DEF AutoInv, AutoWithinSync, AutoIsReady, FlagIsLate,
       RowsWerePolled, Decided
<1>8. ASSUME NEW s \in Sessions, Aborts(s)
      PROVE  AutoInv'
  <2>1. CASE s = FullSync
    <3>1. /\ sync'.pc = "idle" /\ sess'[FullSync].pc = "idle"
          /\ UNCHANGED <<px, polled, ready>> /\ sync.pc = "auto" /\ ready
      BY <1>1, <1>2, <1>3, <1>8, <2>1 DEF Aborts, Enter, World, Rows, History,
         AutoInv, AutoIsReady
    <3>2. RowsWerePolled'
      BY <3>1 DEF AutoInv, RowsWerePolled
    <3> QED
      BY <3>1, <3>2, AutoUndecided DEF AutoInv, AutoWithinSync, AutoIsReady,
         FlagIsLate, Decided
  <2>2. CASE s # FullSync
    <3>1. UNCHANGED <<px, polled, ready, sync>>
          /\ sess'[FullSync] = sess[FullSync]
      BY <1>1, <1>8, <2>2 DEF Aborts, Enter, World, Rows, History
    <3> QED
      BY <3>1, AutoFramed DEF SamePlaces
  <2> QED
    BY <2>1, <2>2
<1>9. ASSUME Requests \/ Environment \/ UNCHANGED vars
      PROVE  AutoInv'
  <2>1. UNCHANGED <<px, polled, ready, sync>>
    BY <1>9 DEF Requests, Environment, RouteAll, RouteOne, UnmatchRead,
       ManualMatchRead, GuestChanges, CloudStackChanges, CreateMapping,
       DeleteMapping, Changes, World, Rows, History, vars
  <2>2. sess' = sess \/ \E r \in Routes : \E x : sess' = [sess EXCEPT ![r] = x]
    BY <1>9 DEF Requests, Environment, RouteAll, RouteOne, UnmatchRead,
       ManualMatchRead, GuestChanges, CloudStackChanges, CreateMapping,
       DeleteMapping, Changes, Enter, vars
  <2>3. sess'[FullSync] = sess[FullSync]
    BY <1>1, <2>2, PlacementConstants
  <2> QED
    BY <2>1, <2>3, AutoFramed DEF SamePlaces
<1>10. ASSUME NEW p \in Procs, RequestCommit(p)
       PROVE  AutoInv'
  <2>1. SamePlaces
    BY <1>10, RequestCommitIs DEF SamePlaces
  <2>2. /\ UNCHANGED <<polled, ready, sess>>
        /\ sync'.pc = sync.pc /\ sync'.failed = sync.failed
    BY <1>1, <1>10 DEF RequestCommit, SyncRow
  <2> QED
    BY <2>1, <2>2, AutoFramed
<1> QED
  BY <1>4, <1>5, <1>6, <1>7, <1>8, <1>9, <1>10, AutoSessionStep,
     CycleKeepsAuto DEF Next, Faults

\* What the cycle is about to write is what Proxmox answered in it.
THEOREM CycleWritesWhatWasPolled == PSpec => []AutoWritesWhatWasPolled
<1>1. Init => Typed /\ AutoInv
  BY InitTyped, StartsQuiet DEF AutoInv, AutoWithinSync, AutoIsReady,
     FlagIsLate, RowsWerePolled, AutoItemPolled, Resting, Idle, Sessions
<1>2. Typed /\ AutoInv /\ [Next]_vars => (Typed /\ AutoInv)'
  BY StepKeepsTypes, StepKeepsAuto
<1>3. Typed /\ AutoInv => AutoWritesWhatWasPolled
  <2> SUFFICES ASSUME Typed, AutoInv, sess[FullSync].pc = "write"
               PROVE  LET i == sess[FullSync].item
                      IN [node |-> i.node, status |-> i.status] = polled[i.g]
    BY DEF AutoWritesWhatWasPolled
  <2> DEFINE i == sess[FullSync].item
  <2>1. i.g \in Guests
    BY DEF Typed, SessionsTyped, ItemsNamed, ItemNamed, Decided, Sessions
  <2>2. polled[i.g] \in Guest
    BY <2>1 DEF Typed, WorldTyped
  <2>3. i.node = polled[i.g].node /\ i.status = polled[i.g].status
    BY DEF AutoInv, AutoItemPolled
  <2> QED
    BY <2>2, <2>3 DEF Guest
<1> QED
  BY <1>1, <1>2, <1>3, PTL DEF PSpec

----------------------------------------------------------------------------
(* Links agree unless commits raced, and established pairs are kept.       *)

\* The links that the commit of match_vms leaves behind.
LEMMA MatchCommitLinks ==
  ASSUME Typed, MatchCommit
  PROVE  LET found == Found(sync.px, sync.cs, sync.maps)
         IN /\ \A f \in found :
                 /\ px'[f.g].link = f.c /\ px'[f.g].source = f.source
                 /\ cs'[f.c].link = f.g /\ cs'[f.c].source = f.source
            /\ \A g \in Guests :
                 \/ \E f \in found : f.g = g
                 \/ /\ px'[g].link = Cleared(px[g].link, sync.px[g].link, None)
                    /\ px'[g].source = Cleared(px[g].source,
                                               sync.px[g].source, "")
            /\ \A c \in CsVms :
                 \/ \E f \in found : f.c = c
                 \/ /\ cs'[c].link = Cleared(cs[c].link, sync.cs[c].link, None)
                    /\ cs'[c].source = Cleared(cs[c].source,
                                               sync.cs[c].source, "")
<1> DEFINE found == Found(sync.px, sync.cs, sync.maps)
<1>1. /\ OneToOne(found)
      /\ px' = [g \in Guests |-> MatchedPx(found, g)]
      /\ cs' = [c \in CsVms |-> MatchedCs(found, c)]
  BY MatchCommitIs
<1> HIDE DEF found
<1>2. \A f \in found : f.g \in Guests /\ f.c \in CsVms
  BY <1>1 DEF OneToOne, FoundPair
<1>3. \A g \in Guests :
        /\ \A f \in found : f.g = g =>
             px'[g].link = f.c /\ px'[g].source = f.source
        /\ (\A f \in found : f.g # g) =>
             /\ px'[g].link = Cleared(px[g].link, sync.px[g].link, None)
             /\ px'[g].source = Cleared(px[g].source, sync.px[g].source, "")
  <2> SUFFICES ASSUME NEW g \in Guests
               PROVE  /\ \A f \in found : f.g = g =>
                           px'[g].link = f.c /\ px'[g].source = f.source
                      /\ (\A f \in found : f.g # g) =>
                           /\ px'[g].link = Cleared(px[g].link,
                                                    sync.px[g].link, None)
                           /\ px'[g].source = Cleared(px[g].source,
                                                      sync.px[g].source, "")
    OBVIOUS
  <2>1. px'[g] = MatchedPx(found, g)
    BY <1>1
  <2> QED
    BY <1>1, <2>1, MatchedPxIs
<1>4. \A c \in CsVms :
        /\ \A f \in found : f.c = c =>
             cs'[c].link = f.g /\ cs'[c].source = f.source
        /\ (\A f \in found : f.c # c) =>
             /\ cs'[c].link = Cleared(cs[c].link, sync.cs[c].link, None)
             /\ cs'[c].source = Cleared(cs[c].source, sync.cs[c].source, "")
  <2> SUFFICES ASSUME NEW c \in CsVms
               PROVE  /\ \A f \in found : f.c = c =>
                           cs'[c].link = f.g /\ cs'[c].source = f.source
                      /\ (\A f \in found : f.c # c) =>
                           /\ cs'[c].link = Cleared(cs[c].link,
                                                    sync.cs[c].link, None)
                           /\ cs'[c].source = Cleared(cs[c].source,
                                                      sync.cs[c].source, "")
    OBVIOUS
  <2>1. cs'[c] = MatchedCs(found, c)
    BY <1>1
  <2> QED
    BY <1>1, <2>1, MatchedCsIs
<1> QED
  BY <1>2, <1>3, <1>4 DEF found

SameLinks ==
    /\ \A g \in Guests : SameLink(px'[g], px[g])
    /\ \A c \in CsVms : SameLink(cs'[c], cs[c])

\* Steps that keep the links.
LEMMA LinksFramed ==
  ASSUME Typed, LinkInv, SameLinks, raced' = raced,
         \A p \in Procs : req'[p] = req[p] \/ req'[p].op = "idle",
         sync'.pc = "commit" /\ ~sync'.stale =>
           sync'.px = px' /\ sync'.cs = cs'
  PROVE  LinkInv'
<1>1. /\ \A g \in Guests : px[g].link \in CsVms \cup {None}
      /\ \A c \in CsVms : cs[c].link \in Guests \cup {None}
  BY DEF Typed, TablesTyped, PxRows, PxRow, CsRows, CsRow
<1>2. \A p \in Procs : req[p].op # "idle" =>
        req[p].g \in Guests /\ req[p].c \in CsVms \cup {None}
  BY DEF Typed, RequestsTyped, RequestRow, Asked
<1>3. ReadsAreCurrent'
  <2>1. ASSUME NEW p \in Procs PROVE RequestIsCurrent(req[p])'
    BY <1>2 DEF LinkInv, ReadsAreCurrent, RequestIsCurrent, SameLinks, SameLink
  <2> QED
    BY <2>1 DEF ReadsAreCurrent
<1>4. LinksHaveVmids'
  BY DEF LinkInv, LinksHaveVmids, SameLinks, SameLink
<1>5. LinksAgreeUnlessRaced'
  BY <1>1 DEF LinkInv, LinksAgreeUnlessRaced, LinksAgree, SameLinks, SameLink
<1> QED
  BY <1>3, <1>4, <1>5 DEF LinkInv

\* What match_vms commits agrees, whatever was there before, if nothing was
\* committed since it read.
LEMMA MatchCommitKeepsLinks ==
  ASSUME Typed, LinkInv, MatchCommit
  PROVE  LinkInv'
<1> DEFINE found == Found(sync.px, sync.cs, sync.maps)
<1>1. /\ sync.pc = "commit" /\ raced' = sync.stale /\ req' = Outdated
      /\ sync'.pc = "reconcile"
  BY RestingTyped DEF MatchCommit, SyncRow
<1>2. OneToOne(found)
  BY MatchCommitIs
<1>3. /\ \A f \in found :
           /\ px'[f.g].link = f.c /\ px'[f.g].source = f.source
           /\ cs'[f.c].link = f.g /\ cs'[f.c].source = f.source
      /\ \A g \in Guests :
           \/ \E f \in found : f.g = g
           \/ px'[g].link = Cleared(px[g].link, sync.px[g].link, None)
      /\ \A c \in CsVms :
           \/ \E f \in found : f.c = c
           \/ cs'[c].link = Cleared(cs[c].link, sync.cs[c].link, None)
  BY MatchCommitLinks
<1> HIDE DEF found
<1>4. ReadsAreCurrent'
  <2>1. \A p \in Procs : req'[p].op # "idle" => req'[p].stale
    BY <1>1, OutdatedAre
  <2> QED
    BY <1>1, <2>1 DEF ReadsAreCurrent, RequestIsCurrent
<1>5. LinksHaveVmids'
  BY <1>2, <1>3 DEF LinkInv, LinksHaveVmids, OneToOne, FoundPair, Cleared
<1>6. LinksAgreeUnlessRaced'
  <2> SUFFICES ASSUME ~sync.stale PROVE LinksAgree'
    BY <1>1 DEF LinksAgreeUnlessRaced
  <2>1. sync.px = px /\ sync.cs = cs
    BY <1>1 DEF LinkInv, ReadsAreCurrent
  <2>2. /\ \A g \in Guests : px'[g].link # None => \E f \in found : f.g = g
        /\ \A c \in CsVms : cs'[c].link # None => \E f \in found : f.c = c
    BY <1>3, <2>1 DEF Cleared
  <2> QED
    BY <1>2, <1>3, <2>2 DEF LinksAgree, OneToOne, FoundPair
<1> QED
  BY <1>4, <1>5, <1>6 DEF LinkInv

\* So does what a request commits, if nothing was committed since its reads.
LEMMA RequestCommitKeepsLinks ==
  ASSUME Typed, LinkInv, NEW p \in Procs, RequestCommit(p)
  PROVE  LinkInv'
<1> DEFINE q == req[p]
           link == q.op = "match"
           src == IF link THEN "manual" ELSE ""
<1>1. /\ q \in RequestRow /\ q.op # "idle" /\ Asked(q) /\ q.g \in Guests
      /\ \A g \in Guests : g # q.g => px'[g] = px[g]
      /\ \A c \in CsVms : c # q.c => cs'[c] = cs[c]
      /\ px'[q.g].link = Changed(px[q.g].link, q.px.link,
                                 IF link THEN q.c ELSE None)
      /\ px'[q.g].source = Changed(px[q.g].source, q.px.source, src)
      /\ q.c # None =>
           /\ cs'[q.c].link = Changed(cs[q.c].link, q.cs.link,
                                      IF link THEN q.g ELSE None)
           /\ cs'[q.c].source = Changed(cs[q.c].source, q.cs.source, src)
  BY RequestCommitIs
<1>2. /\ req' = [Outdated EXCEPT ![p] = NoRequest]
      /\ raced' = (raced \/ q.stale)
      /\ sync' = IF sync.pc = "commit" THEN [sync EXCEPT !.stale = TRUE] ELSE sync
  BY DEF RequestCommit
<1>3. /\ \A g \in Guests : px[g].link \in CsVms \cup {None}
      /\ \A c \in CsVms : cs[c].link \in Guests \cup {None}
      /\ q.c \in CsVms \cup {None} /\ q.op \in {"match", "unmatch"}
      /\ None \notin Guests \cup CsVms
  BY <1>1, PlacementConstants DEF Typed, TablesTyped, PxRows, PxRow, CsRows,
     CsRow, RequestRow
<1>4. RequestIsCurrent(q)
  BY DEF LinkInv, ReadsAreCurrent
<1> HIDE DEF q
<1>5. ReadsAreCurrent'
  <2>1. \A r \in Procs : req'[r].op # "idle" => req'[r].stale
    <3>1. \A r \in Procs : req'[r] = IF r = p THEN NoRequest ELSE Outdated[r]
      BY <1>2, OutdatedAre
    <3> QED
      BY <3>1, OutdatedAre DEF NoRequest
  <2>2. sync'.pc = "commit" => sync'.stale
    BY <1>2 DEF Typed, SyncTyped, SyncRow
  <2> QED
    BY <2>1, <2>2 DEF ReadsAreCurrent, RequestIsCurrent
<1>6. LinksHaveVmids'
  <2>1. px'[q.g].link # None => VmidOf[px'[q.g].link] = VmidOf[q.g]
    BY <1>1, <1>3 DEF LinkInv, LinksHaveVmids, Changed, Asked
  <2> QED
    BY <1>1, <2>1 DEF LinkInv, LinksHaveVmids
<1>7. LinksAgreeUnlessRaced'
  <2> SUFFICES ASSUME ~raced, ~q.stale PROVE LinksAgree'
    BY <1>1, <1>2 DEF LinksAgreeUnlessRaced, RequestRow
  <2>1. LinksAgree
    BY DEF LinkInv, LinksAgreeUnlessRaced
  <2>2. /\ px[q.g].link = q.px.link /\ px[q.g].source = q.px.source
        /\ q.c # None => cs[q.c].link = q.cs.link /\ cs[q.c].source = q.cs.source
    BY <1>1, <1>4 DEF RequestIsCurrent, SameLink
  <2>3. /\ px'[q.g].link = (IF link THEN q.c ELSE None) /\ px'[q.g].source = src
        /\ q.c # None => /\ cs'[q.c].link = (IF link THEN q.g ELSE None)
                         /\ cs'[q.c].source = src
    BY <1>1, <2>2 DEF Changed
  <2>4. CASE link
    <3>1. /\ q.c \in CsVms /\ px[q.g].link \in {None, q.c}
          /\ cs[q.c].link \in {None, q.g}
      BY <1>1, <1>3, <2>2, <2>4 DEF Asked
    <3> QED
      BY <1>1, <1>3, <2>1, <2>3, <2>4, <3>1 DEF LinksAgree
  <2>5. CASE ~link
    <3>1. q.c = px[q.g].link
      BY <1>1, <1>3, <2>2, <2>5 DEF Asked
    <3>2. px'[q.g].link = None /\ (q.c # None => cs'[q.c].link = None)
      BY <2>3, <2>5
    <3>3. \A g \in Guests : g # q.g => px'[g] = px[g]
      BY <1>1
    <3>4. \A c \in CsVms : c # q.c => cs'[c] = cs[c]
      BY <1>1
    <3>5. q.c # None => cs[q.c].link = q.g
      BY <1>1, <2>1, <3>1 DEF LinksAgree
    <3>6. ASSUME NEW g \in Guests, px'[g].link # None
          PROVE  g # q.g /\ px'[g] = px[g] /\ px[g].link # q.c
      <4>1. g # q.g /\ px'[g] = px[g]
        BY <3>2, <3>3, <3>6
      <4>2. cs[px[g].link].link = g
        BY <2>1, <3>6, <4>1 DEF LinksAgree
      <4> QED
        BY <3>5, <3>6, <4>1, <4>2
    <3>7. ASSUME NEW c \in CsVms, cs'[c].link # None
          PROVE  c # q.c /\ cs'[c] = cs[c] /\ cs[c].link # q.g
      <4>1. c # q.c /\ cs'[c] = cs[c]
        BY <1>3, <3>2, <3>4, <3>7
      <4>2. px[cs[c].link].link = c
        BY <2>1, <3>7, <4>1 DEF LinksAgree
      <4> QED
        BY <3>1, <4>1, <4>2
    <3> QED
      BY <1>3, <2>1, <3>3, <3>4, <3>6, <3>7 DEF LinksAgree
  <2> QED
    BY <2>4, <2>5
<1> QED
  BY <1>5, <1>6, <1>7 DEF LinkInv


\* What is left: polls, which keep links, and reads, which copy them.
LEMMA StepKeepsLinks ==
  ASSUME Typed, LinkInv, [Next]_vars
  PROVE  LinkInv'
<1>1. sync \in SyncRow /\ Resting.pc = "idle" /\ NoRequest.op = "idle"
  BY DEF Typed, SyncTyped, Resting, NoRequest
<1>2. CASE MatchCommit
  BY <1>2, MatchCommitKeepsLinks
<1>3. ASSUME NEW p \in Procs, RequestCommit(p)
      PROVE  LinkInv'
  BY <1>3, RequestCommitKeepsLinks
<1>4. CASE MatchRead
  <2>1. sync'.px = px' /\ sync'.cs = cs' /\ UNCHANGED <<px, cs, raced, req>>
    BY <1>1, <1>4 DEF MatchRead, SyncRow, World, Rows, History
  <2> QED
    BY <2>1, LinksFramed DEF SameLinks, SameLink
<1>5. CASE SyncProxmox \/ SyncProxmoxFails
  <2>1. /\ UNCHANGED <<cs, raced, req>> /\ sync'.pc = "cloudstack"
        /\ px' = px \/ \E missed : px' = PolledRows(missed)
    BY <1>1, <1>5 DEF SyncProxmox, SyncProxmoxFails, At, SyncRow
  <2>2. SameLinks
    BY <2>1, PolledRowsAre DEF SameLinks, SameLink
  <2> QED
    BY <2>1, <2>2, LinksFramed
<1>6. CASE SyncCloudstack \/ SyncCloudstackFails \/ AutoEnd
  <2>1. /\ UNCHANGED <<px, raced, req>> /\ sync'.pc # "commit"
        /\ cs' = cs \/ cs' = ListedRows \/ cs' = StaleRows
    BY <1>1, <1>6 DEF SyncCloudstack, SyncCloudstackFails, AutoEnd, At, SyncRow,
       History
  <2>2. SameLinks
    BY <2>1, ListedRowsAre DEF SameLinks, SameLink, PolledCs
  <2> QED
    BY <2>1, <2>2, LinksFramed
<1>7. CASE StartCycle \/ AutoStart \/ AutoSkip \/ MatchFails \/ Restart
  <2>1. /\ UNCHANGED <<px, cs, raced>> /\ sync'.pc # "commit"
    <3>1. CASE AutoStart
      <4>1. sync' = Resting \/ sync' = [sync EXCEPT !.pc = "auto"]
        BY <3>1 DEF AutoStart
      <4> QED
        BY <1>1, <3>1, <4>1 DEF AutoStart, SyncRow, Rows, History
    <3>2. CASE StartCycle \/ AutoSkip
      BY <1>1, <3>2 DEF StartCycle, AutoSkip, At, SyncRow, Rows, History
    <3>3. CASE MatchFails
      BY <3>3, RestingTyped DEF MatchFails, SyncRow, Rows, History
    <3>4. CASE Restart
      BY <1>1, <3>4 DEF Restart, Rows, History
    <3> QED
      BY <1>7, <3>1, <3>2, <3>3, <3>4
  <2>2. \A p \in Procs : req'[p] = req[p] \/ req'[p].op = "idle"
    BY <1>1, <1>7 DEF StartCycle, AutoStart, AutoSkip, MatchFails, Restart
  <2> QED
    BY <2>1, <2>2, LinksFramed DEF SameLinks, SameLink
<1>8. ASSUME NEW s \in Sessions, Session(s) \/ WriteFails(s) \/ Aborts(s)
      PROVE  LinkInv'
  <2>1. /\ UNCHANGED <<px, cs, raced, req>>
        /\ sync' = sync \/ sync'.pc = "idle"
    BY <1>1, <1>8, SessionStepIs DEF Aborts, World, Rows, History
  <2>2. sync'.pc = "commit" /\ ~sync'.stale => sync'.px = px' /\ sync'.cs = cs'
    BY <2>1 DEF LinkInv, ReadsAreCurrent
  <2> QED
    BY <2>1, <2>2, LinksFramed DEF SameLinks, SameLink
<1>9. ASSUME \/ \E r \in Routes : RouteAll(r) \/ RouteOne(r)
             \/ Environment
             \/ UNCHANGED vars
      PROVE  LinkInv'
  <2>1. UNCHANGED <<px, cs, raced, req, sync>>
    BY <1>9 DEF RouteAll, RouteOne, Environment, GuestChanges,
       CloudStackChanges, CreateMapping, DeleteMapping, Changes, World, Rows,
       History, vars
  <2>2. sync'.pc = "commit" /\ ~sync'.stale => sync'.px = px' /\ sync'.cs = cs'
    BY <2>1 DEF LinkInv, ReadsAreCurrent
  <2> QED
    BY <2>1, <2>2, LinksFramed DEF SameLinks, SameLink
<1>10. ASSUME NEW p \in Procs, NEW g \in Guests,
              \/ \E c \in CsVms : ManualMatchRead(p, g, c)
              \/ UnmatchRead(p, g)
       PROVE  LinkInv'
  <2>1. PICK r \in RequestRow :
          /\ req' = [req EXCEPT ![p] = r]
          /\ Asked(r) /\ ~r.stale /\ r.g = g /\ r.px = px[g]
          /\ r.op # "idle"
          /\ r.c # None => r.cs = cs[r.c]
          /\ r.op = "match" =>
               [place |-> px[g].node, host |-> cs[r.c].host]
                 \in UniqueRows(mapping)
    BY <1>10, AskedIs
  <2>2. UNCHANGED <<px, cs, raced, sync>>
    BY <1>10 DEF ManualMatchRead, UnmatchRead, World, Rows, History
  <2>3. \A q \in Procs : req'[q] = IF q = p THEN r ELSE req[q]
    BY <2>1 DEF Typed, RequestsTyped
  <2>4. RequestIsCurrent(r)'
    BY <2>1, <2>2 DEF RequestIsCurrent, SameLink
  <2>5. \A q \in Procs : RequestIsCurrent(req[q])'
    <3> SUFFICES ASSUME NEW q \in Procs PROVE RequestIsCurrent(req[q])'
      OBVIOUS
    <3>1. CASE q = p
      BY <2>3, <2>4, <3>1 DEF RequestIsCurrent, SameLink
    <3>2. CASE q # p
      BY <2>2, <2>3, <3>2 DEF LinkInv, ReadsAreCurrent, RequestIsCurrent,
         SameLink
    <3> QED
      BY <3>1, <3>2
  <2>6. ReadsAreCurrent'
    BY <2>2, <2>5 DEF LinkInv, ReadsAreCurrent
  <2> QED
    BY <2>2, <2>6 DEF LinkInv, LinksHaveVmids, LinksAgreeUnlessRaced, LinksAgree
<1> QED
  BY <1>2, <1>3, <1>4, <1>5, <1>6, <1>7, <1>8, <1>9, <1>10 DEF Next, Cycle,
     Faults, Requests

LEMMA InitLinks == Init => LinkInv
<1> SUFFICES ASSUME Init PROVE LinkInv
  OBVIOUS
<1>1. sync.pc = "idle" /\ \A p \in Procs : req[p].op = "idle"
  BY DEF Init, Resting, NoRequest
<1>2. /\ \A g \in Guests : px[g].link = None
      /\ \A c \in CsVms : cs[c].link = None
  BY DEF Init, NoPx, NoCs
<1> QED
  BY <1>1, <1>2 DEF LinkInv, ReadsAreCurrent, RequestIsCurrent, LinksHaveVmids,
     LinksAgreeUnlessRaced, LinksAgree

\* Links are mutual and agree on their source, unless a commit was overtaken by
\* another one.
THEOREM LinksStayMutual == PSpec => []LinksAgreeUnlessRaced
<1>1. Typed /\ LinkInv /\ [Next]_vars => (Typed /\ LinkInv)'
  BY StepKeepsTypes, StepKeepsLinks
<1> QED
  BY <1>1, InitTyped, InitLinks, PTL DEF PSpec, LinkInv

\* An established pair, as EstablishedPairIsKept means it.
Established(g, c) ==
    /\ px[g].link = c /\ cs[c].link = g
    /\ px[g].source = cs[c].source /\ px[g].source \in Durables
    /\ px[g].current /\ cs[c].current
    /\ MappedPlace(sync.maps, px[g].node)
    /\ MappedHost(sync.maps, cs[c].host)

\* The steps from the snapshot to the reconciliation commit or roll back.
LEMMA CommitEnds ==
  ASSUME Typed, [Next]_vars, sync.pc = "commit", sync'.pc = "reconcile"
  PROVE  MatchCommit \/ UNCHANGED <<px, cs>>
<1>1. sync \in SyncRow /\ Resting.pc = "idle"
  BY DEF Typed, SyncTyped, Resting
<1>2. sync' # sync
  OBVIOUS
<1>3. ~Cycle \/ MatchCommit
  BY <1>1 DEF Cycle, StartCycle, SyncProxmox, SyncCloudstack, MatchRead,
     AutoStart, AutoSkip, AutoEnd, At
<1>4. ~Faults \/ UNCHANGED <<px, cs>>
  <2>1. ~SyncProxmoxFails /\ ~SyncCloudstackFails
    BY DEF SyncProxmoxFails, SyncCloudstackFails
  <2>2. MatchFails \/ Restart => UNCHANGED <<px, cs>>
    BY DEF MatchFails, Restart, Rows
  <2>3. \A s \in Sessions : WriteFails(s) \/ Aborts(s) => UNCHANGED <<px, cs>>
    BY DEF WriteFails, Aborts, Rows
  <2> QED
    BY <2>1, <2>2, <2>3 DEF Faults
<1>5. ~Requests /\ ~Environment
  BY <1>2 DEF Requests, Environment, RouteAll, RouteOne, UnmatchRead,
     ManualMatchRead, GuestChanges, CloudStackChanges, CreateMapping,
     DeleteMapping, Changes
<1>6. \A s \in Sessions : ~Session(s)
  BY <1>2, SessionStepIs
<1>7. \A p \in Procs : ~RequestCommit(p)
  BY <1>1 DEF RequestCommit, SyncRow
<1> QED
  BY <1>2, <1>3, <1>4, <1>5, <1>6, <1>7 DEF Next, vars

LEMMA EstablishedStays ==
  ASSUME Typed, LinkInv, [Next]_vars, sync.pc = "commit",
         sync'.pc = "reconcile", ~sync.stale,
         NEW g \in Guests, NEW c \in CsVms, Established(g, c)
  PROVE  px'[g].link = c /\ cs'[c].link = g
<1>1. CASE MatchCommit
  <2> DEFINE found == Found(sync.px, sync.cs, sync.maps)
             f == Pair(g, c, sync.px[g].source)
  <2>1. sync.px = px /\ sync.cs = cs
    BY DEF LinkInv, ReadsAreCurrent
  <2>2. VmidOf[c] = VmidOf[g]
    BY PlacementConstants DEF LinkInv, LinksHaveVmids, Established
  <2>3. Relationship(g, c, sync.px, sync.cs, sync.maps)
    BY <2>1, <2>2 DEF Relationship, Established
  <2>4. /\ sync.px \in PxRows /\ sync.cs \in CsRows /\ sync.maps \in SUBSET Row
    BY <1>1, MatchCommitIs
  <2>5. f \in found
    BY <2>3, <2>4, KeptAre, FoundAre
  <2>6. f.g = g /\ f.c = c
    BY DEF Pair
  <2>7. \A h \in found : px'[h.g].link = h.c /\ cs'[h.c].link = h.g
    BY <1>1, MatchCommitLinks
  <2> HIDE DEF f, found
  <2> QED
    BY <2>5, <2>6, <2>7
<1>2. CASE UNCHANGED <<px, cs>>
  BY <1>2 DEF Established
<1> QED
  BY <1>1, <1>2, CommitEnds

\* An established pair that both polls have seen and whose two placements are
\* mapped stays linked across a migration.
THEOREM EstablishedPairsStay == PSpec => EstablishedPairIsKept
<1> DEFINE Keeps ==
      (sync.pc = "commit" /\ sync'.pc = "reconcile" /\ ~sync.stale) =>
        \A g \in Guests, c \in CsVms :
          Established(g, c) => px'[g].link = c /\ cs'[c].link = g
<1>1. Typed /\ LinkInv /\ [Next]_vars => [Keeps]_vars
  BY EstablishedStays
<1>2. Typed /\ LinkInv /\ [Next]_vars => (Typed /\ LinkInv)'
  BY StepKeepsTypes, StepKeepsLinks
<1>3. PSpec => [][Keeps]_vars
  <2> HIDE DEF Keeps
  <2> QED
    BY <1>1, <1>2, InitTyped, InitLinks, PTL DEF PSpec
<1> QED
  BY <1>3 DEF EstablishedPairIsKept, Established

----------------------------------------------------------------------------
(* What is written to a VM is about the guest it stands for.               *)

LEMMA UniqueAreTrue ==
  ASSUME NEW maps \in SUBSET Row, Sound(maps)
  PROVE  UniqueRows(maps) \subseteq TrueRows
<1>1. CASE maps \subseteq TrueRows
  BY <1>1 DEF UniqueRows
<1>2. CASE TrueRows \subseteq maps
  <2> SUFFICES ASSUME NEW m \in UniqueRows(maps), m \notin TrueRows
               PROVE  FALSE
    OBVIOUS
  <2> DEFINE n == [place |-> m.place, host |-> HostAt[m.place]]
  <2>1. m \in maps /\ m.place \in Places
    BY DEF UniqueRows, Row
  <2>2. n \in TrueRows /\ n.place = m.place
    BY <2>1, TrueRowsTyped
  <2>3. n \in maps \ {m}
    BY <1>2, <2>2
  <2> QED
    BY <2>2, <2>3 DEF UniqueRows
<1> QED
  BY <1>1, <1>2 DEF Sound

\* The VMID of a place in the cluster of the VM is that of one guest only.
LEMMA TruePairIsHome ==
  ASSUME NEW maps \in SUBSET Row, Sound(maps),
         NEW g \in Guests, NEW c \in CsVms, VmidOf[c] = VmidOf[g],
         NEW n, NEW h, OwnPlace(g, n), OwnHost(c, h),
         [place |-> n, host |-> h] \in UniqueRows(maps)
  PROVE  Home[c] = g
<1>1. [place |-> n, host |-> h] \in TrueRows
  BY UniqueAreTrue
<1>2. n \in Places /\ h = HostAt[n]
  BY <1>1, TrueRowsTyped
<1>3. n # None /\ h # None
  BY <1>2, PlacementConstants
<1>4. ClusterOf[n] = ClusterOf[g]
  BY <1>3 DEF OwnPlace
<1>5. PICK p \in Places : HostAt[p] = h /\ ClusterOf[p] = ClusterOf[Home[c]]
  BY <1>3 DEF OwnHost
<1>6. ClusterOf[n] = ClusterOf[p]
  BY <1>2, <1>5, PlacementIdentity
<1>7. Home[c] \in Guests /\ VmidOf[Home[c]] = VmidOf[g]
  BY PlacementConstants, PlacementIdentity
<1>8. ClusterOf[Home[c]] = ClusterOf[g]
  BY <1>4, <1>5, <1>6
<1> QED
  BY <1>7, <1>8, PlacementIdentity

\* What match_vms finds by host, or keeps, is home; by name it may not be.
LEMMA FoundAreHome ==
  ASSUME NEW pxs \in PxRows, NEW css \in CsRows, NEW maps \in SUBSET Row,
         Sound(maps), OwnPlaces(pxs), OwnHosts(css), DurableAreHome(pxs, css),
         NEW f \in Found(pxs, css, maps)
  PROVE  f.source = "name" \/ Home[f.c] = f.g
<1>1. /\ f.g \in Guests /\ f.c \in CsVms /\ VmidOf[f.c] = VmidOf[f.g]
      /\ \/ f \in Kept(pxs, css, maps)
         \/ f.source = "name"
         \/ [place |-> pxs[f.g].node, host |-> css[f.c].host]
               \in UniqueRows(maps)
  BY FoundAre DEF FoundPair
<1>2. CASE f \in Kept(pxs, css, maps)
  <2>1. Relationship(f.g, f.c, pxs, css, maps)
    BY <1>2, KeptAre
  <2>2. /\ Mutual(pxs, css, f.g, f.c)
        /\ pxs[f.g].source = css[f.c].source /\ pxs[f.g].source \in Durables
    BY <1>1, <2>1, RelationshipIs
  <2> QED
    BY <1>1, <2>2 DEF DurableAreHome
<1>3. CASE [place |-> pxs[f.g].node, host |-> css[f.c].host]
             \in UniqueRows(maps)
  <2>1. OwnPlace(f.g, pxs[f.g].node) /\ OwnHost(f.c, css[f.c].host)
    BY <1>1 DEF OwnPlaces, OwnHosts
  <2> QED
    BY <1>1, <1>3, <2>1, TruePairIsHome
<1> QED
  BY <1>1, <1>2, <1>3

LEMMA DriftIsHome ==
  ASSUME Typed, HomeInv, NEW i \in Drift
  PROVE  Home[i.c] = i.g /\ OwnHost(i.c, i.target)
<1>1. /\ i.g \in Guests /\ i.c \in CsVms
      /\ Relationship(i.g, i.c, px, cs, mapping)
      /\ i.target = HostOf(mapping, px[i.g].node)
  BY DriftIs
<1>2. px \in PxRows /\ cs \in CsRows /\ mapping \in SUBSET Row
  BY DEF Typed, TablesTyped, WorldTyped
<1>3. /\ Mutual(px, cs, i.g, i.c)
      /\ px[i.g].source = cs[i.c].source /\ px[i.g].source \in Durables
      /\ px[i.g].node \in Places /\ MappedPlace(mapping, px[i.g].node)
  BY <1>1, <1>2, RelationshipIs
<1>4. Home[i.c] = i.g
  BY <1>1, <1>3 DEF HomeInv, DurableAreHome
<1>5. PICK m \in UniqueRows(mapping) : m.place = px[i.g].node /\ m.host = i.target
  BY <1>1, <1>2, <1>3, MappedTyped
<1>6. m \in TrueRows
  BY <1>2, <1>5, UniqueAreTrue DEF HomeInv, MappingsSound
<1>7. HostAt[px[i.g].node] = i.target
  BY <1>5, <1>6, TrueRowsTyped
<1>8. ClusterOf[px[i.g].node] = ClusterOf[i.g]
  BY <1>1, <1>3, PlacementConstants DEF HomeInv, InOwnCluster, OwnPlaces, OwnPlace
<1> QED
  BY <1>3, <1>4, <1>7, <1>8 DEF OwnHost

\* Steps on the two tables: the commits of links, and all others, whose rows
\* have the places and hosts of before or of Proxmox and CloudStack.
LEMMA RowsFollow ==
  ASSUME Typed, [Next]_vars
  PROVE  /\ MatchCommit \/ (\E p \in Procs : RequestCommit(p)) \/ SameLinks
         /\ \A g \in Guests : px'[g].node \in {px[g].node, guest[g].node}
         /\ \A c \in CsVms : cs'[c].host \in {cs[c].host, vmi[c].host}
<1> DEFINE Good ==
      /\ MatchCommit \/ (\E p \in Procs : RequestCommit(p)) \/ SameLinks
      /\ \A g \in Guests : px'[g].node \in {px[g].node, guest[g].node}
      /\ \A c \in CsVms : cs'[c].host \in {cs[c].host, vmi[c].host}
<1> SUFFICES Good
  OBVIOUS
<1>1. CASE MatchCommit
  BY <1>1, MatchCommitKeepsPlaces
<1>2. ASSUME NEW p \in Procs, RequestCommit(p)
      PROVE  Good
  BY <1>2, RequestCommitIs
<1>3. CASE SyncProxmox \/ SyncProxmoxFails
  <2>1. UNCHANGED cs /\ (px' = px \/ \E missed : px' = PolledRows(missed))
    BY <1>3 DEF SyncProxmox, SyncProxmoxFails
  <2>2. CASE px' = px
    BY <2>1, <2>2 DEF SameLinks, SameLink
  <2>3. ASSUME NEW missed, px' = PolledRows(missed)
        PROVE  Good
    BY <2>1, <2>3, PolledRowsAre DEF SameLinks, SameLink
  <2> QED
    BY <2>1, <2>2, <2>3
<1>4. CASE SyncCloudstack \/ SyncCloudstackFails \/ AutoEnd
  <2>1. UNCHANGED px /\ (cs' = cs \/ cs' = ListedRows \/ cs' = StaleRows)
    BY <1>4 DEF SyncCloudstack, SyncCloudstackFails, AutoEnd
  <2> QED
    BY <2>1, ListedRowsAre DEF SameLinks, SameLink, PolledCs
<1>5. ASSUME UNCHANGED <<px, cs>>
      PROVE  Good
  BY <1>5 DEF SameLinks, SameLink
<1>6. ASSUME \/ StartCycle \/ MatchRead \/ AutoStart \/ AutoSkip \/ MatchFails
             \/ Restart \/ Requests \/ Environment \/ UNCHANGED vars
             \/ \E s \in Sessions : Session(s) \/ WriteFails(s) \/ Aborts(s)
      PROVE  UNCHANGED <<px, cs>>
  BY <1>6, SessionStepIs DEF StartCycle, MatchRead, AutoStart, AutoSkip,
     MatchFails, Restart, Requests, Environment, RouteAll, RouteOne,
     UnmatchRead, ManualMatchRead, GuestChanges, CloudStackChanges,
     CreateMapping, DeleteMapping, Changes, Aborts, Rows, vars
<1> QED
  <2> HIDE DEF Good
  <2> QED
    BY <1>1, <1>2, <1>3, <1>4, <1>5, <1>6 DEF Next, Cycle, Faults

\* What match_vms has read: kept, read anew, or forgotten.
LEMMA SnapshotsFollow ==
  ASSUME Typed, [Next]_vars
  PROVE  \/ /\ sync'.px = sync.px /\ sync'.cs = sync.cs /\ sync'.maps = sync.maps
            /\ sync'.pc = "commit" => sync.pc = "commit"
         \/ /\ sync'.px = px /\ sync'.cs = cs /\ sync'.maps = mapping
            /\ MatchRead
         \/ /\ sync'.px = Resting.px /\ sync'.cs = Resting.cs
            /\ sync'.maps = Resting.maps /\ sync'.pc # "commit"
<1> DEFINE Kept1 == /\ sync'.px = sync.px /\ sync'.cs = sync.cs
                    /\ sync'.maps = sync.maps
                    /\ sync'.pc = "commit" => sync.pc = "commit"
           Gone == /\ sync'.px = Resting.px /\ sync'.cs = Resting.cs
                   /\ sync'.maps = Resting.maps /\ sync'.pc # "commit"
<1>1. sync \in SyncRow /\ Resting \in SyncRow /\ Resting.pc = "idle"
  BY RestingTyped DEF Typed, SyncTyped, Resting
<1>2. CASE MatchRead
  BY <1>1, <1>2 DEF MatchRead, SyncRow
<1>3. CASE MatchCommit \/ MatchFails
  BY <1>1, <1>3 DEF MatchCommit, MatchFails, SyncRow
<1>4. ASSUME sync' = Resting
      PROVE  Gone
  BY <1>1, <1>4
<1>5. ASSUME sync' = sync
      PROVE  Kept1
  BY <1>5
<1>6. CASE StartCycle \/ SyncProxmox \/ SyncCloudstack
  BY <1>1, <1>6 DEF StartCycle, SyncProxmox, SyncCloudstack, At, SyncRow
<1>7. CASE SyncProxmoxFails \/ SyncCloudstackFails
  BY <1>1, <1>7 DEF SyncProxmoxFails, SyncCloudstackFails, SyncRow
<1>8. CASE AutoStart
  <2>1. sync' = Resting \/ sync' = [sync EXCEPT !.pc = "auto"]
    BY <1>8 DEF AutoStart
  <2>2. ASSUME sync' = [sync EXCEPT !.pc = "auto"]
        PROVE  Kept1
    BY <1>1, <2>2 DEF SyncRow
  <2> QED
    BY <1>4, <2>1, <2>2
<1>9. ASSUME NEW p \in Procs, RequestCommit(p)
      PROVE  Kept1
  BY <1>1, <1>9 DEF RequestCommit, SyncRow
<1>10. ASSUME \/ AutoSkip \/ AutoEnd \/ Restart \/ Requests \/ Environment
              \/ UNCHANGED vars
              \/ \E s \in Sessions : Session(s) \/ WriteFails(s) \/ Aborts(s)
       PROVE  sync' = sync \/ sync' = Resting
  BY <1>10, SessionStepIs DEF AutoSkip, AutoEnd, Restart, Requests,
     Environment, RouteAll, RouteOne, UnmatchRead, ManualMatchRead,
     GuestChanges, CloudStackChanges, CreateMapping, DeleteMapping, Changes,
     Aborts, vars
<1> QED
  <2>1. \/ Kept1 \/ Gone
        \/ MatchRead \/ MatchCommit \/ MatchFails \/ StartCycle \/ SyncProxmox
        \/ SyncCloudstack \/ SyncProxmoxFails \/ SyncCloudstackFails \/ AutoStart
    <3> HIDE DEF Kept1, Gone
    <3> QED
      BY <1>4, <1>5, <1>9, <1>10 DEF Next, Cycle, Faults
  <2> QED
    BY <1>2, <1>3, <1>6, <1>7, <1>8, <2>1

\* Guests stay in their clusters, and Proxmox's rows say so.
LEMMA ClustersStay ==
  ASSUME Typed, HomeInv, [Next]_vars
  PROVE  InOwnCluster' /\ MappingsSound'
<1>1. /\ guest \in [Guests -> Guest] /\ vmi \in [CsVms -> Vmi]
      /\ InOwnCluster /\ MappingsSound
  BY DEF Typed, WorldTyped, HomeInv
<1>2. OwnPlaces(guest)'
  <2>1. CASE UNCHANGED guest
    BY <1>1, <2>1 DEF InOwnCluster, OwnPlaces
  <2>2. ASSUME NEW g \in Guests, GuestChanges(g)
        PROVE  OwnPlaces(guest)'
    <3>1. \/ \E n \in Places \cup {None} :
               /\ n # None => ClusterOf[n] = ClusterOf[g]
               /\ guest' = [guest EXCEPT ![g].node = n]
          \/ \E t \in Statuses : guest' = [guest EXCEPT ![g].status = t]
      BY <2>2 DEF GuestChanges
    <3>2. \A h \in Guests : guest'[h].node = guest[h].node \/ h = g
      BY <1>1, <3>1
    <3>3. OwnPlace(g, guest'[g].node)
      <4>1. guest[g] \in Guest /\ OwnPlace(g, guest[g].node)
        BY <1>1 DEF InOwnCluster, OwnPlaces
      <4>2. ASSUME NEW n \in Places \cup {None},
                   n # None => ClusterOf[n] = ClusterOf[g],
                   guest' = [guest EXCEPT ![g].node = n]
            PROVE  OwnPlace(g, guest'[g].node)
        BY <1>1, <4>1, <4>2 DEF Guest, OwnPlace
      <4>3. ASSUME NEW t \in Statuses, guest' = [guest EXCEPT ![g].status = t]
            PROVE  OwnPlace(g, guest'[g].node)
        BY <1>1, <4>1, <4>3 DEF Guest
      <4> QED
        BY <3>1, <4>2, <4>3
    <3> QED
      BY <1>1, <3>2, <3>3 DEF InOwnCluster, OwnPlaces
  <2>3. UNCHANGED guest \/ \E g \in Guests : GuestChanges(g)
    BY SessionStepIs DEF Next, Cycle, Faults, Requests, Environment, StartCycle,
       SyncProxmox, SyncCloudstack, MatchRead, MatchCommit, AutoStart, AutoSkip,
       AutoEnd, SyncProxmoxFails, SyncCloudstackFails, MatchFails, Restart,
       Aborts, RouteAll, RouteOne, UnmatchRead, ManualMatchRead, RequestCommit,
       CloudStackChanges, CreateMapping, DeleteMapping, World, vars
  <2> QED
    BY <2>1, <2>2, <2>3
<1>3. OwnHosts(vmi)'
  <2>1. CASE UNCHANGED vmi
    BY <1>1, <2>1 DEF InOwnCluster, OwnHosts
  <2>2. ASSUME NEW c \in CsVms, CloudStackChanges(c)
        PROVE  OwnHosts(vmi)'
    <3>1. vmi[c] \in Vmi /\ OwnHost(c, vmi[c].host)
      BY <1>1 DEF InOwnCluster, OwnHosts
    <3>2. \E h, t : /\ OwnHost(c, h)
                    /\ \/ vmi' = [vmi EXCEPT ![c].state = t, ![c].host = h]
                       \/ vmi' = [vmi EXCEPT ![c].removed = TRUE]
      <4>1. ASSUME NEW p \in Places, ClusterOf[p] = ClusterOf[Home[c]]
            PROVE  OwnHost(c, HostAt[p])
        BY <4>1 DEF OwnHost
      <4>2. OwnHost(c, None)
        BY DEF OwnHost
      <4> QED
        BY <2>2, <4>1, <4>2 DEF CloudStackChanges
    <3>3. PICK h, t : /\ OwnHost(c, h)
                      /\ \/ vmi' = [vmi EXCEPT ![c].state = t, ![c].host = h]
                         \/ vmi' = [vmi EXCEPT ![c].removed = TRUE]
      BY <3>2
    <3>4. \A d \in CsVms : vmi'[d].host = IF d = c THEN vmi'[c].host
                                          ELSE vmi[d].host
      BY <1>1, <3>3
    <3>5. vmi'[c].host \in {h, vmi[c].host}
      BY <1>1, <3>1, <3>3 DEF Vmi
    <3> QED
      BY <1>1, <3>1, <3>3, <3>4, <3>5 DEF InOwnCluster, OwnHosts
  <2>3. ASSUME NEW s \in Sessions,
               sess[s].pc = "write", vmi' = Updated(sess[s].item)
        PROVE  OwnHosts(vmi)'
    <3> DEFINE i == sess[s].item
               new == Placed(i)
    <3>1. Decided(sess[s])
      BY <2>3 DEF Decided
    <3>2. i.c \in CsVms /\ OwnHost(i.c, i.target)
      BY <3>1 DEF Typed, SessionsTyped, ItemsNamed, ItemNamed, HomeInv,
         ItemsAreHome, Decided
    <3>3. new.host \in {i.target, None}
      BY DEF Placed
    <3>4. OwnHost(i.c, new.host)
      BY <3>2, <3>3 DEF OwnHost
    <3>5. vmi' = vmi \/ vmi' = [vmi EXCEPT ![i.c].state = new.state,
                                          ![i.c].host = new.host]
      BY <2>3 DEF Updated
    <3> HIDE DEF new, i
    <3>6. vmi[i.c] \in Vmi
      BY <1>1, <3>2
    <3>7. \A d \in CsVms : vmi'[d].host \in {vmi[d].host, new.host}
                           /\ (d # i.c => vmi'[d].host = vmi[d].host)
      BY <1>1, <3>2, <3>5, <3>6 DEF Vmi
    <3> QED
      BY <1>1, <3>2, <3>4, <3>7 DEF InOwnCluster, OwnHosts
  <2>4. \/ UNCHANGED vmi
        \/ \E c \in CsVms : CloudStackChanges(c)
        \/ \E s \in Sessions :
             sess[s].pc = "write" /\ vmi' = Updated(sess[s].item)
    BY DEF Next, Cycle, Faults, Requests, Environment, StartCycle, SyncProxmox,
       SyncCloudstack, MatchRead, MatchCommit, AutoStart, AutoSkip, AutoEnd,
       SyncProxmoxFails, SyncCloudstackFails, MatchFails, Restart, Aborts,
       Write, WriteFails, Session, NextItem, Read, ReadStatus, SessionOnly,
       RouteAll, RouteOne, UnmatchRead, ManualMatchRead, RequestCommit,
       GuestChanges, CreateMapping, DeleteMapping, World, vars
  <2> QED
    BY <2>1, <2>2, <2>3, <2>4
<1>4. OwnPlaces(px)' /\ OwnHosts(cs)'
  <2>1. /\ \A g \in Guests : px'[g].node \in {px[g].node, guest[g].node}
        /\ \A c \in CsVms : cs'[c].host \in {cs[c].host, vmi[c].host}
    BY RowsFollow
  <2> QED
    BY <1>1, <2>1 DEF InOwnCluster, OwnPlaces, OwnHosts
<1>5. OwnPlaces(sync.px)' /\ OwnHosts(sync.cs)' /\ Sound(sync.maps)'
  <2>1. /\ \A g \in Guests : Resting.px[g].node = None
        /\ \A c \in CsVms : Resting.cs[c].host = None
        /\ Resting.maps = {}
    BY DEF Resting, NoPx, NoCs
  <2>2. OwnPlaces(Resting.px) /\ OwnHosts(Resting.cs) /\ Sound(Resting.maps)
    BY <2>1 DEF OwnPlaces, OwnPlace, OwnHosts, OwnHost, Sound
  <2>3. /\ OwnPlaces(px) /\ OwnHosts(cs) /\ Sound(mapping)
        /\ OwnPlaces(sync.px) /\ OwnHosts(sync.cs) /\ Sound(sync.maps)
    BY <1>1 DEF InOwnCluster, MappingsSound
  <2>4. OwnPlaces(sync'.px) /\ OwnHosts(sync'.cs) /\ Sound(sync'.maps)
    BY <2>2, <2>3, SnapshotsFollow
  <2> QED
    BY <2>4 DEF OwnPlaces, OwnHosts, Sound
<1>6. Sound(mapping)'
  <2>1. CASE UNCHANGED mapping
    BY <1>1, <2>1 DEF MappingsSound, Sound
  <2>2. ASSUME NEW m \in TrueRows, CreateMapping(m)
        PROVE  Sound(mapping')
    BY <1>1, <2>2 DEF CreateMapping, MappingsSound, Sound
  <2>3. ASSUME NEW m \in mapping, DeleteMapping(m)
        PROVE  Sound(mapping')
    BY <1>1, <2>3 DEF DeleteMapping, MappingsSound, Sound
  <2>4. \/ UNCHANGED mapping
        \/ \E m \in TrueRows : CreateMapping(m)
        \/ \E m \in mapping : DeleteMapping(m)
    BY SessionStepIs DEF Next, Cycle, Faults, Requests, Environment, StartCycle,
       SyncProxmox, SyncCloudstack, MatchRead, MatchCommit, AutoStart, AutoSkip,
       AutoEnd, SyncProxmoxFails, SyncCloudstackFails, MatchFails, Restart,
       Aborts, RouteAll, RouteOne, UnmatchRead, ManualMatchRead, RequestCommit,
       GuestChanges, CloudStackChanges, World, vars
  <2>5. Sound(mapping')
    BY <2>1, <2>2, <2>3, <2>4 DEF Sound
  <2> QED
    BY <2>5 DEF Sound
<1> QED
  BY <1>2, <1>3, <1>4, <1>5, <1>6 DEF InOwnCluster, MappingsSound

\* What match_vms commits links strangers by name only.
LEMMA MatchCommitLinksHome ==
  ASSUME Typed, HomeInv, MatchCommit,
         NEW g \in Guests, NEW c \in CsVms,
         px'[g].link = c, cs'[c].link = g, Home[c] # g
  PROVE  px'[g].source = "name" /\ cs'[c].source = "name"
<1> DEFINE found == Found(sync.px, sync.cs, sync.maps)
<1>1. \A f \in found : f.source = "name" \/ Home[f.c] = f.g
  BY MatchCommitIs, FoundAreHome DEF HomeInv, InOwnCluster, MappingsSound
<1>2. /\ \A f \in found :
           /\ px'[f.g].link = f.c /\ px'[f.g].source = f.source
           /\ cs'[f.c].link = f.g /\ cs'[f.c].source = f.source
      /\ \A h \in Guests :
           \/ \E f \in found : f.g = h
           \/ px'[h].link = Cleared(px[h].link, sync.px[h].link, None)
  BY MatchCommitLinks
<1> HIDE DEF found
<1>3. CASE \E f \in found : f.g = g
  BY <1>1, <1>2, <1>3
<1>4. CASE px'[g].link = Cleared(px[g].link, sync.px[g].link, None)
  <2>1. sync.px[g].link = None /\ px[g].link = c
    BY <1>4, PlacementConstants DEF Cleared
  <2>2. sync.pc = "commit"
    BY DEF MatchCommit
  <2> QED
    BY <2>1, <2>2 DEF HomeInv, LinkedSinceAreHome
<1> QED
  BY <1>2, <1>3, <1>4

\* What a request commits makes no pair of strangers pass for durable.
LEMMA RequestCommitLinksHome ==
  ASSUME Typed, LinkInv, HomeInv, NEW p \in Procs, RequestCommit(p),
         NEW g \in Guests, NEW c \in CsVms,
         px'[g].link = c, cs'[c].link = g,
         px'[g].source = cs'[c].source, px'[g].source \in Durables
  PROVE  Home[c] = g
<1> DEFINE q == req[p]
           link == q.op = "match"
           src == IF link THEN "manual" ELSE ""
<1>1. /\ q \in RequestRow /\ q.op # "idle" /\ Asked(q) /\ q.g \in Guests
      /\ (g # q.g => px'[g] = px[g]) /\ (c # q.c => cs'[c] = cs[c])
      /\ px'[q.g].link = Changed(px[q.g].link, q.px.link,
                                 IF link THEN q.c ELSE None)
      /\ px'[q.g].source = Changed(px[q.g].source, q.px.source, src)
      /\ q.c # None =>
           /\ cs'[q.c].link = Changed(cs[q.c].link, q.cs.link,
                                      IF link THEN q.g ELSE None)
           /\ cs'[q.c].source = Changed(cs[q.c].source, q.cs.source, src)
  BY RequestCommitIs
<1>2. RequestIsCurrent(q)
  BY DEF LinkInv, ReadsAreCurrent
<1>3. link => Home[q.c] = q.g
  BY DEF HomeInv, MatchIsHome
<1>4. q.stale /\ Mutual(px, cs, g, c) /\ Home[c] # g =>
        px[g].source \notin Durables /\ cs[c].source \notin Durables
  BY <1>1 DEF HomeInv, MixedAreNames
<1>5. /\ Mutual(px, cs, g, c) /\ px[g].source = cs[c].source
      /\ px[g].source \in Durables
      => Home[c] = g
  BY DEF HomeInv, DurableAreHome
<1>6. None \notin Guests \cup CsVms /\ "" \notin Durables
      /\ q.op \in {"match", "unmatch"} /\ q.stale \in BOOLEAN
  BY <1>1, PlacementConstants DEF Durables, RequestRow
<1> HIDE DEF q
<1>7. CASE g = q.g /\ c = q.c
  <2>1. CASE link
    BY <1>3, <1>7, <2>1
  <2>2. CASE ~link
    BY <1>1, <1>6, <1>7, <2>2 DEF Asked, Changed
  <2> QED
    BY <2>1, <2>2
<1>8. CASE g = q.g /\ c # q.c
  <2>1. cs'[c] = cs[c] /\ cs[c].link = g /\ cs[c].source \in Durables
    BY <1>1, <1>8
  <2>2. px[g].link = c
    BY <1>1, <1>6, <1>8 DEF Changed
  <2>3. CASE link
    <3>1. q.px.link = q.c
      BY <1>1, <1>8, <2>3 DEF Changed
    <3>2. q.stale
      BY <1>1, <1>2, <1>6, <1>8, <2>2, <3>1 DEF RequestIsCurrent, SameLink
    <3> QED
      BY <1>4, <2>1, <2>2, <3>2 DEF Mutual
  <2>4. CASE ~link
    <3>1. px'[g].source = px[g].source
      BY <1>1, <1>6, <1>8, <2>4 DEF Changed
    <3> QED
      BY <1>5, <2>1, <2>2, <3>1 DEF Mutual
  <2> QED
    BY <2>3, <2>4
<1>9. CASE g # q.g /\ c = q.c
  <2>1. px'[g] = px[g] /\ px[g].link = c /\ px[g].source \in Durables
    BY <1>1, <1>9
  <2>2. q.c # None
    BY <1>6, <1>9
  <2>3. cs[c].link = g
    BY <1>1, <1>6, <1>9, <2>2 DEF Changed
  <2>4. CASE link
    <3>1. q.cs.link = q.g
      BY <1>1, <1>9, <2>2, <2>4 DEF Changed
    <3>2. q.stale
      BY <1>1, <1>2, <1>6, <1>9, <2>2, <2>3, <3>1 DEF RequestIsCurrent, SameLink
    <3> QED
      BY <1>4, <2>1, <2>3, <3>2 DEF Mutual
  <2>5. CASE ~link
    <3>1. cs'[c].source = cs[c].source
      BY <1>1, <1>6, <1>9, <2>2, <2>5 DEF Changed
    <3> QED
      BY <1>5, <2>1, <2>3, <3>1 DEF Mutual
  <2> QED
    BY <2>4, <2>5
<1>10. CASE g # q.g /\ c # q.c
  BY <1>1, <1>5, <1>10 DEF Mutual
<1> QED
  BY <1>7, <1>8, <1>9, <1>10

LEMMA DurableStayHome ==
  ASSUME Typed, LinkInv, HomeInv, [Next]_vars
  PROVE  DurableAreHome(px, cs)' /\ DurableAreHome(sync.px, sync.cs)'
<1>1. /\ DurableAreHome(px, cs) /\ DurableAreHome(sync.px, sync.cs)
  BY DEF HomeInv
<1>2. ASSUME NEW g \in Guests, NEW c \in CsVms,
             px'[g].link = c, cs'[c].link = g,
             px'[g].source = cs'[c].source, px'[g].source \in Durables
      PROVE  Home[c] = g
  <2>1. CASE MatchCommit
    BY <1>2, <2>1, MatchCommitLinksHome DEF Durables
  <2>2. CASE \E p \in Procs : RequestCommit(p)
    BY <1>2, <2>2, RequestCommitLinksHome
  <2>3. CASE SameLinks
    BY <1>1, <1>2, <2>3 DEF SameLinks, SameLink, DurableAreHome, Mutual
  <2> QED
    BY <2>1, <2>2, <2>3, RowsFollow
<1>3. DurableAreHome(px', cs')
  BY <1>2 DEF DurableAreHome, Mutual
<1>4. DurableAreHome(Resting.px, Resting.cs)
  <2>1. \A g \in Guests : Resting.px[g].source = ""
    BY DEF Resting, NoPx
  <2> QED
    BY <2>1 DEF DurableAreHome, Durables
<1>5. DurableAreHome(sync'.px, sync'.cs)
  BY <1>1, <1>4, SnapshotsFollow
<1> QED
  BY <1>3, <1>5 DEF DurableAreHome, Mutual

LEMMA LinkedSinceStayHome ==
  ASSUME Typed, HomeInv, [Next]_vars
  PROVE  LinkedSinceAreHome'
<1> SUFFICES ASSUME sync'.pc = "commit", NEW g \in Guests, NEW c \in CsVms,
                    px'[g].link = c, sync'.px[g].link = None
             PROVE  Home[c] = g
  BY DEF LinkedSinceAreHome
<1>1. None \notin CsVms
  BY PlacementConstants
<1>2. CASE MatchRead
  <2>1. sync'.px = px /\ px' = px
    BY <1>2 DEF MatchRead, Rows, Typed, SyncTyped, SyncRow
  <2> QED
    BY <1>1, <2>1
<1>3. CASE sync.pc = "commit" /\ sync'.px = sync.px
  <2>1. px[g].link = c => Home[c] = g
    BY <1>3 DEF HomeInv, LinkedSinceAreHome
  <2>2. ~MatchCommit
    BY RestingTyped DEF MatchCommit, SyncRow
  <2>3. ASSUME NEW p \in Procs, RequestCommit(p)
        PROVE  Home[c] = g
    <3> DEFINE q == req[p]
    <3>1. /\ (g # q.g => px'[g] = px[g])
          /\ px'[q.g].link = Changed(px[q.g].link, q.px.link,
                                     IF q.op = "match" THEN q.c ELSE None)
      BY <2>3, RequestCommitIs
    <3>2. q.op = "match" => Home[q.c] = q.g
      BY DEF HomeInv, MatchIsHome
    <3> HIDE DEF q
    <3> QED
      BY <1>1, <2>1, <3>1, <3>2 DEF Changed
  <2>4. CASE SameLinks
    BY <2>1, <2>4 DEF SameLinks, SameLink
  <2> QED
    BY <2>2, <2>3, <2>4, RowsFollow
<1> QED
  BY <1>2, <1>3, SnapshotsFollow

\* The requests: as they were, overtaken, new, or done.
LEMMA RequestsFollow ==
  ASSUME Typed, [Next]_vars, NEW p \in Procs
  PROVE  \/ req'[p] = req[p]
         \/ /\ MatchCommit \/ \E q \in Procs : RequestCommit(q)
            /\ req'[p].op = req[p].op /\ req'[p].g = req[p].g
            /\ req'[p].c = req[p].c
         \/ req'[p].op = "idle"
         \/ /\ ~req'[p].stale /\ req'[p].g \in Guests
            /\ UNCHANGED <<px, cs>>
            /\ req'[p].op = "match" =>
                 /\ req'[p].c \in CsVms
                 /\ VmidOf[req'[p].c] = VmidOf[req'[p].g]
                 /\ [place |-> px[req'[p].g].node,
                     host |-> cs[req'[p].c].host] \in UniqueRows(mapping)
<1>1. req \in [Procs -> RequestRow] /\ NoRequest.op = "idle"
  BY DEF Typed, RequestsTyped, NoRequest
<1>2. CASE MatchCommit
  BY <1>2, OutdatedAre DEF MatchCommit
<1>3. ASSUME NEW q \in Procs, RequestCommit(q)
      PROVE  \/ req'[p].op = "idle"
             \/ /\ req'[p].op = req[p].op /\ req'[p].g = req[p].g
                /\ req'[p].c = req[p].c
  <2>1. req' = [Outdated EXCEPT ![q] = NoRequest]
    BY <1>3 DEF RequestCommit
  <2> QED
    BY <1>1, <2>1, OutdatedAre
<1>4. CASE Restart
  BY <1>1, <1>4 DEF Restart
<1>5. ASSUME NEW q \in Procs, NEW g \in Guests,
             \/ \E c \in CsVms : ManualMatchRead(q, g, c)
             \/ UnmatchRead(q, g)
      PROVE  \/ req'[p] = req[p]
             \/ /\ ~req'[p].stale /\ req'[p].g \in Guests
                /\ UNCHANGED <<px, cs>>
                /\ req'[p].op = "match" =>
                     /\ req'[p].c \in CsVms
                     /\ VmidOf[req'[p].c] = VmidOf[req'[p].g]
                     /\ [place |-> px[req'[p].g].node,
                         host |-> cs[req'[p].c].host] \in UniqueRows(mapping)
  <2>1. PICK r \in RequestRow :
          /\ req' = [req EXCEPT ![q] = r]
          /\ Asked(r) /\ ~r.stale /\ r.g = g /\ r.px = px[g]
          /\ r.op # "idle"
          /\ r.c # None => r.cs = cs[r.c]
          /\ r.op = "match" =>
               [place |-> px[g].node, host |-> cs[r.c].host]
                 \in UniqueRows(mapping)
    BY <1>5, AskedIs
  <2>2. UNCHANGED <<px, cs>>
    BY <1>5 DEF ManualMatchRead, UnmatchRead, Rows
  <2>3. req'[p] = IF p = q THEN r ELSE req[p]
    BY <1>1, <2>1
  <2>4. CASE p = q
    <3>1. req'[p] = r
      BY <2>3, <2>4
    <3> QED
      BY <2>1, <2>2, <3>1 DEF Asked
  <2> QED
    BY <2>3, <2>4
<1>6. \/ UNCHANGED req
      \/ MatchCommit \/ Restart
      \/ \E q \in Procs : RequestCommit(q)
      \/ \E q \in Procs, g \in Guests :
           (\E c \in CsVms : ManualMatchRead(q, g, c)) \/ UnmatchRead(q, g)
  BY SessionStepIs DEF Next, Cycle, Faults, Requests, Environment, StartCycle,
     SyncProxmox, SyncCloudstack, MatchRead, AutoStart, AutoSkip, AutoEnd,
     SyncProxmoxFails, SyncCloudstackFails, MatchFails, Aborts, RouteAll,
     RouteOne, GuestChanges, CloudStackChanges, CreateMapping, DeleteMapping,
     Changes, vars
<1> QED
  BY <1>2, <1>3, <1>4, <1>5, <1>6

LEMMA MatchStaysHome ==
  ASSUME Typed, HomeInv, [Next]_vars
  PROVE  MatchIsHome'
<1> SUFFICES ASSUME NEW p \in Procs, req'[p].op = "match"
             PROVE  Home[req'[p].c] = req'[p].g
  BY DEF MatchIsHome
<1> DEFINE r == req'[p]
<1>1. \/ r.op = req[p].op /\ r.g = req[p].g /\ r.c = req[p].c
      \/ /\ r.g \in Guests /\ r.c \in CsVms /\ VmidOf[r.c] = VmidOf[r.g]
         /\ [place |-> px[r.g].node, host |-> cs[r.c].host]
               \in UniqueRows(mapping)
  BY RequestsFollow
<1> HIDE DEF r
<1>2. CASE r.op = req[p].op /\ r.g = req[p].g /\ r.c = req[p].c
  BY <1>2 DEF HomeInv, MatchIsHome, r
<1>3. CASE /\ r.g \in Guests /\ r.c \in CsVms /\ VmidOf[r.c] = VmidOf[r.g]
           /\ [place |-> px[r.g].node, host |-> cs[r.c].host]
                 \in UniqueRows(mapping)
  <2>1. OwnPlace(r.g, px[r.g].node) /\ OwnHost(r.c, cs[r.c].host)
    BY <1>3 DEF HomeInv, InOwnCluster, OwnPlaces, OwnHosts
  <2>2. mapping \in SUBSET Row /\ Sound(mapping)
    BY DEF Typed, WorldTyped, HomeInv, MappingsSound
  <2>3. Home[r.c] = r.g
    BY <1>3, <2>1, <2>2, TruePairIsHome
  <2> QED
    BY <2>3 DEF r
<1> QED
  BY <1>1, <1>2, <1>3

\* The one request that may be overtaken is, when match_vms commits.
LEMMA MixedStayNames ==
  ASSUME OneAtATime, Typed, HomeInv, [Next]_vars
  PROVE  MixedAreNames'
<1> SUFFICES ASSUME NEW p \in Procs, req'[p].op # "idle", req'[p].stale,
                    NEW g \in Guests, NEW c \in CsVms,
                    px'[g].link = c, cs'[c].link = g, Home[c] # g
             PROVE  px'[g].source \notin Durables /\ cs'[c].source \notin Durables
  BY DEF MixedAreNames, Mutual
<1>1. CASE MatchCommit
  BY <1>1, MatchCommitLinksHome DEF Durables
<1>2. ~\E q \in Procs : RequestCommit(q)
  <2> SUFFICES ASSUME NEW q \in Procs, RequestCommit(q) PROVE FALSE
    OBVIOUS
  <2>1. q = p
    <3>1. CASE req[p].op # "idle"
      BY <3>1 DEF OneAtATime, RequestCommit
    <3>2. CASE req[p].op = "idle" /\ q # p
      <4>1. req'[p] = Outdated[p]
        BY <3>2, OutdatedAre DEF RequestCommit
      <4> QED
        BY <3>2, <4>1, OutdatedAre
    <3> QED
      BY <3>1, <3>2
  <2>2. req' = [Outdated EXCEPT ![p] = NoRequest]
    BY <2>1 DEF RequestCommit
  <2>3. req'[p] = NoRequest
    BY <2>2, OutdatedAre
  <2> QED
    BY <2>3 DEF NoRequest
<1>3. CASE ~MatchCommit
  <2>1. SameLinks
    BY <1>2, <1>3, RowsFollow
  <2>2. req'[p] = req[p]
    BY <1>2, <1>3, RequestsFollow
  <2>3. Mutual(px, cs, g, c)
    BY <2>1 DEF SameLinks, SameLink, Mutual
  <2>4. px[g].source \notin Durables /\ cs[c].source \notin Durables
    BY <2>2, <2>3 DEF HomeInv, MixedAreNames
  <2> QED
    BY <2>1, <2>4 DEF SameLinks, SameLink
<1> QED
  BY <1>1, <1>3

LEMMA ItemsStayHome ==
  ASSUME Typed, HomeInv, [Next]_vars
  PROVE  ItemsAreHome'
<1> DEFINE AtHome(x) ==
      Decided(x) => Home[x.item.c] = x.item.g /\ OwnHost(x.item.c, x.item.target)
<1> SUFFICES \A t \in Sessions : AtHome(sess'[t])
  BY DEF ItemsAreHome, OwnHost, Decided
<1>1. /\ sess \in [Sessions -> SessionRow]
      /\ \A s \in Sessions : AtHome(sess[s])
  BY DEF Typed, SessionsTyped, HomeInv, ItemsAreHome, Decided
<1>2. ASSUME NEW s \in Sessions, Session(s) \/ WriteFails(s)
      PROVE  \A t \in Sessions : AtHome(sess'[t])
  <2>1. PICK r \in SessionRow : Enter(s, r) /\ Goes(s, r)
    BY <1>2, SessionStepIs
  <2>2. AtHome(r)
    <3>1. CASE r.item \in Drift
      BY <3>1, DriftIsHome
    <3>2. CASE /\ sess[s].pc = "status" /\ r.pc = "write"
               /\ r.item = [sess[s].item EXCEPT
                              !.status = px[sess[s].item.g].status]
      <4>1. sess[s].item \in Items /\ Decided(sess[s])
        BY <1>1, <3>2 DEF SessionRow, Decided
      <4>2. /\ r.item.g = sess[s].item.g /\ r.item.c = sess[s].item.c
            /\ r.item.target = sess[s].item.target
        BY <3>2, <4>1 DEF Items
      <4> QED
        BY <1>1, <4>1, <4>2
    <3> QED
      BY <2>1, <3>1, <3>2 DEF Goes
  <2>3. \A t \in Sessions : sess'[t] = IF t = s THEN r ELSE sess[t]
    BY <1>1, <2>1 DEF Enter
  <2> HIDE DEF AtHome
  <2> QED
    BY <1>1, <2>2, <2>3
<1>3. ASSUME NEW s \in Sessions, NEW r, Enter(s, r), r.pc \in {"idle", "next", "read"}
      PROVE  \A t \in Sessions : AtHome(sess'[t])
  <2>1. AtHome(r)
    BY <1>3 DEF Decided
  <2>2. \A t \in Sessions : sess'[t] = IF t = s THEN r ELSE sess[t]
    BY <1>1, <1>3 DEF Enter
  <2> HIDE DEF AtHome
  <2> QED
    BY <1>1, <2>1, <2>2
<1>4. CASE UNCHANGED sess
  BY <1>1, <1>4
<1>5. CASE Restart
  BY <1>5 DEF Restart, Idle, Decided
<1>6. CASE AutoStart \/ AutoEnd
  <2>1. \/ UNCHANGED sess
        \/ Enter(FullSync, Idle)
        \/ Enter(FullSync, [Idle EXCEPT !.pc = "next", !.todo = Listing])
    BY <1>6 DEF AutoStart, AutoEnd
  <2>2. /\ Idle.pc = "idle" /\ FullSync \in Sessions
        /\ [Idle EXCEPT !.pc = "next", !.todo = Listing].pc = "next"
    BY DEF Idle, Sessions
  <2> HIDE DEF AtHome
  <2> QED
    BY <1>3, <1>4, <2>1, <2>2
<1>7. ASSUME NEW r \in Routes, RouteAll(r) \/ RouteOne(r)
      PROVE  \A t \in Sessions : AtHome(sess'[t])
  <2>1. \/ Enter(r, [Idle EXCEPT !.pc = "next", !.todo = Listing])
        \/ Enter(r, [Idle EXCEPT !.pc = "read"])
    BY <1>7 DEF RouteAll, RouteOne
  <2>2. /\ r \in Sessions
        /\ [Idle EXCEPT !.pc = "next", !.todo = Listing].pc = "next"
        /\ [Idle EXCEPT !.pc = "read"].pc = "read"
    BY DEF Idle, Sessions
  <2> HIDE DEF AtHome
  <2> QED
    BY <1>3, <2>1, <2>2
<1>8. ASSUME NEW s \in Sessions, Aborts(s)
      PROVE  \A t \in Sessions : AtHome(sess'[t])
  <2>1. Enter(s, Idle) /\ Idle.pc = "idle"
    BY <1>8 DEF Aborts, Idle
  <2> HIDE DEF AtHome
  <2> QED
    BY <1>3, <2>1
<1>9. \/ UNCHANGED sess \/ Restart \/ AutoStart \/ AutoEnd
      \/ \E s \in Sessions : Session(s) \/ WriteFails(s) \/ Aborts(s)
      \/ \E r \in Routes : RouteAll(r) \/ RouteOne(r)
  BY DEF Next, Cycle, Faults, Requests, Environment, StartCycle, SyncProxmox,
     SyncCloudstack, MatchRead, MatchCommit, AutoSkip, SyncProxmoxFails,
     SyncCloudstackFails, MatchFails, UnmatchRead, ManualMatchRead,
     RequestCommit, GuestChanges, CloudStackChanges, CreateMapping,
     DeleteMapping, Changes, vars
<1> HIDE DEF AtHome
<1> QED
  BY <1>2, <1>4, <1>5, <1>6, <1>7, <1>8, <1>9

LEMMA InitHome == Init => HomeInv
<1> SUFFICES ASSUME Init PROVE HomeInv
  OBVIOUS
<1>1. /\ \A g \in Guests : guest[g].node \in Places
      /\ \A g \in Guests : ClusterOf[guest[g].node] = ClusterOf[g]
  BY StartPlaces DEF Init
<1>2. OwnPlaces(guest)
  BY <1>1 DEF OwnPlaces, OwnPlace
<1>3. OwnHosts(vmi)
  <2> SUFFICES ASSUME NEW c \in CsVms PROVE OwnHost(c, vmi[c].host)
    BY DEF OwnHosts
  <2>1. vmi[c].host = HostAt[guest[Home[c]].node] /\ Home[c] \in Guests
    BY PlacementConstants DEF Init
  <2> QED
    BY <1>1, <2>1 DEF OwnHost
<1>4. /\ \A g \in Guests : px[g] = NoPx /\ sync.px[g] = NoPx
      /\ \A c \in CsVms : cs[c] = NoCs /\ sync.cs[c] = NoCs
  BY DEF Init, Resting
<1>5. InOwnCluster
  <2>1. NoPx.node = None /\ NoCs.host = None
    BY DEF NoPx, NoCs
  <2>2. \A g \in Guests : OwnPlace(g, px[g].node) /\ OwnPlace(g, sync.px[g].node)
    BY <1>4, <2>1 DEF OwnPlace
  <2>3. \A c \in CsVms : OwnHost(c, cs[c].host) /\ OwnHost(c, sync.cs[c].host)
    BY <1>4, <2>1 DEF OwnHost
  <2> QED
    BY <1>2, <1>3, <2>2, <2>3 DEF InOwnCluster, OwnPlaces, OwnHosts
<1>6. MappingsSound
  BY DEF Init, MappingsSound, Sound, Resting
<1>7. DurableAreHome(px, cs) /\ DurableAreHome(sync.px, sync.cs)
  <2>1. NoPx.source \notin Durables
    BY DEF NoPx, Durables
  <2> QED
    BY <1>4, <2>1 DEF DurableAreHome
<1>8. LinkedSinceAreHome /\ MatchIsHome /\ MixedAreNames
  BY DEF Init, LinkedSinceAreHome, MatchIsHome, MixedAreNames, Resting, NoRequest
<1>9. ItemsAreHome
  BY DEF Init, ItemsAreHome, Idle
<1> QED
  BY <1>5, <1>6, <1>7, <1>8, <1>9 DEF HomeInv

\* Requests that overlap are seen when the later one reads.
LEMMA OverlapIsSeen ==
  ASSUME Typed, ~overlap => OneAtATime, [Next]_vars, ~overlap'
  PROVE  ~overlap /\ OneAtATime'
<1>1. ASSUME NEW p \in Procs, NEW g \in Guests,
             \/ \E c \in CsVms : ManualMatchRead(p, g, c)
             \/ UnmatchRead(p, g)
      PROVE  ~overlap /\ OneAtATime'
  <2>1. PICK r : Ask(p, r)
    BY <1>1 DEF ManualMatchRead, UnmatchRead
  <2>2. ~overlap /\ \A q \in Procs : req[q].op = "idle"
    BY <2>1 DEF Ask
  <2>3. \A q \in Procs : q # p => req'[q] = req[q]
    BY <2>1 DEF Ask, Typed, RequestsTyped
  <2> QED
    BY <2>2, <2>3 DEF OneAtATime
<1>2. ASSUME UNCHANGED overlap,
             \A p \in Procs : req'[p].op \in {req[p].op, "idle"}
      PROVE  ~overlap /\ OneAtATime'
  BY <1>2 DEF OneAtATime
<1>3. ASSUME NEW p \in Procs, RequestCommit(p)
      PROVE  \A q \in Procs : req'[q].op \in {req[q].op, "idle"}
  <2>1. req' = [Outdated EXCEPT ![p] = NoRequest] /\ NoRequest.op = "idle"
    BY <1>3 DEF RequestCommit, NoRequest
  <2> QED
    BY <2>1, OutdatedAre
<1>4. MatchCommit \/ Restart =>
        \A q \in Procs : req'[q].op \in {req[q].op, "idle"}
  BY OutdatedAre DEF MatchCommit, Restart, NoRequest
<1>5. \/ UNCHANGED <<req, overlap>>
      \/ UNCHANGED overlap /\ (MatchCommit \/ Restart)
      \/ UNCHANGED overlap /\ \E p \in Procs : RequestCommit(p)
      \/ \E p \in Procs, g \in Guests :
           (\E c \in CsVms : ManualMatchRead(p, g, c)) \/ UnmatchRead(p, g)
  BY SessionStepIs DEF Next, Cycle, Faults, Requests, Environment, StartCycle,
     SyncProxmox, SyncCloudstack, MatchRead, MatchCommit, AutoStart, AutoSkip,
     AutoEnd, SyncProxmoxFails, SyncCloudstackFails, MatchFails, Restart,
     Aborts, RouteAll, RouteOne, RequestCommit, GuestChanges,
     CloudStackChanges, CreateMapping, DeleteMapping, Changes, History, vars
<1> QED
  BY <1>1, <1>2, <1>3, <1>4, <1>5

\* What is about to be written to a VM is the placement of the very guest it
\* stands for, until two requests to match or unmatch overlap.
THEOREM WritesStayAboutOwnGuest == PSpec => []WritesAboutOwnGuest
<1> DEFINE Inv == Typed /\ LinkInv /\ (~overlap => OneAtATime /\ HomeInv)
<1>1. Init => Inv
  BY InitTyped, InitLinks, InitHome, StartsQuiet DEF OneAtATime, NoRequest
<1>2. Inv /\ [Next]_vars => Inv'
  <2> SUFFICES ASSUME Inv, [Next]_vars PROVE Inv'
    OBVIOUS
  <2>1. Typed' /\ LinkInv'
    BY StepKeepsTypes, StepKeepsLinks
  <2>2. ASSUME ~overlap'
        PROVE  OneAtATime' /\ HomeInv'
    <3>1. OneAtATime /\ HomeInv /\ OneAtATime'
      BY <2>2, OverlapIsSeen
    <3> QED
      BY <3>1, ClustersStay, DurableStayHome, LinkedSinceStayHome,
         MatchStaysHome, MixedStayNames, ItemsStayHome DEF HomeInv
  <2> QED
    BY <2>1, <2>2
<1>3. Inv => WritesAboutOwnGuest
  BY DEF HomeInv, ItemsAreHome, WritesAboutOwnGuest
<1> QED
  BY <1>1, <1>2, <1>3, PTL DEF PSpec
=============================================================================
