----------------------- MODULE NicReconciliationProofs -----------------------
(***************************************************************************)
(* What is proved of NicReconciliation, for any slots, addresses, networks *)
(* and number of routes: the types of the rows, that the automatic session *)
(* writes from this cycle's snapshots, and that CloudStack's VM keeps at   *)
(* most one default NIC.                                                   *)
(*                                                                         *)
(* The flag alone does not show that a snapshot is of this cycle: a side   *)
(* may be passed over without an error. What carries the proof is what the *)
(* reset of the markers leaves behind (MarkersDown, MarkersFresh).         *)
(***************************************************************************)
EXTENDS NicReconciliation, FiniteSetTheorems, SequenceTheorems, TLAPS

----------------------------------------------------------------------------
(* The invariant.                                                          *)

Identities == [type : Types, mac : Macs, device : Devices \cup {None},
               nic : Nat]
SessionRow == [pc : {"idle", "list", "next", "read", "write"},
               todo : SUBSET Identities, item : SUBSET (Identities \cup Item),
               wrote : BOOLEAN]

SessionsTyped == sess \in [Sessions -> SessionRow]

\* What is about to be written names what its statement needs.
Writable(i) ==
    /\ i \in Item
    /\ i.type \in {"missing", "network"} => i.net \in Nets
    /\ i.type = "missing" => i.device \in Devices

ItemsWritable ==
    \A s \in Sessions : sess[s].pc = "write" =>
      \A i \in sess[s].item : Writable(i)

AutoWithinSync == sess[FullSync].pc # "idle" => sync.pc = "auto"

\* Between the reset of the markers and the commit of the collection the flag
\* is down, and no row that is current has a marker.
Collecting == sync.pc \in {"config", "table"}
FlagDown == sync.pc = "reset" \/ Collecting => ~ready
MarkersDown ==
    Collecting => ~(px.current /\ px.marked) /\ ~(cs.current /\ cs.marked)

\* So once the flag is up again a marked row is one that was just collected.
MarkersFresh ==
    sync.pc = "auto" \/ (sync.pc = "reconcile" /\ ready) =>
      /\ px.current /\ px.marked => "px" \in fresh
      /\ cs.current /\ cs.marked => "cs" \in fresh

OneDefaultIn(rows) ==
    \A i, j \in DOMAIN rows :
      rows[i].live /\ rows[i].default /\ rows[j].live /\ rows[j].default =>
        i = j
OneDefault == OneDefaultIn(table)

Typed == NTypeOK /\ SessionsTyped /\ ItemsWritable

AutoInv ==
    /\ AutoWithinSync /\ FlagDown /\ MarkersDown /\ MarkersFresh
    /\ AutoWritesFromThisCycle

NInv == Typed /\ AutoInv /\ OneDefault

----------------------------------------------------------------------------
(* What a session derives and writes.                                      *)

LEMMA IdleTyped ==
  /\ Idle \in SessionRow /\ Idle.pc = "idle"
  /\ \A r \in BOOLEAN : [Idle EXCEPT !.wrote = r] \in SessionRow
                        /\ [Idle EXCEPT !.wrote = r].pc = "idle"
  BY DEF Idle, SessionRow

LEMMA RestingTyped ==
  /\ Resting \in [pc : Phases, read : GuestNics, again : BOOLEAN]
  /\ Resting.pc = "idle" /\ Resting.read \in GuestNics
  BY DEF Resting, Phases, GuestNics, Nic, NoNic

\* A NIC that is present has its address in a record of its own.
LEMMA PresentNic ==
  ASSUME NEW g \in GuestNics, NEW d \in Present(g)
  PROVE  /\ d \in Devices /\ g[d].mac \in Macs /\ g[d].ip \in Ips \cup {None}
         /\ g[d].bridge \in Bridges
<1>1. d \in Devices /\ g[d] \in Nic /\ g[d].mac # None
  BY DEF Present, GuestNics
<1> QED
  BY <1>1 DEF Nic, NoNic

\* A row of a table is where it was inserted.
LEMMA RowOf ==
  ASSUME NEW rows \in Seq(NicRow), NEW k \in DOMAIN rows
  PROVE  k \in Nat /\ rows[k] \in NicRow
<1>1. rows \in [1 .. Len(rows) -> NicRow] /\ Len(rows) \in Nat
  BY LenProperties
<1> QED
  BY <1>1

\* What an UPDATE leaves of a row.
LEMMA RowUpdates ==
  ASSUME NEW n \in NicRow
  PROVE  /\ \A net \in Nets : [n EXCEPT !.net = net] \in NicRow
         /\ \A ip \in Ips \cup {None} : [n EXCEPT !.ip = ip] \in NicRow
         /\ [n EXCEPT !.live = FALSE] \in NicRow
         /\ [n EXCEPT !.default = FALSE] \in NicRow
  BY DEF NicRow

\* Drift is derived from marked snapshots only, and is well formed.
LEMMA DriftWritable ==
  ASSUME NTypeOK, NEW i \in Drift
  PROVE  Writable(i) /\ Eligible
<1>1. Eligible
  BY DEF Drift
<1>2. /\ px.nics \in GuestNics /\ cs.nics \in Seq(NicRow)
      /\ mapping \in [Bridges -> Nets \cup {None}]
  BY DEF NTypeOK
<1>3. \A k \in DOMAIN cs.nics : k \in Nat /\ cs.nics[k].mac \in Macs
  BY <1>2, RowOf DEF NicRow
<1>4. ASSUME NEW d \in MappedDevices, i \in NicDrift(d) PROVE Writable(i)
  <2>1. /\ d \in Devices /\ px.nics[d].mac \in Macs
        /\ px.nics[d].ip \in Ips \cup {None}
        /\ mapping[px.nics[d].bridge] \in Nets
    BY <1>2, <1>4, PresentNic DEF MappedDevices
  <2> DEFINE I(type, k) == [type |-> type, mac |-> px.nics[d].mac,
                            device |-> d, nic |-> k,
                            net |-> mapping[px.nics[d].bridge],
                            ip |-> px.nics[d].ip]
  <2>2. \E k \in {0} \cup DOMAIN cs.nics, type \in {"missing", "network", "ip"} :
          i = I(type, k)
    BY <1>4 DEF NicDrift
  <2>3. \A k \in {0} \cup DOMAIN cs.nics, type \in {"missing", "network", "ip"} :
          Writable(I(type, k))
    BY <1>3, <2>1 DEF Writable, Item, Types
  <2> QED
    BY <2>2, <2>3
<1>5. ASSUME NEW k \in Extra,
             i = [type |-> "extra", mac |-> cs.nics[k].mac, device |-> None,
                  nic |-> k, net |-> None, ip |-> None]
      PROVE  Writable(i)
  BY <1>3, <1>5 DEF Extra, Writable, Item, Types
<1>6. \/ \E d \in MappedDevices : i \in NicDrift(d)
      \/ \E k \in Extra :
           i = [type |-> "extra", mac |-> cs.nics[k].mac, device |-> None,
                nic |-> k, net |-> None, ip |-> None]
  <2> DEFINE rows == UNION {NicDrift(d) : d \in MappedDevices}
             extras == {[type |-> "extra", mac |-> cs.nics[k].mac,
                         device |-> None, nic |-> k, net |-> None,
                         ip |-> None] : k \in Extra}
  <2>1. Drift = IF ~Eligible THEN {} ELSE rows \cup extras
    BY DEF Drift
  <2> HIDE DEF rows, extras
  <2>2. i \in rows \/ i \in extras
    BY <1>1, <2>1
  <2>3. i \in rows => \E d \in MappedDevices : i \in NicDrift(d)
    BY DEF rows
  <2>4. i \in extras =>
          \E k \in Extra :
            i = [type |-> "extra", mac |-> cs.nics[k].mac, device |-> None,
                 nic |-> k, net |-> None, ip |-> None]
    BY DEF extras
  <2> QED
    BY <2>2, <2>3, <2>4
<1> QED
  BY <1>1, <1>4, <1>5, <1>6

LEMMA IdentityTyped ==
  ASSUME NEW i \in Item
  PROVE  Identity(i) \in Identities
  BY DEF Identity, Identities, Item

\* Where a session goes on.
LEMMA ContinueTyped ==
  ASSUME SessionsTyped, NEW s \in Sessions, NEW wrote \in BOOLEAN
  PROVE  /\ Continue(s, wrote) \in SessionRow
         /\ Continue(s, wrote).pc \in {"idle", "next"}
  BY IdleTyped DEF SessionsTyped, Continue, SessionRow

\* A write keeps the type of the table.
LEMMA WrittenTyped ==
  ASSUME NTypeOK, NEW i, Writable(i)
  PROVE  Written(i) \in Seq(NicRow)
<1>1. table \in [1 .. Len(table) -> NicRow] /\ Len(table) \in Nat
  BY LenProperties DEF NTypeOK
<1>2. i \in Item /\ i.mac \in Macs /\ i.ip \in Ips \cup {None}
  BY DEF Writable, Item
<1>3. ASSUME NEW t \in [1 .. Len(table) -> NicRow] PROVE t \in Seq(NicRow)
  BY <1>1, <1>3, SeqDef
<1>4. ASSUME NEW n \in NicRow,
             Written(i) = [table EXCEPT ![i.nic] = n]
      PROVE  Written(i) \in Seq(NicRow)
  BY <1>1, <1>3, <1>4
<1>5. i.nic \notin 1 .. Len(table) /\ i.type # "missing" => Written(i) = table
  BY <1>1, <1>2 DEF Written, Item, Types
<1>6. CASE i.type = "missing"
  <2> DEFINE cleared == [j \in DOMAIN table |->
                IF i.device = 0 /\ table[j].live
                THEN [table[j] EXCEPT !.default = FALSE] ELSE table[j]]
             added == [mac |-> i.mac, device |-> i.device, net |-> i.net,
                       ip |-> i.ip, default |-> i.device = 0, live |-> TRUE]
  <2>1. added \in NicRow
    BY <1>2, <1>6 DEF Writable, NicRow
  <2>2. cleared \in [1 .. Len(table) -> NicRow]
    BY <1>1, RowUpdates
  <2>3. Written(i) = Append(cleared, added)
    BY <1>6 DEF Written, Inserted
  <2> HIDE DEF cleared, added
  <2> QED
    BY <1>3, <2>1, <2>2, <2>3, AppendProperties
<1>7. CASE i.type # "missing" /\ i.nic \in 1 .. Len(table)
  <2> DEFINE n == table[i.nic]
  <2>1. n \in NicRow
    BY <1>1, <1>7
  <2>2. CASE i.type = "network"
    <3>1. i.net \in Nets
      BY <2>2 DEF Writable
    <3>2. n.net \in Nets
      BY <2>1 DEF NicRow
    <3>3. Written(i) = [table EXCEPT ![i.nic] =
                          [n EXCEPT !.net = IF n.live THEN i.net ELSE n.net]]
      BY <2>2 DEF Written
    <3> QED
      BY <1>4, <2>1, <3>1, <3>2, <3>3, RowUpdates
  <2>3. CASE i.type = "ip"
    <3>1. n.ip \in Ips \cup {None}
      BY <2>1 DEF NicRow
    <3>2. Written(i) = [table EXCEPT ![i.nic] =
                          [n EXCEPT !.ip = IF n.live THEN i.ip ELSE n.ip]]
      BY <2>3 DEF Written
    <3> QED
      BY <1>2, <1>4, <2>1, <3>1, <3>2, RowUpdates
  <2>4. CASE i.type = "extra"
    <3>1. Written(i) = [table EXCEPT ![i.nic] = [n EXCEPT !.live = FALSE]]
      BY <2>4 DEF Written
    <3> QED
      BY <1>4, <2>1, <3>1, RowUpdates
  <2> QED
    BY <1>2, <1>7, <2>2, <2>3, <2>4 DEF Item, Types
<1> QED
  BY <1>1, <1>3, <1>5, <1>6, <1>7

----------------------------------------------------------------------------
(* The sessions.                                                           *)

\* What a session's step makes of it: only Read decides on a write.
LEMMA SessionSteps ==
  ASSUME Typed, NEW s \in Sessions, Session(s)
  PROVE  \E r \in SessionRow :
           /\ sess' = [sess EXCEPT ![s] = r]
           /\ sess[s].pc # "idle"
           /\ r.pc = "write" =>
                Eligible /\ \A i \in r.item : Writable(i)
<1>1. sess[s] \in SessionRow /\ NTypeOK /\ SessionsTyped
  BY DEF Typed, SessionsTyped
<1>2. \A i \in Drift : Writable(i) /\ Eligible
  BY <1>1, DriftWritable
<1>3. CASE List(s)
  <2> DEFINE todo == {Identity(i) : i \in Drift}
             r == IF todo = {} THEN Idle
                  ELSE [Idle EXCEPT !.pc = "next", !.todo = todo]
  <2>1. todo \subseteq Identities
    BY <1>2, IdentityTyped DEF Writable
  <2>2. r \in SessionRow /\ r.pc # "write"
    BY <2>1, IdleTyped DEF Idle, SessionRow
  <2>3. sess' = [sess EXCEPT ![s] = r] /\ sess[s].pc # "idle"
    BY <1>3 DEF List, Step
  <2> HIDE DEF r
  <2> QED
    BY <2>2, <2>3
<1>4. ASSUME NEW t \in sess[s].todo, NextItem(s, t)
      PROVE  \E r \in SessionRow :
               /\ sess' = [sess EXCEPT ![s] = r] /\ sess[s].pc # "idle"
               /\ r.pc # "write"
  <2> DEFINE rest == sess[s].todo \ {t}
             r == IF ready
                  THEN [sess[s] EXCEPT !.pc = "read", !.item = {t},
                                       !.todo = rest]
                  ELSE IF rest = {} THEN [Idle EXCEPT !.wrote = sess[s].wrote]
                  ELSE [sess[s] EXCEPT !.todo = rest]
  <2>1. /\ sess[s].pc = "next" /\ sess' = [sess EXCEPT ![s] = r]
    BY <1>4 DEF NextItem, Step
  <2>2. rest \subseteq Identities /\ {t} \subseteq Identities \cup Item
    BY <1>1, <1>4 DEF SessionRow
  <2>3. sess[s].wrote \in BOOLEAN
    BY <1>1 DEF SessionRow
  <2> HIDE DEF rest
  <2>4. /\ [sess[s] EXCEPT !.pc = "read", !.item = {t}, !.todo = rest]
             \in SessionRow
        /\ [sess[s] EXCEPT !.pc = "read", !.item = {t}, !.todo = rest].pc
             = "read"
    BY <1>1, <2>2 DEF SessionRow
  <2>5. /\ [sess[s] EXCEPT !.todo = rest] \in SessionRow
        /\ [sess[s] EXCEPT !.todo = rest].pc = sess[s].pc
    BY <1>1, <2>2 DEF SessionRow
  <2>6. r \in SessionRow /\ r.pc # "write"
    BY <2>1, <2>3, <2>4, <2>5, IdleTyped
  <2> HIDE DEF r
  <2> QED
    BY <2>1, <2>6
<1>5. CASE Read(s)
  <2>1. sess[s].wrote \in BOOLEAN /\ sess[s].pc = "read"
    BY <1>1, <1>5 DEF SessionRow, Read
  <2>2. ASSUME NEW i \in Confirmed(s),
               Step(s, [sess[s] EXCEPT !.pc = "write", !.item = {i}])
        PROVE  \E r \in SessionRow :
                 /\ sess' = [sess EXCEPT ![s] = r]
                 /\ Eligible /\ \A k \in r.item : Writable(k)
    <3> DEFINE r == [sess[s] EXCEPT !.pc = "write", !.item = {i}]
    <3>1. Writable(i) /\ Eligible
      BY <1>2 DEF Confirmed
    <3>2. r \in SessionRow /\ r.item = {i}
      BY <1>1, <3>1 DEF SessionRow, Writable
    <3>3. sess' = [sess EXCEPT ![s] = r]
      BY <2>2 DEF Step
    <3> HIDE DEF r
    <3> QED
      BY <3>1, <3>2, <3>3
  <2>3. CASE Step(s, Continue(s, sess[s].wrote))
    BY <1>1, <2>1, <2>3, ContinueTyped DEF Step
  <2> QED
    BY <1>5, <2>1, <2>2, <2>3 DEF Read
<1>6. ASSUME NEW i \in sess[s].item, Write(s, i)
      PROVE  \E r \in SessionRow :
               /\ sess' = [sess EXCEPT ![s] = r] /\ sess[s].pc # "idle"
               /\ r.pc # "write"
  <2> DEFINE wrote == sess[s].wrote \/ i.type = "missing" \/ table[i.nic].live
  <2>1. Step(s, Continue(s, wrote)) /\ sess[s].pc = "write"
    BY <1>6 DEF Write
  <2>2. wrote \in BOOLEAN
    OBVIOUS
  <2> HIDE DEF wrote
  <2> QED
    BY <1>1, <2>1, <2>2, ContinueTyped DEF Step
<1>7. CASE WriteFails(s)
  <2>1. sess[s].wrote \in BOOLEAN /\ sess[s].pc = "write"
        /\ Step(s, Continue(s, sess[s].wrote))
    BY <1>1, <1>7 DEF SessionRow, WriteFails
  <2> QED
    BY <1>1, <2>1, ContinueTyped DEF Step
<1> QED
  BY <1>3, <1>4, <1>5, <1>6, <1>7 DEF Session

\* Which sessions the other steps touch, and how.
LEMMA SessionsOtherwise ==
  ASSUME Typed, Next,
         ~ \E s \in Sessions : Session(s)
  PROVE  /\ SessionsTyped'
         /\ \A s \in Sessions : sess'[s] = sess[s] \/ sess'[s].pc # "write"
         /\ sess'[FullSync] = sess[FullSync] \/ sess'[FullSync].pc = "idle"
              \/ AutoStart
<1>1. SessionsTyped /\ FullSync \in Sessions /\ FullSync \notin Routes
  BY NicConstants DEF Typed, Sessions
<1>2. ASSUME NEW s \in Sessions, NEW r \in SessionRow, r.pc # "write", Step(s, r),
             s # FullSync \/ r.pc = "idle" \/ AutoStart
      PROVE  /\ SessionsTyped'
             /\ \A q \in Sessions : sess'[q] = sess[q] \/ sess'[q].pc # "write"
             /\ sess'[FullSync] = sess[FullSync] \/ sess'[FullSync].pc = "idle"
                  \/ AutoStart
  BY <1>1, <1>2 DEF Step, SessionsTyped
<1>3. /\ [Idle EXCEPT !.pc = "list"] \in SessionRow
      /\ [Idle EXCEPT !.pc = "list"].pc = "list"
      /\ [Idle EXCEPT !.pc = "read"] \in SessionRow
      /\ [Idle EXCEPT !.pc = "read"].pc = "read"
  BY DEF Idle, SessionRow
<1>4. ASSUME NEW r \in Routes, RouteAll(r) \/ RouteOne(r)
      PROVE  /\ SessionsTyped'
             /\ \A q \in Sessions : sess'[q] = sess[q] \/ sess'[q].pc # "write"
             /\ sess'[FullSync] = sess[FullSync]
  <2>1. r \in Sessions /\ r # FullSync
    BY <1>1 DEF Sessions
  <2> QED
    BY <1>1, <1>3, <1>4, <2>1 DEF RouteAll, RouteOne, Step, SessionsTyped
<1>5. CASE AutoStart
  BY <1>1, <1>2, <1>3, <1>5 DEF AutoStart
<1>6. CASE AutoEnd
  BY <1>1, <1>2, <1>6, IdleTyped DEF AutoEnd
<1>7. CASE Restart
  BY <1>1, <1>7, IdleTyped DEF Restart, SessionsTyped
<1>8. CASE sess' = sess
  BY <1>1, <1>8 DEF SessionsTyped
<1>11. ASSUME NEW s \in Sessions, Aborts(s)
       PROVE  /\ SessionsTyped'
              /\ \A q \in Sessions : sess'[q] = sess[q] \/ sess'[q].pc # "write"
              /\ sess'[FullSync] = sess[FullSync] \/ sess'[FullSync].pc = "idle"
  BY <1>1, <1>11, IdleTyped DEF Aborts, Step, SessionsTyped
<1>9. Sync => AutoStart \/ AutoEnd \/ sess' = sess
  BY DEF Sync, SyncProxmox, SyncCloudstack, MatchVms, Invalidate, Reset,
     ResetFails, CollectConfig, CollectTable, PollAgainFails, AutoSkip
<1>10. GuestChanges \/ MappingChanges \/ CloudStackChanges \/ Relink =>
         sess' = sess
  BY DEF GuestChanges, MappingChanges, CloudStackChanges, Relink, Changes
<1> QED
  BY <1>4, <1>5, <1>6, <1>7, <1>8, <1>9, <1>10, <1>11 DEF Next

\* So the types of the sessions hold, and what they are about to write can be
\* written.
LEMMA SessionsKept ==
  ASSUME Typed, [Next]_vars
  PROVE  /\ SessionsTyped' /\ ItemsWritable'
         /\ sess[FullSync].pc # "idle" \/ sess'[FullSync].pc = "idle" \/ AutoStart
<1>1. SessionsTyped /\ ItemsWritable /\ FullSync \in Sessions
  BY DEF Typed, Sessions
<1>2. ASSUME NEW s \in Sessions, Session(s)
      PROVE  /\ SessionsTyped' /\ ItemsWritable'
             /\ sess[FullSync].pc # "idle" \/ sess'[FullSync].pc = "idle"
  <2>1. PICK r \in SessionRow :
           /\ sess' = [sess EXCEPT ![s] = r]
           /\ sess[s].pc # "idle"
           /\ r.pc = "write" => \A i \in r.item : Writable(i)
    BY <1>2, SessionSteps
  <2>2. sess'[s] = r /\ \A q \in Sessions \ {s} : sess'[q] = sess[q]
    BY <1>1, <2>1 DEF SessionsTyped
  <2>3. SessionsTyped'
    BY <1>1, <2>1 DEF SessionsTyped
  <2>4. ItemsWritable'
    BY <1>1, <2>1, <2>2 DEF ItemsWritable, Writable
  <2> QED
    BY <1>1, <2>1, <2>2, <2>3, <2>4
<1>3. CASE Next /\ ~ \E s \in Sessions : Session(s)
  <2>1. ItemsWritable'
    BY <1>1, <1>3, SessionsOtherwise DEF ItemsWritable, Writable
  <2> QED
    BY <1>3, <2>1, SessionsOtherwise
<1>4. CASE UNCHANGED vars
  BY <1>1, <1>4 DEF vars, SessionsTyped, ItemsWritable, Writable
<1> QED
  BY <1>2, <1>3, <1>4

----------------------------------------------------------------------------
(* The rows.                                                               *)

\* A session's step leaves the table, or writes the item it decided on, even
\* when it counts the write as failed.
LEMMA SessionWrites ==
  ASSUME NEW s \in Sessions, Session(s), ItemsWritable
  PROVE  table' = table \/ \E i : Writable(i) /\ table' = Written(i)
<1>1. ASSUME NEW i \in sess[s].item, sess[s].pc = "write", table' = Written(i)
      PROVE  \E k : Writable(k) /\ table' = Written(k)
  BY <1>1 DEF ItemsWritable
<1>2. CASE WriteFails(s)
  BY <1>1, <1>2 DEF WriteFails
<1>3. ASSUME NEW i \in sess[s].item, Write(s, i)
      PROVE  \E k : Writable(k) /\ table' = Written(k)
  BY <1>1, <1>3 DEF Write
<1>4. List(s) \/ Read(s) \/ (\E t \in sess[s].todo : NextItem(s, t)) =>
        table' = table
  BY DEF List, NextItem, Read, SessionOnly
<1> QED
  BY <1>2, <1>3, <1>4 DEF Session

\* CloudStack's own inserts and removals keep the type of its table.
LEMMA CloudStackTyped ==
  ASSUME NTypeOK, CloudStackChanges
  PROVE  table' \in Seq(NicRow)
<1>1. table \in [1 .. Len(table) -> NicRow] /\ table \in Seq(NicRow)
  BY LenProperties DEF NTypeOK
<1>2. ASSUME NEW m \in Macs, NEW d \in Devices \ {0}, NEW n \in Nets,
             table' = Append(table, [mac |-> m, device |-> d, net |-> n,
                  ip |-> None, default |-> FALSE, live |-> TRUE])
      PROVE  table' \in Seq(NicRow)
  <2> DEFINE added == [mac |-> m, device |-> d, net |-> n, ip |-> None,
                       default |-> FALSE, live |-> TRUE]
  <2>1. added \in NicRow
    BY DEF NicRow
  <2> HIDE DEF added
  <2>2. table' = Append(table, added)
    BY <1>2 DEF added
  <2> QED
    BY <1>1, <2>1, <2>2, AppendProperties
<1>3. ASSUME NEW i \in DOMAIN table,
             table' = [table EXCEPT ![i] = [table[i] EXCEPT !.live = FALSE]]
      PROVE  table' \in Seq(NicRow)
  <2>1. table[i] \in NicRow
    BY <1>1
  <2>2. table' \in [1 .. Len(table) -> NicRow]
    BY <1>1, <1>3, <2>1, RowUpdates
  <2>3. Len(table) \in Nat
    BY <1>1, LenProperties
  <2> QED
    BY <2>2, <2>3, SeqDef
<1>4. \/ \E m \in Macs, d \in Devices \ {0}, n \in Nets :
           table' = Append(table, [mac |-> m, device |-> d, net |-> n,
                  ip |-> None, default |-> FALSE, live |-> TRUE])
      \/ \E i \in DOMAIN table :
           table' = [table EXCEPT ![i] = [table[i] EXCEPT !.live = FALSE]]
  BY DEF CloudStackChanges
<1> QED
  BY <1>2, <1>3, <1>4

\* Every step keeps the types of the rows, the mappings and the cycle.
LEMMA RowsTyped ==
  ASSUME Typed, [Next]_vars
  PROVE  /\ guest' \in GuestNics
         /\ table' \in Seq(NicRow)
         /\ mapping' \in [Bridges -> Nets \cup {None}]
         /\ px' \in [current : BOOLEAN, marked : BOOLEAN, nics : GuestNics]
         /\ cs' \in [current : BOOLEAN, marked : BOOLEAN, nics : Seq(NicRow)]
         /\ linked' \in BOOLEAN /\ ready' \in BOOLEAN
         /\ sync' \in [pc : Phases, read : GuestNics, again : BOOLEAN]
         /\ fresh' \subseteq {"px", "cs"}
<1> DEFINE PxRow == [current : BOOLEAN, marked : BOOLEAN, nics : GuestNics]
           CsRow == [current : BOOLEAN, marked : BOOLEAN, nics : Seq(NicRow)]
           SyncRow == [pc : Phases, read : GuestNics, again : BOOLEAN]
<1>1. /\ guest \in GuestNics /\ table \in Seq(NicRow)
      /\ mapping \in [Bridges -> Nets \cup {None}]
      /\ px \in PxRow /\ cs \in CsRow /\ linked \in BOOLEAN
      /\ ready \in BOOLEAN /\ sync \in SyncRow /\ fresh \subseteq {"px", "cs"}
  BY DEF Typed, NTypeOK
<1>2. /\ \A p \in Phases : [sync EXCEPT !.pc = p] \in SyncRow
      /\ Resting \in SyncRow
      /\ [Resting EXCEPT !.pc = "invalidate", !.again = TRUE] \in SyncRow
      /\ [sync EXCEPT !.pc = "table", !.read = guest] \in SyncRow
  BY <1>1, RestingTyped DEF Phases
<1>3. /\ \A b \in BOOLEAN : [px EXCEPT !.current = b] \in PxRow
      /\ \A b \in BOOLEAN : [cs EXCEPT !.current = b] \in CsRow
      /\ \A b \in BOOLEAN : [px EXCEPT !.marked = b] \in PxRow
      /\ \A b \in BOOLEAN : [cs EXCEPT !.marked = b] \in CsRow
      /\ [px EXCEPT !.marked = TRUE, !.nics = sync.read] \in PxRow
      /\ [cs EXCEPT !.marked = TRUE, !.nics = table] \in CsRow
  BY <1>1
<1> DEFINE Good == /\ guest' \in GuestNics /\ table' \in Seq(NicRow)
                   /\ mapping' \in [Bridges -> Nets \cup {None}]
                   /\ px' \in PxRow /\ cs' \in CsRow /\ linked' \in BOOLEAN
                   /\ ready' \in BOOLEAN /\ sync' \in SyncRow
                   /\ fresh' \subseteq {"px", "cs"}
<1> SUFFICES Good
  OBVIOUS
<1> HIDE DEF PxRow, CsRow, SyncRow
<1>4. CASE Sync
  <2>1. CASE SyncProxmox
    BY <1>1, <1>2, <1>3, <2>1 DEF SyncProxmox, Poll, World, Phases
  <2>2. CASE SyncCloudstack
    BY <1>1, <1>2, <1>3, <2>2 DEF SyncCloudstack, Poll, World, Phases
  <2>3. CASE MatchVms
    BY <1>1, <1>2, <1>3, <2>3 DEF MatchVms, Poll, World, Phases
  <2>4. CASE Invalidate
    BY <1>1, <1>2, <2>4 DEF Invalidate, Poll, World, Rows, Phases
  <2>5. CASE Reset
    <3>1. /\ (px.marked /\ ~px.current) \in BOOLEAN
          /\ (cs.marked /\ ~cs.current) \in BOOLEAN
      OBVIOUS
    <3>2. /\ px' = [px EXCEPT !.marked = px.marked /\ ~px.current]
          /\ cs' = [cs EXCEPT !.marked = cs.marked /\ ~cs.current]
      BY <2>5 DEF Reset
    <3>3. px' \in PxRow /\ cs' \in CsRow
      BY <1>3, <3>1, <3>2
    <3> QED
      BY <1>1, <1>2, <2>5, <3>3 DEF Reset, Poll, World, Phases
  <2>6. CASE ResetFails
    BY <1>1, <1>2, <2>6 DEF ResetFails, Poll, World, Rows, Phases
  <2>7. CASE CollectConfig
    BY <1>1, <1>2, <2>7 DEF CollectConfig, World, Rows
  <2>8. CASE CollectTable
    <3>1. PICK got \in SUBSET {"px", "cs"}, failed \in SUBSET {"px", "cs"} :
            /\ px' = IF "px" \in got
                     THEN [px EXCEPT !.marked = TRUE, !.nics = sync.read]
                     ELSE px
            /\ cs' = IF "cs" \in got
                     THEN [cs EXCEPT !.marked = TRUE, !.nics = table]
                     ELSE cs
            /\ fresh' = fresh \cup got
            /\ ready' = (failed = {})
      <4> DEFINE Collected == (IF px.current THEN {"px"} ELSE {}) \cup
                              (IF linked /\ cs.current THEN {"cs"} ELSE {})
      <4>1. PICK failed \in SUBSET {"px", "cs"}, passed \in SUBSET {"px", "cs"} :
              LET got == Collected \ (failed \cup passed)
              IN /\ px' = IF "px" \in got
                          THEN [px EXCEPT !.marked = TRUE, !.nics = sync.read]
                          ELSE px
                 /\ cs' = IF "cs" \in got
                          THEN [cs EXCEPT !.marked = TRUE, !.nics = table]
                          ELSE cs
                 /\ fresh' = fresh \cup got
                 /\ ready' = (failed = {})
        BY <2>8 DEF CollectTable
      <4>2. Collected \ (failed \cup passed) \in SUBSET {"px", "cs"}
        OBVIOUS
      <4> HIDE DEF Collected
      <4> QED
        BY <4>1, <4>2
    <3>2. px' \in PxRow /\ cs' \in CsRow
      BY <1>1, <1>3, <3>1
    <3> QED
      BY <1>1, <1>2, <2>8, <3>1, <3>2 DEF CollectTable, Poll, World, Phases
  <2>9. CASE PollAgainFails
    BY <1>1, <1>3, <2>9 DEF PollAgainFails, World
  <2>10. CASE AutoStart \/ AutoSkip \/ AutoEnd
    BY <1>1, <1>2, <2>10
    DEF AutoStart, AutoSkip, AutoEnd, Poll, World, Rows, Phases
  <2> QED
    BY <1>4, <2>1, <2>2, <2>3, <2>4, <2>5, <2>6, <2>7, <2>8, <2>9, <2>10
    DEF Sync
<1>5. ASSUME NEW s \in Sessions, Session(s) PROVE Good
  <2>1. UNCHANGED <<World, Rows, ready, sync, fresh>>
    BY <1>5 DEF Session, List, NextItem, Read, Write, WriteFails, SessionOnly
  <2>2. table' \in Seq(NicRow)
    BY <1>1, <1>5, SessionWrites, WrittenTyped DEF Typed
  <2> QED
    BY <1>1, <2>1, <2>2 DEF World, Rows
<1>6. ASSUME NEW r \in Routes, RouteAll(r) \/ RouteOne(r) PROVE Good
  BY <1>1, <1>6 DEF RouteAll, RouteOne, Request, World, Rows
<1>7. CASE Restart
  BY <1>1, <1>2, <1>7 DEF Restart, World, Rows
<1>8. CASE GuestChanges \/ MappingChanges
  <2>1. /\ guest' \in GuestNics
        /\ mapping' \in [Bridges -> Nets \cup {None}]
    BY <1>1, <1>8 DEF GuestChanges, MappingChanges
  <2> QED
    BY <1>1, <1>8, <2>1 DEF GuestChanges, MappingChanges, Changes, Rows
<1>9. CASE CloudStackChanges
  BY <1>1, <1>9, CloudStackTyped DEF CloudStackChanges, Changes, Rows, World,
     Typed
<1>10. CASE Relink
  BY <1>1, <1>10 DEF Relink, World
<1>11. ASSUME NEW s \in Sessions, Aborts(s) PROVE Good
  BY <1>1, <1>2, <1>11 DEF Aborts, World, Rows
<1>12. CASE UNCHANGED vars
  BY <1>1, <1>12 DEF vars
<1> QED
  BY <1>4, <1>5, <1>6, <1>7, <1>8, <1>9, <1>10, <1>11, <1>12 DEF Next

\* Types are kept.
LEMMA TypedKept ==
  Typed /\ [Next]_vars => Typed'
<1> SUFFICES ASSUME Typed, [Next]_vars PROVE Typed'
  OBVIOUS
<1>1. SessionsTyped' /\ ItemsWritable'
  BY SessionsKept
<1>2. \A s \in Sessions :
        /\ sess'[s].pc \in {"idle", "list", "next", "read", "write"}
        /\ sess'[s].wrote \in BOOLEAN
        /\ sess'[s].pc = "write" => sess'[s].item \subseteq Item
  BY <1>1 DEF SessionsTyped, SessionRow, ItemsWritable, Writable
<1> QED
  BY <1>1, <1>2, RowsTyped DEF Typed, NTypeOK

----------------------------------------------------------------------------
(* The automatic session and the snapshots of its cycle.                   *)

\* An automatic session that aborts ends the cycle, and leaves what it collected.
CycleEnds == sync' = Resting /\ UNCHANGED <<px, cs, ready, fresh>>
             /\ Aborts(FullSync)

\* Sessions, routes and everybody else leave the cycle and the snapshots alone.
LEMMA CycleElsewhere ==
  ASSUME [Next]_vars
  PROVE  \/ UNCHANGED <<px, cs, ready, sync, fresh>> \/ Sync \/ Restart
         \/ CycleEnds
<1>1. ASSUME NEW s \in Sessions, Session(s)
      PROVE  UNCHANGED <<px, cs, ready, sync, fresh>>
  BY <1>1 DEF Session, List, NextItem, Read, Write, WriteFails, SessionOnly,
     Rows
<1>2. ASSUME NEW r \in Routes, RouteAll(r) \/ RouteOne(r)
      PROVE  UNCHANGED <<px, cs, ready, sync, fresh>>
  BY <1>2 DEF RouteAll, RouteOne, Request, Rows
<1>3. GuestChanges \/ MappingChanges \/ CloudStackChanges \/ Relink
        \/ UNCHANGED vars => UNCHANGED <<px, cs, ready, sync, fresh>>
  BY DEF GuestChanges, MappingChanges, CloudStackChanges, Relink, Changes,
     Rows, vars
<1>4. ASSUME NEW s \in Sessions, Aborts(s)
      PROVE  UNCHANGED <<px, cs, ready, sync, fresh>> \/ CycleEnds
  BY <1>4 DEF Aborts, CycleEnds, Rows
<1> QED
  BY <1>1, <1>2, <1>3, <1>4 DEF Next

\* The collection marks only what it collects.
LEMMA CollectionMarks ==
  ASSUME Typed, MarkersDown, CollectTable
  PROVE  /\ px'.current /\ px'.marked => "px" \in fresh'
         /\ cs'.current /\ cs'.marked => "cs" \in fresh'
         /\ sync'.pc = "reconcile"
<1> DEFINE Collected == (IF px.current THEN {"px"} ELSE {}) \cup
                        (IF linked /\ cs.current THEN {"cs"} ELSE {})
<1>1. PICK failed \in SUBSET {"px", "cs"}, passed \in SUBSET {"px", "cs"} :
        LET got == Collected \ (failed \cup passed)
        IN /\ px' = IF "px" \in got
                    THEN [px EXCEPT !.marked = TRUE, !.nics = sync.read]
                    ELSE px
           /\ cs' = IF "cs" \in got
                    THEN [cs EXCEPT !.marked = TRUE, !.nics = table]
                    ELSE cs
           /\ fresh' = fresh \cup got
  BY DEF CollectTable
<1>2. ~(px.current /\ px.marked) /\ ~(cs.current /\ cs.marked)
  BY DEF MarkersDown, Collecting, CollectTable, Poll
<1>3. /\ px \in [current : BOOLEAN, marked : BOOLEAN, nics : GuestNics]
      /\ sync \in [pc : Phases, read : GuestNics, again : BOOLEAN]
  BY DEF Typed, NTypeOK
<1> HIDE DEF Collected
<1>4. px'.current /\ px'.marked => "px" \in fresh'
  BY <1>1, <1>2
<1>5. cs'.current /\ cs'.marked => "cs" \in fresh'
  BY <1>1, <1>2
<1>6. sync'.pc = "reconcile"
  BY <1>3 DEF CollectTable, Poll
<1> QED
  BY <1>4, <1>5, <1>6

\* The reset leaves no marker on a row that is current.
LEMMA ResetUnmarks ==
  ASSUME Typed, Reset
  PROVE  ~(px'.current /\ px'.marked) /\ ~(cs'.current /\ cs'.marked)
<1>1. /\ px \in [current : BOOLEAN, marked : BOOLEAN, nics : GuestNics]
      /\ cs \in [current : BOOLEAN, marked : BOOLEAN, nics : Seq(NicRow)]
  BY DEF Typed, NTypeOK
<1>2. /\ px' = [px EXCEPT !.marked = px.marked /\ ~px.current]
      /\ cs' = [cs EXCEPT !.marked = cs.marked /\ ~cs.current]
  BY DEF Reset
<1>3. /\ px'.current = px.current /\ px'.marked = (px.marked /\ ~px.current)
      /\ cs'.current = cs.current /\ cs'.marked = (cs.marked /\ ~cs.current)
  BY <1>1, <1>2
<1> QED
  BY <1>3

\* The flag and the markers through the cycle.
LEMMA MarkersKept ==
  ASSUME Typed, FlagDown, MarkersDown, MarkersFresh, [Next]_vars
  PROVE  FlagDown' /\ MarkersDown' /\ MarkersFresh'
<1>1. sync \in [pc : Phases, read : GuestNics, again : BOOLEAN]
  BY DEF Typed, NTypeOK
<1>2. Resting.pc = "idle"
  BY RestingTyped
<1>3. [Resting EXCEPT !.pc = "invalidate", !.again = TRUE].pc = "invalidate"
  BY DEF Resting
<1>4. CASE UNCHANGED <<px, cs, ready, sync, fresh>>
  BY <1>4 DEF FlagDown, MarkersDown, MarkersFresh, Collecting
<1>5. CASE Restart \/ CycleEnds
  BY <1>2, <1>5 DEF Restart, CycleEnds, FlagDown, MarkersDown, MarkersFresh,
     Collecting
<1>6. CASE Sync
  <2>1. CASE SyncProxmox
    BY <1>1, <2>1 DEF SyncProxmox, Poll, FlagDown, MarkersDown, MarkersFresh,
       Collecting
  <2>2. CASE SyncCloudstack
    BY <1>1, <2>2 DEF SyncCloudstack, Poll, FlagDown, MarkersDown,
       MarkersFresh, Collecting
  <2>3. CASE MatchVms
    BY <1>1, <2>3 DEF MatchVms, Poll, FlagDown, MarkersDown, MarkersFresh,
       Collecting
  <2>4. CASE Invalidate
    BY <1>1, <2>4 DEF Invalidate, Poll, FlagDown, MarkersDown, MarkersFresh,
       Collecting
  <2>5. CASE Reset
    <3>1. sync'.pc = "config" /\ ~ready'
      BY <1>1, <2>5 DEF Reset, Poll, FlagDown
    <3> QED
      BY <2>5, <3>1, ResetUnmarks
      DEF FlagDown, MarkersDown, MarkersFresh, Collecting
  <2>6. CASE ResetFails
    BY <1>1, <2>6 DEF ResetFails, Poll, FlagDown, MarkersDown, MarkersFresh,
       Collecting
  <2>7. CASE CollectConfig
    <3>1. sync'.pc = "table" /\ sync.pc = "config"
          /\ UNCHANGED <<px, cs, ready>>
      BY <1>1, <2>7 DEF CollectConfig, Rows
    <3> QED
      BY <3>1 DEF FlagDown, MarkersDown, MarkersFresh, Collecting
  <2>8. CASE CollectTable
    BY <2>8, CollectionMarks DEF FlagDown, MarkersDown, MarkersFresh,
       Collecting
  <2>9. CASE PollAgainFails
    <3>1. /\ cs' = [cs EXCEPT !.current = FALSE] /\ sync.pc = "reconcile"
          /\ UNCHANGED <<px, ready, sync, fresh>>
      BY <2>9 DEF PollAgainFails
    <3>2. ~cs'.current
      BY <3>1 DEF Typed, NTypeOK
    <3> QED
      BY <3>1, <3>2 DEF FlagDown, MarkersDown, MarkersFresh, Collecting
  <2>10. CASE AutoStart
    BY <1>1, <2>10 DEF AutoStart, AutoMayStart, Poll, Rows, FlagDown,
       MarkersDown, MarkersFresh, Collecting
  <2>11. CASE AutoSkip
    BY <1>2, <2>11 DEF AutoSkip, FlagDown, MarkersDown, MarkersFresh,
       Collecting
  <2>12. CASE AutoEnd
    <3>1. sync'.pc \in {"idle", "invalidate"}
      BY <1>2, <1>3, <2>12 DEF AutoEnd
    <3> QED
      BY <3>1 DEF FlagDown, MarkersDown, MarkersFresh, Collecting
  <2> QED
    BY <1>6, <2>1, <2>2, <2>3, <2>4, <2>5, <2>6, <2>7, <2>8, <2>9, <2>10,
       <2>11, <2>12
    DEF Sync
<1> QED
  BY <1>4, <1>5, <1>6, CycleElsewhere

\* The automatic session is within the cycle that started it, and derives what
\* it writes from what that cycle collected.
LEMMA AutoKept ==
  ASSUME Typed, AutoInv, [Next]_vars
  PROVE  AutoInv'
<1>1. /\ sync \in [pc : Phases, read : GuestNics, again : BOOLEAN]
      /\ FullSync \in Sessions /\ SessionsTyped
  BY DEF Typed, NTypeOK, Sessions
<1>2. /\ sess[FullSync].pc # "idle" => sync.pc = "auto"
      /\ sess[FullSync].pc = "write" => fresh = {"px", "cs"}
  BY DEF AutoInv, AutoWithinSync, AutoWritesFromThisCycle
<1>3. sync.pc = "auto" =>
        \/ UNCHANGED <<px, cs, sync, fresh>>
        \/ sess'[FullSync].pc = "idle"
  <2>1. sync.pc = "auto" /\ Sync => AutoEnd
    BY DEF Sync, SyncProxmox, SyncCloudstack, MatchVms, Invalidate, Reset,
       ResetFails, CollectConfig, CollectTable, PollAgainFails, AutoStart,
       AutoSkip, Poll
  <2>2. AutoEnd \/ Restart \/ CycleEnds => sess'[FullSync].pc = "idle"
    BY <1>1, IdleTyped DEF AutoEnd, Restart, CycleEnds, Aborts, Step,
       SessionsTyped
  <2> QED
    BY <2>1, <2>2, CycleElsewhere
<1>4. AutoWithinSync'
  <2>1. AutoStart => sync'.pc = "auto"
    BY <1>1 DEF AutoStart, Poll
  <2> QED
    BY <1>2, <1>3, <2>1, SessionsKept DEF AutoWithinSync
<1>5. AutoWritesFromThisCycle'
  <2> SUFFICES ASSUME sess'[FullSync].pc = "write" PROVE fresh' = {"px", "cs"}
    BY DEF AutoWritesFromThisCycle
  <2>1. CASE sess'[FullSync] = sess[FullSync]
    BY <1>2, <1>3, <2>1
  <2>2. CASE Session(FullSync)
    <3>1. PICK r \in SessionRow :
            /\ sess' = [sess EXCEPT ![FullSync] = r]
            /\ sess[FullSync].pc # "idle"
            /\ r.pc = "write" => Eligible
      BY <1>1, <2>2, SessionSteps
    <3>2. Eligible /\ sync.pc = "auto"
      BY <1>1, <1>2, <3>1 DEF SessionsTyped
    <3>3. "px" \in fresh /\ "cs" \in fresh /\ fresh \subseteq {"px", "cs"}
      BY <3>2 DEF Eligible, Linked, AutoInv, MarkersFresh, Typed, NTypeOK
    <3> QED
      BY <1>3, <3>2, <3>3
  <2>3. ASSUME NEW s \in Sessions \ {FullSync}, Session(s)
        PROVE  sess'[FullSync] = sess[FullSync]
    <3>1. PICK r \in SessionRow : sess' = [sess EXCEPT ![s] = r]
      BY <2>3, SessionSteps
    <3> QED
      BY <1>1, <3>1 DEF SessionsTyped
  <2>4. CASE Next /\ ~ \E s \in Sessions : Session(s)
    BY <1>1, <2>1, <2>4, SessionsOtherwise
  <2>5. UNCHANGED vars => sess' = sess
    BY DEF vars
  <2> QED
    BY <2>1, <2>2, <2>3, <2>4, <2>5
<1> QED
  BY <1>4, <1>5, MarkersKept DEF AutoInv

----------------------------------------------------------------------------
(* The default NIC.                                                        *)

\* An appended row is the only default one, or is none.
LEMMA AppendOneDefault ==
  ASSUME NEW rows \in Seq(NicRow), NEW n \in NicRow, OneDefaultIn(rows),
         n.default => \A j \in DOMAIN rows : ~(rows[j].live /\ rows[j].default)
  PROVE  OneDefaultIn(Append(rows, n))
<1> DEFINE t == Append(rows, n)
<1>1. /\ DOMAIN t = 1 .. Len(rows) + 1 /\ DOMAIN rows = 1 .. Len(rows)
      /\ t[Len(rows) + 1] = n /\ \A j \in 1 .. Len(rows) : t[j] = rows[j]
      /\ Len(rows) \in Nat
  BY AppendProperties, LenProperties
<1> HIDE DEF t
<1>2. \A j \in DOMAIN t : j \in DOMAIN rows \/ j = Len(rows) + 1
  BY <1>1
<1>3. ASSUME NEW i \in DOMAIN t, NEW j \in DOMAIN t,
             t[i].live, t[i].default, t[j].live, t[j].default
      PROVE  i = j
  <2>1. CASE n.default
    BY <1>1, <1>2, <1>3, <2>1
  <2>2. CASE ~ n.default
    BY <1>1, <1>2, <1>3, <2>2 DEF OneDefaultIn
  <2> QED
    BY <2>1, <2>2
<1> QED
  BY <1>3 DEF OneDefaultIn, t

\* A row that gains neither mark gives no second default.
LEMMA NoNewDefault ==
  ASSUME OneDefault, NEW t, DOMAIN t \subseteq DOMAIN table,
         \A j \in DOMAIN t : t[j].live /\ t[j].default =>
           table[j].live /\ table[j].default
  PROVE  OneDefaultIn(t)
  BY DEF OneDefault, OneDefaultIn

\* What a session writes leaves at most one default NIC, from whatever snapshot
\* it was derived.
LEMMA WrittenOneDefault ==
  ASSUME NTypeOK, OneDefault, NEW i, Writable(i)
  PROVE  OneDefaultIn(Written(i))
<1>1. /\ table \in [1 .. Len(table) -> NicRow] /\ table \in Seq(NicRow)
      /\ Len(table) \in Nat /\ DOMAIN table = 1 .. Len(table)
  BY LenProperties DEF NTypeOK
<1>2. i \in Item /\ i.mac \in Macs /\ i.ip \in Ips \cup {None}
  BY DEF Writable, Item
<1>3. CASE i.type = "missing"
  <2> DEFINE cleared == [j \in DOMAIN table |->
                IF i.device = 0 /\ table[j].live
                THEN [table[j] EXCEPT !.default = FALSE] ELSE table[j]]
             added == [mac |-> i.mac, device |-> i.device, net |-> i.net,
                       ip |-> i.ip, default |-> i.device = 0, live |-> TRUE]
  <2>1. added \in NicRow /\ (added.default <=> i.device = 0)
    BY <1>2, <1>3 DEF Writable, NicRow
  <2>2. cleared \in Seq(NicRow)
    <3>1. cleared \in [1 .. Len(table) -> NicRow]
      BY <1>1, RowUpdates
    <3> QED
      BY <1>1, <3>1, SeqDef
  <2>3. \A j \in DOMAIN table :
          IF i.device = 0 /\ table[j].live
          THEN ~ cleared[j].default ELSE cleared[j] = table[j]
    BY <1>1 DEF NicRow
  <2>4. DOMAIN cleared = DOMAIN table /\ Written(i) = Append(cleared, added)
    BY <1>3 DEF Written, Inserted
  <2> HIDE DEF cleared, added
  <2>5. OneDefaultIn(cleared)
    BY <2>3, <2>4, NoNewDefault
  <2>6. added.default =>
          \A j \in DOMAIN cleared : ~(cleared[j].live /\ cleared[j].default)
    BY <2>1, <2>3, <2>4
  <2> QED
    BY <2>1, <2>2, <2>4, <2>5, <2>6, AppendOneDefault
<1>4. CASE i.type # "missing"
  <2>1. Written(i) = table \/
        \E n \in NicRow :
          /\ i.nic \in DOMAIN table /\ Written(i) = [table EXCEPT ![i.nic] = n]
          /\ n.live /\ n.default =>
               table[i.nic].live /\ table[i.nic].default
    <3>1. CASE i.nic \notin DOMAIN table
      BY <1>1, <1>2, <1>4, <3>1 DEF Written, Item, Types
    <3>2. CASE i.nic \in DOMAIN table
      <4> DEFINE n == table[i.nic]
                 a == [n EXCEPT !.net = IF n.live THEN i.net ELSE n.net]
                 b == [n EXCEPT !.ip = IF n.live THEN i.ip ELSE n.ip]
                 c == [n EXCEPT !.live = FALSE]
      <4>1. n \in NicRow
        BY <1>1, <3>2
      <4>2. c \in NicRow /\ ~c.live
        BY <4>1 DEF NicRow
      <4>3. i.type = "network" =>
              a \in NicRow /\ a.live = n.live /\ a.default = n.default
        BY <4>1 DEF NicRow, Writable
      <4>4. b \in NicRow /\ b.live = n.live /\ b.default = n.default
        BY <1>2, <4>1 DEF NicRow
      <4>5. /\ i.type = "network" => Written(i) = [table EXCEPT ![i.nic] = a]
            /\ i.type = "ip" => Written(i) = [table EXCEPT ![i.nic] = b]
            /\ i.type = "extra" => Written(i) = [table EXCEPT ![i.nic] = c]
        BY <1>4 DEF Written
      <4> HIDE DEF a, b, c
      <4> QED
        BY <1>2, <1>4, <3>2, <4>2, <4>3, <4>4, <4>5 DEF Item, Types
    <3> QED
      BY <3>1, <3>2
  <2>2. /\ DOMAIN Written(i) = DOMAIN table
        /\ \A j \in DOMAIN table :
             Written(i)[j].live /\ Written(i)[j].default =>
               table[j].live /\ table[j].default
    BY <1>1, <2>1
  <2> QED
    BY <2>2, NoNewDefault
<1> QED
  BY <1>3, <1>4

\* Nor do CloudStack's own changes.
LEMMA OneDefaultKept ==
  ASSUME Typed, OneDefault, [Next]_vars
  PROVE  OneDefault'
<1>1. /\ table \in [1 .. Len(table) -> NicRow] /\ table \in Seq(NicRow)
      /\ DOMAIN table = 1 .. Len(table)
  BY LenProperties DEF Typed, NTypeOK
<1>2. CASE table' = table
  BY <1>2 DEF OneDefault, OneDefaultIn
<1>3. ASSUME NEW i, Writable(i), table' = Written(i)
      PROVE  OneDefault'
  <2>1. OneDefaultIn(Written(i))
    BY <1>3, WrittenOneDefault DEF Typed
  <2> QED
    BY <1>3, <2>1 DEF OneDefault, OneDefaultIn
<1>4. ASSUME NEW m \in Macs, NEW d \in Devices \ {0}, NEW n \in Nets,
             table' = Append(table, [mac |-> m, device |-> d, net |-> n,
                  ip |-> None, default |-> FALSE, live |-> TRUE])
      PROVE  OneDefault'
  <2> DEFINE added == [mac |-> m, device |-> d, net |-> n, ip |-> None,
                       default |-> FALSE, live |-> TRUE]
  <2>1. added \in NicRow /\ ~added.default /\ table' = Append(table, added)
    BY <1>4 DEF NicRow
  <2> HIDE DEF added
  <2>2. OneDefaultIn(Append(table, added))
    BY <1>1, <2>1, AppendOneDefault DEF OneDefault
  <2> QED
    BY <2>1, <2>2 DEF OneDefault, OneDefaultIn
<1>5. ASSUME NEW i \in DOMAIN table,
             table' = [table EXCEPT ![i] = [table[i] EXCEPT !.live = FALSE]]
      PROVE  OneDefault'
  <2>1. table[i] \in NicRow
    BY <1>1
  <2>2. ~[table[i] EXCEPT !.live = FALSE].live
    BY <2>1 DEF NicRow
  <2>3. /\ DOMAIN table' = DOMAIN table
        /\ \A j \in DOMAIN table' : table'[j].live /\ table'[j].default =>
             table[j].live /\ table[j].default
    BY <1>1, <1>5, <2>2
  <2>4. OneDefaultIn(table')
    BY <2>3, NoNewDefault
  <2> QED
    BY <2>4 DEF OneDefault, OneDefaultIn
<1>6. CloudStackChanges =>
        \/ \E m \in Macs, d \in Devices \ {0}, n \in Nets :
             table' = Append(table, [mac |-> m, device |-> d, net |-> n,
                  ip |-> None, default |-> FALSE, live |-> TRUE])
        \/ \E i \in DOMAIN table :
             table' = [table EXCEPT ![i] = [table[i] EXCEPT !.live = FALSE]]
  BY DEF CloudStackChanges
<1>7. \/ table' = table
      \/ \E i : Writable(i) /\ table' = Written(i)
      \/ CloudStackChanges
  <2>1. ASSUME NEW s \in Sessions, Session(s)
        PROVE  table' = table \/ \E i : Writable(i) /\ table' = Written(i)
    BY <2>1, SessionWrites DEF Typed
  <2>2. ASSUME NEW r \in Routes, RouteAll(r) \/ RouteOne(r)
        PROVE  table' = table
    BY <2>2 DEF RouteAll, RouteOne, Request
  <2>3. Sync \/ Restart \/ GuestChanges \/ MappingChanges \/ Relink
          \/ (\E s \in Sessions : Aborts(s)) \/ UNCHANGED vars
          => table' = table
    BY DEF Sync, SyncProxmox, SyncCloudstack, MatchVms, Invalidate, Reset,
       ResetFails, CollectConfig, CollectTable, PollAgainFails, AutoStart,
       AutoSkip, AutoEnd, Restart, GuestChanges, MappingChanges, Relink, Aborts, vars
  <2> QED
    BY <2>1, <2>2, <2>3 DEF Next
<1> QED
  BY <1>2, <1>3, <1>4, <1>5, <1>6, <1>7

----------------------------------------------------------------------------
(* The theorems.                                                           *)

LEMMA InitNInv == Init => NInv
<1> SUFFICES ASSUME Init PROVE NInv
  OBVIOUS
<1>1. PICK m \in Macs, b \in Bridges, n \in Nets, i \in Ips :
         /\ guest = [d \in Devices |->
              IF d = 0 THEN [mac |-> m, bridge |-> b, ip |-> i] ELSE NoNic]
         /\ mapping = [c \in Bridges |-> IF c = b THEN n ELSE None]
         /\ table = <<[mac |-> m, device |-> 0, net |-> n, ip |-> i,
                       default |-> TRUE, live |-> TRUE]>>
  BY DEF Init
<1>2. guest \in GuestNics
  <2>1. guest \in [Devices -> Nic]
    BY <1>1 DEF Nic
  <2>2. \A d \in Devices \ {0} : guest[d].mac = None
    BY <1>1 DEF NoNic
  <2> QED
    BY <2>1, <2>2 DEF GuestNics
<1>3. table \in Seq(NicRow) /\ OneDefault
  <2> DEFINE row == [mac |-> m, device |-> 0, net |-> n, ip |-> i,
                     default |-> TRUE, live |-> TRUE]
  <2>1. row \in NicRow
    BY NicConstants DEF NicRow
  <2>2. table = <<row>>
    BY <1>1
  <2> HIDE DEF row
  <2> QED
    BY <2>1, <2>2 DEF OneDefault, OneDefaultIn
<1>4. mapping \in [Bridges -> Nets \cup {None}]
  BY <1>1
<1>5. /\ px \in [current : BOOLEAN, marked : BOOLEAN, nics : GuestNics]
      /\ cs \in [current : BOOLEAN, marked : BOOLEAN, nics : Seq(NicRow)]
  BY RestingTyped DEF Init
<1>6. SessionsTyped /\ \A s \in Sessions : sess[s].pc = "idle"
  BY IdleTyped DEF Init, SessionsTyped
<1>7. Typed
  BY <1>2, <1>3, <1>4, <1>5, <1>6, RestingTyped
  DEF Init, Typed, NTypeOK, SessionsTyped, SessionRow, ItemsWritable
<1>8. AutoInv
  BY <1>6, RestingTyped DEF Init, AutoInv, AutoWithinSync, FlagDown,
     MarkersDown, MarkersFresh, Collecting, AutoWritesFromThisCycle, Sessions
<1> QED
  BY <1>3, <1>7, <1>8 DEF NInv

\* The invariant holds whatever polls fail and whoever changes what.
THEOREM NicInvariant == NSpec => []NInv
<1>1. NInv /\ [Next]_vars => NInv'
  BY TypedKept, AutoKept, OneDefaultKept DEF NInv
<1> QED
  BY <1>1, InitNInv, PTL DEF NSpec

\* Rows, snapshots and sessions keep the types of their columns.
THEOREM NicTypes == NSpec => []NTypeOK
<1>1. NInv => NTypeOK
  BY DEF NInv, Typed
<1> QED
  BY <1>1, NicInvariant, PTL

\* The automatic session writes what it derived from snapshots of both sides
\* that its own cycle collected, whatever fails, restarts or is passed over.
THEOREM AutomaticWritesAreFresh == NSpec => []AutoWritesFromThisCycle
<1>1. NInv => AutoWritesFromThisCycle
  BY DEF NInv, AutoInv
<1> QED
  BY <1>1, NicInvariant, PTL

\* However many sessions insert, from whatever snapshots, CloudStack's VM never
\* has two default NICs.
THEOREM OneDefaultNic == NSpec => []AtMostOneDefault
<1>1. NInv => AtMostOneDefault
  <2> SUFFICES ASSUME OneDefault PROVE AtMostOneDefault
    BY DEF NInv
  <2> DEFINE S == {i \in DOMAIN table : table[i].live /\ table[i].default}
  <2>1. S = {} \/ \E x : S = {x}
    BY DEF OneDefault, OneDefaultIn
  <2> HIDE DEF S
  <2>2. /\ Cardinality({}) = 0
        /\ \A x : Cardinality({x}) = 1
    BY FS_EmptySet, FS_Singleton
  <2>3. Cardinality(S) <= 1
    <3>1. Cardinality(S) \in {0, 1}
      BY <2>1, <2>2, Zenon
    <3> QED
      BY <3>1
  <2> QED
    BY <2>3 DEF AtMostOneDefault, S
<1> QED
  BY <1>1, NicInvariant, PTL

=============================================================================
