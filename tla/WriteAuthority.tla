--------------------------- MODULE WriteAuthority ---------------------------
(***************************************************************************)
(* The write authority of backend/adoption_authority.py: the singleton row *)
(* of adoption_write_authority, a lease that serialises everybody who      *)
(* writes claims, executions, CloudStack or its database.                  *)
(*                                                                         *)
(* A writer acquires the row, and before each write calls its guard, which *)
(* renews the lease; the write comes later, outside the guard's            *)
(* transaction. Acquisition and renewal read the clock before their        *)
(* UPDATE. A bind callback that finds the row taken may write as well, on  *)
(* the authority of the adoption writer that holds it.                     *)
(***************************************************************************)
EXTENDS Naturals

CONSTANTS
    Operators,      \* adopt_one.py sessions (mode "operator")
    Executors,      \* run_adoption_executor, execute and reconcile routes
    Reconcilers,    \* VM and NIC reconciliation, and the other routes
    Callbacks,      \* bind routes called back by the extension
    Guests,         \* Proxmox guests
    GuestOf,        \* the guest an operator adopts, or a callback binds
    None,           \* SQL NULL
    Ghost,          \* the owner id of a process that died
    OperatorTicks,  \* timeout_seconds + 300
    AutomaticTicks, \* 300 seconds
    MaxClock        \* bound on the clock

Writers == Operators \cup Executors \cup Reconcilers \cup Callbacks

ASSUME WritersAreDistinct ==
    /\ None \notin Writers /\ Ghost \notin Writers /\ None # Ghost
    /\ Operators \cap Executors = {} /\ Operators \cap Reconcilers = {}
    /\ Operators \cap Callbacks = {} /\ Executors \cap Reconcilers = {}
    /\ Executors \cap Callbacks = {} /\ Reconcilers \cap Callbacks = {}

ASSUME AuthorityParameters ==
    /\ GuestOf \in [Operators \cup Callbacks -> Guests]
    /\ OperatorTicks \in Nat \ {0} /\ AutomaticTicks \in Nat \ {0}
    /\ MaxClock \in Nat

VARIABLES
    row,     \* the singleton row; its mode and target are the owner's
    pc,      \* where each writer is
    at,      \* the clock as its pending statement read it
    until,   \* the expiry its last guard stored, or saw in the row
    borrows, \* the callbacks that run under the guard of a holder
    lender,  \* whose authority a callback's last guard saw, until it is
             \* released (history, for the properties)
    now

avars == <<row, pc, at, until, borrows, lender, now>>

Owners == Writers \cup {None, Ghost}

Row == [owner : Owners, expires : Nat]
NoOwner == [owner |-> None, expires |-> 0]

Places == {"out", "acquiring", "in", "renewing", "asking", "writing"}

AInit ==
    /\ row = NoOwner
    /\ pc = [w \in Writers |-> "out"]
    /\ at = [w \in Writers |-> 0]
    /\ until = [w \in Writers |-> 0]
    /\ borrows = {}
    /\ lender = [w \in Writers |-> None]
    /\ now = 0

----------------------------------------------------------------------------

LeaseSeconds(w) == IF w \in Operators THEN OperatorTicks ELSE AutomaticTicks

\* Mutant: only an operator's lease has to expire.
Available_UnlessOperator(w) == row.owner \notin Operators \/ row.expires <= at[w]

\* The WHERE clause of acquire_write_authority.
Available(w) == row.owner \in {None, w} \/ row.expires <= at[w]

\* Mutant: the row is taken without an expiry.
Take_NoExpiry(w) == row' = [owner |-> w, expires |-> None]

Take(w) == row' = [owner |-> w, expires |-> at[w] + LeaseSeconds(w)]

Goto(w, place) == pc' = [pc EXCEPT ![w] = place]

\* The statement is over: what it read no longer matters.
Forget(w) == at' = [at EXCEPT ![w] = 0] /\ until' = [until EXCEPT ![w] = 0]

ReadClock(w, from, to) ==
    /\ pc[w] = from
    /\ Goto(w, to)
    /\ at' = [at EXCEPT ![w] = now]
    /\ UNCHANGED <<row, until, borrows, lender, now>>

AcquireRead(w) == ReadClock(w, "out", "acquiring")

AcquireCas(w) ==
    /\ pc[w] = "acquiring"
    /\ Available(w)
    /\ Take(w)
    /\ Goto(w, "in")
    /\ Forget(w)
    /\ UNCHANGED <<borrows, lender, now>>

\* Everyone else gives up; the bind route asks whether the holder is the
\* writer whose deployment it is part of.
AcquireRefused(w) ==
    /\ pc[w] = "acquiring"
    /\ ~Available(w)
    /\ IF w \in Callbacks
       THEN /\ Goto(w, "asking") /\ at' = [at EXCEPT ![w] = now]
            /\ UNCHANGED until
       ELSE Goto(w, "out") /\ Forget(w)
    /\ UNCHANGED <<row, borrows, lender, now>>

\* The guard of an owner: renew_write_authority, however often it likes.
RenewRead(w) == w \notin borrows /\ ReadClock(w, "in", "renewing")

RenewCas(w) ==
    /\ pc[w] = "renewing"
    /\ Available(w)
    /\ Take(w)
    /\ until' = [until EXCEPT ![w] = at[w] + LeaseSeconds(w)]
    /\ at' = [at EXCEPT ![w] = 0]
    /\ Goto(w, "writing")
    /\ UNCHANGED <<borrows, lender, now>>

\* AuthorityConflict, from which the writer leaves, or goes on to its next
\* item and guard (reconcile_vm and reconcile_active_executions catch it).
RenewRefused(w) ==
    /\ pc[w] = "renewing"
    /\ ~Available(w)
    /\ Goto(w, "in")
    /\ Forget(w)
    /\ UNCHANGED <<row, borrows, lender, now>>

\* Mutant: any current holder will do.
LendsTo_Anybody(w, c) == w # None

\* exact_authority of assert_operator_bind_callback_authority.
LendsTo(w, c) ==
    \/ w \in Operators /\ GuestOf[w] = GuestOf[c]
    \/ w \in Executors

\* The guard of a callback: it owns nothing and extends nothing.
AskHolder(c) ==
    /\ pc[c] = "asking"
    /\ LendsTo(row.owner, c) /\ row.expires > at[c]
    /\ borrows' = borrows \cup {c}
    /\ lender' = [lender EXCEPT ![c] = row.owner]
    /\ until' = [until EXCEPT ![c] = row.expires]
    /\ at' = [at EXCEPT ![c] = 0]
    /\ Goto(c, "writing")
    /\ UNCHANGED <<row, now>>

\* Nobody lends, or the claim or the execution is not the expected one.
AskRefused(c) ==
    /\ pc[c] = "asking"
    /\ Goto(c, "out")
    /\ Forget(c)
    /\ borrows' = borrows \ {c}
    /\ lender' = [lender EXCEPT ![c] = None]
    /\ UNCHANGED <<row, now>>

\* bind_claim runs the guard again before its UPDATE.
AskAgain(c) == c \in borrows /\ ReadClock(c, "in", "asking")

\* What the guard was called for: a commit, or a CloudStack request.
Write(w) ==
    /\ pc[w] = "writing"
    /\ Goto(w, "in")
    /\ Forget(w)
    /\ UNCHANGED <<row, borrows, lender, now>>

\* Mutant: the row is cleared whoever holds it by now.
Released_Anyone(w) == NoOwner

Released(w) == IF row.owner = w THEN NoOwner ELSE row

\* The finally of every writer: release_write_authority. A callback had only
\* borrowed, and what was lent on this authority is lent no more.
Leave(w) ==
    /\ pc[w] = "in"
    /\ row' = IF w \in borrows THEN row ELSE Released(w)
    /\ borrows' = borrows \ {w}
    /\ lender' = [c \in Writers |-> IF w \in {c, lender[c]} THEN None
                                    ELSE lender[c]]
    /\ Goto(w, "out")
    /\ Forget(w)
    /\ UNCHANGED now

\* The process dies at any point and releases nothing. What starts in its
\* place is another owner, so the id left in the row is nobody's.
Crash(w) ==
    /\ pc[w] # "out"
    /\ row' = [row EXCEPT !.owner = IF @ = w THEN Ghost ELSE @]
    /\ borrows' = borrows \ {w}
    /\ lender' = [c \in Writers |-> IF c = w THEN None
                                    ELSE IF lender[c] = w THEN Ghost
                                    ELSE lender[c]]
    /\ Goto(w, "out")
    /\ Forget(w)
    /\ UNCHANGED now

Tick ==
    /\ now < MaxClock
    /\ now' = now + 1
    /\ UNCHANGED <<row, pc, at, until, borrows, lender>>

----------------------------------------------------------------------------

ANext ==
    \/ \E w \in Writers :
          \/ AcquireRead(w) \/ AcquireCas(w) \/ AcquireRefused(w)
          \/ RenewRead(w) \/ RenewCas(w) \/ RenewRefused(w)
          \/ AskHolder(w) \/ AskRefused(w) \/ AskAgain(w)
          \/ Write(w) \/ Leave(w) \/ Crash(w)
    \/ Tick

ASpec == AInit /\ [][ANext]_avars

----------------------------------------------------------------------------
(* Properties.                                                             *)

\* The authority row and what each session remembers keep their types.
ATypeOK ==
    /\ row \in Row
    /\ pc \in [Writers -> Places]
    /\ at \in [Writers -> Nat]
    /\ until \in [Writers -> Nat]
    /\ borrows \subseteq Callbacks
    /\ lender \in [Writers -> Owners]
    /\ now \in Nat

\* Past its guard and before its write, with the lease the guard saw unexpired.
Covered(w) == pc[w] = "writing" /\ until[w] > now

\* Two writers are past their guards together only when one of them has let
\* its lease run out meanwhile: acquisitions that read the clock long before
\* their UPDATE, releases that come late, renewals by a writer that lost the
\* row and deaths without release never put two covered owners side by side.
CoveredOwnersAreAlone ==
    \A w, x \in Writers \ borrows : Covered(w) /\ Covered(x) => w = x

\* A callback that writes on borrowed authority does so beside its lender,
\* which is no reconciliation and adopts no other guest, and beside nobody
\* else, until the lender releases or the lease runs out.
BorrowerIsAloneWithLender ==
    \A c \in borrows, w \in Writers \ borrows :
        Covered(c) /\ Covered(w) /\ lender[c] # None =>
            /\ w = lender[c] /\ w \notin Reconcilers
            /\ w \in Operators => GuestOf[w] = GuestOf[c]

\* An unexpired lease stays in the row until its owner gives it up, also when
\* the owner is dead: only then may the next one come before the expiry.
LiveLeaseIsKept ==
    [][row.owner # None /\ row.expires > now =>
          \/ row'.owner \in {row.owner, Ghost} /\ row'.expires >= row.expires
          \/ /\ row.owner \in Writers /\ pc[row.owner] = "in"
             /\ row' = NoOwner]_avars

\* "Singleton cross-process mutex for adoption versus reconciliation writes"
\* (backend/database.py:205): no reconciliation is between its guard and its
\* write while an adoption is.
AdoptionExcludesReconciliation ==
    \A w \in Reconcilers, x \in Writers \ Reconcilers :
        ~(pc[w] = "writing" /\ pc[x] = "writing")
=============================================================================
