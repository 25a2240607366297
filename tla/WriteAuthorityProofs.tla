------------------------ MODULE WriteAuthorityProofs ------------------------
(***************************************************************************)
(* Proofs that the write authority keeps covered writers apart, for every  *)
(* set of operators, executors, reconcilers, callbacks and guests and      *)
(* every lease length. AInv adds to the properties which writer the row    *)
(* names in each place of its session (OwnerInPlace), that no clock read   *)
(* is ahead of the clock (ReadsArePast), and that a covered writer, or the *)
(* lender of a covered borrower, still has the row (OwnersCovered,         *)
(* BorrowersCovered).                                                      *)
(***************************************************************************)
EXTENDS WriteAuthority, TLAPS

\* The owner of the row is inside its session; borrowers never own it.
OwnerInPlace ==
    /\ row.owner \in Writers =>
          /\ pc[row.owner] \in {"in", "renewing", "writing"}
          /\ row.owner \notin borrows
    /\ \A w \in borrows : pc[w] \in {"in", "asking", "writing"}
    /\ \A w \in Writers : pc[w] = "asking" => w \in Callbacks
    /\ \A w \in Writers : lender[w] # None => w \in borrows

\* No clock read is ahead of the clock, and no lease reaches further than a
\* renewal pending now would take it.
ReadsArePast ==
    /\ \A w \in Writers : at[w] <= now
    /\ row.owner \in Writers =>
          /\ row.expires <= now + LeaseSeconds(row.owner)
          /\ pc[row.owner] = "renewing" =>
                row.expires <= at[row.owner] + LeaseSeconds(row.owner)

\* A covered owner still has the row, with the expiry its guard stored.
OwnersCovered ==
    \A w \in Writers \ borrows :
        Covered(w) => row.owner = w /\ row.expires = until[w]

\* So has the lender of a covered borrower, or its ghost, until it releases.
BorrowersCovered ==
    \A c \in borrows :
        Covered(c) /\ lender[c] # None =>
            row.owner = lender[c] /\ row.expires >= until[c]

\* Only an adoption lends, and only for its own guest.
LendersAdopt ==
    \A c \in borrows :
        lender[c] \in Writers => \/ lender[c] \in Executors
                                 \/ /\ lender[c] \in Operators
                                    /\ GuestOf[lender[c]] = GuestOf[c]

AInv ==
    /\ ATypeOK /\ OwnerInPlace /\ ReadsArePast
    /\ OwnersCovered /\ BorrowersCovered /\ LendersAdopt
----------------------------------------------------------------------------

USE WritersAreDistinct, AuthorityParameters
USE DEF Owners, Row, NoOwner, Places, LeaseSeconds

\* A free row and idle writers satisfy the invariant.
LEMMA InitEstablishesAInv == AInit => AInv
  BY DEF AInit, AInv, ATypeOK, OwnerInPlace, ReadsArePast, OwnersCovered,
         BorrowersCovered, LendersAdopt, Covered

\* Every step keeps the types of the row and of the sessions.
LEMMA StepKeepsATypeOK == AInv /\ [ANext]_avars => ATypeOK'
<1> SUFFICES ASSUME AInv, [ANext]_avars PROVE ATypeOK'
  OBVIOUS
<1> USE DEF AInv, ATypeOK, Goto, Forget
<1>1. ASSUME NEW w \in Writers, AcquireRead(w) \/ RenewRead(w) \/ AskAgain(w)
      PROVE  ATypeOK'
  BY <1>1 DEF AcquireRead, RenewRead, AskAgain, ReadClock
<1>2. ASSUME NEW w \in Writers, AcquireCas(w) \/ RenewCas(w)
      PROVE  ATypeOK'
  <2>1. at[w] + LeaseSeconds(w) \in Nat
    OBVIOUS
  <2> QED
    BY <1>2, <2>1 DEF AcquireCas, RenewCas, Take
<1>3. ASSUME NEW w \in Writers, AcquireRefused(w) \/ RenewRefused(w) \/ Write(w)
      PROVE  ATypeOK'
  BY <1>3 DEF AcquireRefused, RenewRefused, Write
<1>4. ASSUME NEW w \in Writers, AskHolder(w) \/ AskRefused(w)
      PROVE  ATypeOK'
  <2>1. w \in Callbacks
    BY <1>4 DEF AskHolder, AskRefused, OwnerInPlace
  <2> QED
    BY <1>4, <2>1 DEF AskHolder, AskRefused
<1>5. ASSUME NEW w \in Writers, Leave(w)
      PROVE  ATypeOK'
  BY <1>5 DEF Leave, Released
<1>6. ASSUME NEW w \in Writers, Crash(w)
      PROVE  ATypeOK'
  BY <1>6 DEF Crash
<1>7. CASE Tick
  BY <1>7 DEF Tick
<1>8. CASE UNCHANGED avars
  BY <1>8 DEF avars
<1> QED
  BY <1>1, <1>2, <1>3, <1>4, <1>5, <1>6, <1>7, <1>8 DEF ANext

\* Only a writer inside its session owns the row, and borrowers never do.
LEMMA StepKeepsOwnerInPlace == AInv /\ [ANext]_avars => OwnerInPlace'
<1> SUFFICES ASSUME AInv, [ANext]_avars PROVE OwnerInPlace'
  OBVIOUS
<1> USE DEF AInv, ATypeOK, OwnerInPlace, Goto, Forget
<1>1. ASSUME NEW w \in Writers, AcquireRead(w)
      PROVE  OwnerInPlace'
  BY <1>1 DEF AcquireRead, ReadClock
<1>2. ASSUME NEW w \in Writers, AcquireCas(w)
      PROVE  OwnerInPlace'
  BY <1>2 DEF AcquireCas, Take, Available
<1>3. ASSUME NEW w \in Writers, AcquireRefused(w)
      PROVE  OwnerInPlace'
  <2>1. w \notin borrows /\ row.owner # w /\ UNCHANGED <<row, borrows, lender>>
    BY <1>3 DEF AcquireRefused, Available
  <2>2. CASE w \in Callbacks
    <3>1. pc' = [pc EXCEPT ![w] = "asking"]
      BY <1>3, <2>2 DEF AcquireRefused
    <3> QED
      BY <2>1, <2>2, <3>1
  <2>3. CASE w \notin Callbacks
    <3>1. pc' = [pc EXCEPT ![w] = "out"]
      BY <1>3, <2>3 DEF AcquireRefused
    <3> QED
      BY <2>1, <3>1
  <2> QED
    BY <2>2, <2>3
<1>4. ASSUME NEW w \in Writers, RenewRead(w)
      PROVE  OwnerInPlace'
  BY <1>4 DEF RenewRead, ReadClock
<1>5. ASSUME NEW w \in Writers, RenewCas(w)
      PROVE  OwnerInPlace'
  BY <1>5 DEF RenewCas, Take, Available
<1>6. ASSUME NEW w \in Writers, RenewRefused(w)
      PROVE  OwnerInPlace'
  BY <1>6 DEF RenewRefused
<1>7. ASSUME NEW w \in Writers, AskHolder(w)
      PROVE  OwnerInPlace'
  BY <1>7 DEF AskHolder, LendsTo
<1>8. ASSUME NEW w \in Writers, AskRefused(w)
      PROVE  OwnerInPlace'
  BY <1>8 DEF AskRefused
<1>9. ASSUME NEW w \in Writers, AskAgain(w)
      PROVE  OwnerInPlace'
  BY <1>9 DEF AskAgain, ReadClock
<1>10. ASSUME NEW w \in Writers, Write(w)
      PROVE  OwnerInPlace'
  BY <1>10 DEF Write
<1>11. ASSUME NEW w \in Writers, Leave(w)
      PROVE  OwnerInPlace'
  BY <1>11 DEF Leave, Released
<1>12. ASSUME NEW w \in Writers, Crash(w)
      PROVE  OwnerInPlace'
  BY <1>12 DEF Crash
<1>13. CASE Tick
  BY <1>13 DEF Tick
<1>14. CASE UNCHANGED avars
  BY <1>14 DEF avars
<1> QED
  BY <1>1, <1>2, <1>3, <1>4, <1>5, <1>6, <1>7, <1>8, <1>9, <1>10, <1>11, <1>12,
     <1>13, <1>14 DEF ANext

\* No step reads a clock that is ahead, and no lease outreaches a renewal.
LEMMA StepKeepsReadsArePast == AInv /\ [ANext]_avars => ReadsArePast'
<1> SUFFICES ASSUME AInv, [ANext]_avars PROVE ReadsArePast'
  OBVIOUS
<1> USE DEF AInv, ATypeOK, OwnerInPlace, ReadsArePast, Goto, Forget
<1>1. ASSUME NEW w \in Writers, AcquireRead(w)
      PROVE  ReadsArePast'
  BY <1>1 DEF AcquireRead, ReadClock
<1>2. ASSUME NEW w \in Writers, AcquireCas(w)
      PROVE  ReadsArePast'
  BY <1>2 DEF AcquireCas, Take, Available
<1>3. ASSUME NEW w \in Writers, AcquireRefused(w)
      PROVE  ReadsArePast'
  BY <1>3 DEF AcquireRefused, Available
<1>4. ASSUME NEW w \in Writers, RenewRead(w)
      PROVE  ReadsArePast'
  BY <1>4 DEF RenewRead, ReadClock
<1>5. ASSUME NEW w \in Writers, RenewCas(w)
      PROVE  ReadsArePast'
  BY <1>5 DEF RenewCas, Take, Available
<1>6. ASSUME NEW w \in Writers, RenewRefused(w)
      PROVE  ReadsArePast'
  BY <1>6 DEF RenewRefused
<1>7. ASSUME NEW w \in Writers, AskHolder(w)
      PROVE  ReadsArePast'
  BY <1>7 DEF AskHolder, LendsTo
<1>8. ASSUME NEW w \in Writers, AskRefused(w)
      PROVE  ReadsArePast'
  BY <1>8 DEF AskRefused
<1>9. ASSUME NEW w \in Writers, AskAgain(w)
      PROVE  ReadsArePast'
  BY <1>9 DEF AskAgain, ReadClock
<1>10. ASSUME NEW w \in Writers, Write(w)
      PROVE  ReadsArePast'
  BY <1>10 DEF Write
<1>11. ASSUME NEW w \in Writers, Leave(w)
      PROVE  ReadsArePast'
  BY <1>11 DEF Leave, Released
<1>12. ASSUME NEW w \in Writers, Crash(w)
      PROVE  ReadsArePast'
  BY <1>12 DEF Crash
<1>13. CASE Tick
  BY <1>13 DEF Tick
<1>14. CASE UNCHANGED avars
  BY <1>14 DEF avars
<1> QED
  BY <1>1, <1>2, <1>3, <1>4, <1>5, <1>6, <1>7, <1>8, <1>9, <1>10, <1>11, <1>12,
     <1>13, <1>14 DEF ANext

\* An unexpired row is taken from no covered owner.
LEMMA StepKeepsOwnersCovered == AInv /\ [ANext]_avars => OwnersCovered'
<1> SUFFICES ASSUME AInv, [ANext]_avars PROVE OwnersCovered'
  OBVIOUS
<1> USE DEF AInv, ATypeOK, OwnerInPlace, ReadsArePast, OwnersCovered, Covered, Goto, Forget
<1>1. ASSUME NEW w \in Writers, AcquireRead(w)
      PROVE  OwnersCovered'
  BY <1>1 DEF AcquireRead, ReadClock
<1>2. ASSUME NEW w \in Writers, AcquireCas(w)
      PROVE  OwnersCovered'
  BY <1>2 DEF AcquireCas, Take, Available
<1>3. ASSUME NEW w \in Writers, AcquireRefused(w)
      PROVE  OwnersCovered'
  BY <1>3 DEF AcquireRefused, Available
<1>4. ASSUME NEW w \in Writers, RenewRead(w)
      PROVE  OwnersCovered'
  BY <1>4 DEF RenewRead, ReadClock
<1>5. ASSUME NEW w \in Writers, RenewCas(w)
      PROVE  OwnersCovered'
  BY <1>5 DEF RenewCas, Take, Available
<1>6. ASSUME NEW w \in Writers, RenewRefused(w)
      PROVE  OwnersCovered'
  BY <1>6 DEF RenewRefused
<1>7. ASSUME NEW w \in Writers, AskHolder(w)
      PROVE  OwnersCovered'
  BY <1>7 DEF AskHolder, LendsTo
<1>8. ASSUME NEW w \in Writers, AskRefused(w)
      PROVE  OwnersCovered'
  BY <1>8 DEF AskRefused
<1>9. ASSUME NEW w \in Writers, AskAgain(w)
      PROVE  OwnersCovered'
  BY <1>9 DEF AskAgain, ReadClock
<1>10. ASSUME NEW w \in Writers, Write(w)
      PROVE  OwnersCovered'
  BY <1>10 DEF Write
<1>11. ASSUME NEW w \in Writers, Leave(w)
      PROVE  OwnersCovered'
  BY <1>11 DEF Leave, Released
<1>12. ASSUME NEW w \in Writers, Crash(w)
      PROVE  OwnersCovered'
  BY <1>12 DEF Crash
<1>13. CASE Tick
  BY <1>13 DEF Tick
<1>14. CASE UNCHANGED avars
  BY <1>14 DEF avars
<1> QED
  BY <1>1, <1>2, <1>3, <1>4, <1>5, <1>6, <1>7, <1>8, <1>9, <1>10, <1>11, <1>12,
     <1>13, <1>14 DEF ANext

\* Nor from the lender of a covered borrower, until it releases.
LEMMA StepKeepsBorrowersCovered == AInv /\ [ANext]_avars => BorrowersCovered'
<1> SUFFICES ASSUME AInv, [ANext]_avars PROVE BorrowersCovered'
  OBVIOUS
<1> SUFFICES ASSUME NEW c \in borrows', pc'[c] = "writing", until'[c] > now',
                    lender'[c] # None
             PROVE  row'.owner = lender'[c] /\ row'.expires >= until'[c]
  BY DEF BorrowersCovered, Covered
<1> DEFINE Goal == row'.owner = lender'[c] /\ row'.expires >= until'[c]
<1>0. c \in Writers
  BY StepKeepsATypeOK DEF ATypeOK, Writers
<1> USE DEF AInv, ATypeOK, OwnerInPlace, ReadsArePast, BorrowersCovered, Covered, Goto, Forget
<1>1. ASSUME NEW w \in Writers, AcquireRead(w)
      PROVE  Goal
  BY <1>0, <1>1 DEF AcquireRead, ReadClock
<1>2. ASSUME NEW w \in Writers, AcquireCas(w)
      PROVE  Goal
  BY <1>0, <1>2 DEF AcquireCas, Take, Available
<1>3. ASSUME NEW w \in Writers, AcquireRefused(w)
      PROVE  Goal
  BY <1>0, <1>3 DEF AcquireRefused, Available
<1>4. ASSUME NEW w \in Writers, RenewRead(w)
      PROVE  Goal
  BY <1>0, <1>4 DEF RenewRead, ReadClock
<1>5. ASSUME NEW w \in Writers, RenewCas(w)
      PROVE  Goal
  BY <1>0, <1>5 DEF RenewCas, Take, Available
<1>6. ASSUME NEW w \in Writers, RenewRefused(w)
      PROVE  Goal
  BY <1>0, <1>6 DEF RenewRefused
<1>7. ASSUME NEW w \in Writers, AskHolder(w)
      PROVE  Goal
  BY <1>0, <1>7 DEF AskHolder, LendsTo
<1>8. ASSUME NEW w \in Writers, AskRefused(w)
      PROVE  Goal
  BY <1>0, <1>8 DEF AskRefused
<1>9. ASSUME NEW w \in Writers, AskAgain(w)
      PROVE  Goal
  BY <1>0, <1>9 DEF AskAgain, ReadClock
<1>10. ASSUME NEW w \in Writers, Write(w)
      PROVE  Goal
  BY <1>0, <1>10 DEF Write
<1>11. ASSUME NEW w \in Writers, Leave(w)
      PROVE  Goal
  BY <1>0, <1>11 DEF Leave, Released
<1>12. ASSUME NEW w \in Writers, Crash(w)
      PROVE  Goal
  BY <1>0, <1>12 DEF Crash
<1>13. CASE Tick
  BY <1>0, <1>13 DEF Tick
<1>14. CASE UNCHANGED avars
  BY <1>0, <1>14 DEF avars
<1> QED
  BY <1>1, <1>2, <1>3, <1>4, <1>5, <1>6, <1>7, <1>8, <1>9, <1>10, <1>11, <1>12,
     <1>13, <1>14 DEF ANext

\* Only an adoption of the same guest, or the executor, lends.
LEMMA StepKeepsLendersAdopt == AInv /\ [ANext]_avars => LendersAdopt'
<1> SUFFICES ASSUME AInv, [ANext]_avars PROVE LendersAdopt'
  OBVIOUS
<1> SUFFICES ASSUME NEW c \in borrows', lender'[c] \in Writers
             PROVE  \/ lender'[c] \in Executors
                    \/ /\ lender'[c] \in Operators
                       /\ GuestOf[lender'[c]] = GuestOf[c]
  BY DEF LendersAdopt
<1> DEFINE Goal == \/ lender'[c] \in Executors
                   \/ /\ lender'[c] \in Operators
                      /\ GuestOf[lender'[c]] = GuestOf[c]
<1>0. c \in Writers
  BY StepKeepsATypeOK DEF ATypeOK, Writers
<1> USE DEF AInv, ATypeOK, OwnerInPlace, LendersAdopt, Goto, Forget
<1>1. ASSUME NEW w \in Writers, AcquireRead(w)
      PROVE  Goal
  BY <1>0, <1>1 DEF AcquireRead, ReadClock
<1>2. ASSUME NEW w \in Writers, AcquireCas(w)
      PROVE  Goal
  BY <1>0, <1>2 DEF AcquireCas, Take, Available
<1>3. ASSUME NEW w \in Writers, AcquireRefused(w)
      PROVE  Goal
  BY <1>0, <1>3 DEF AcquireRefused, Available
<1>4. ASSUME NEW w \in Writers, RenewRead(w)
      PROVE  Goal
  BY <1>0, <1>4 DEF RenewRead, ReadClock
<1>5. ASSUME NEW w \in Writers, RenewCas(w)
      PROVE  Goal
  BY <1>0, <1>5 DEF RenewCas, Take, Available
<1>6. ASSUME NEW w \in Writers, RenewRefused(w)
      PROVE  Goal
  BY <1>0, <1>6 DEF RenewRefused
<1>7. ASSUME NEW w \in Writers, AskHolder(w)
      PROVE  Goal
  BY <1>0, <1>7 DEF AskHolder, LendsTo
<1>8. ASSUME NEW w \in Writers, AskRefused(w)
      PROVE  Goal
  BY <1>0, <1>8 DEF AskRefused
<1>9. ASSUME NEW w \in Writers, AskAgain(w)
      PROVE  Goal
  BY <1>0, <1>9 DEF AskAgain, ReadClock
<1>10. ASSUME NEW w \in Writers, Write(w)
      PROVE  Goal
  BY <1>0, <1>10 DEF Write
<1>11. ASSUME NEW w \in Writers, Leave(w)
      PROVE  Goal
  BY <1>0, <1>11 DEF Leave, Released
<1>12. ASSUME NEW w \in Writers, Crash(w)
      PROVE  Goal
  BY <1>0, <1>12 DEF Crash
<1>13. CASE Tick
  BY <1>0, <1>13 DEF Tick
<1>14. CASE UNCHANGED avars
  BY <1>0, <1>14 DEF avars
<1> QED
  BY <1>1, <1>2, <1>3, <1>4, <1>5, <1>6, <1>7, <1>8, <1>9, <1>10, <1>11, <1>12,
     <1>13, <1>14 DEF ANext

\* The strengthened invariant holds of every behaviour of the authority.
THEOREM AuthorityInvariant == ASpec => []AInv
<1>1. AInv /\ [ANext]_avars => AInv'
  BY StepKeepsATypeOK, StepKeepsOwnerInPlace, StepKeepsReadsArePast,
     StepKeepsOwnersCovered, StepKeepsBorrowersCovered, StepKeepsLendersAdopt
  DEF AInv
<1> QED
  BY <1>1, InitEstablishesAInv, PTL DEF ASpec

\* The row, the places, clock reads and borrowings hold values of their types.
THEOREM AuthorityTypeOK == ASpec => []ATypeOK
<1>1. AInv => ATypeOK
  BY DEF AInv
<1> QED
  BY <1>1, AuthorityInvariant, PTL

\* Two writers past their guards together: the lease of one has run out.
THEOREM AuthoritySeparatesOwners == ASpec => []CoveredOwnersAreAlone
<1>1. AInv => CoveredOwnersAreAlone
  BY DEF AInv, OwnersCovered, CoveredOwnersAreAlone
<1> QED
  BY <1>1, AuthorityInvariant, PTL

\* A borrower writes beside its lender only, an adoption of its own guest.
THEOREM AuthoritySeparatesBorrowers == ASpec => []BorrowerIsAloneWithLender
<1>1. AInv => BorrowerIsAloneWithLender
  BY DEF AInv, OwnersCovered, BorrowersCovered, LendersAdopt,
         BorrowerIsAloneWithLender
<1> QED
  BY <1>1, AuthorityInvariant, PTL

\* An unexpired lease is given up by its owner and taken by nobody.
THEOREM AuthorityKeepsLiveLease == ASpec => LiveLeaseIsKept
<1> DEFINE Kept ==
      row.owner # None /\ row.expires > now =>
          \/ row'.owner \in {row.owner, Ghost} /\ row'.expires >= row.expires
          \/ /\ row.owner \in Writers /\ pc[row.owner] = "in"
             /\ row' = NoOwner
<1>1. ASSUME AInv, [ANext]_avars PROVE [Kept]_avars
  <2> USE <1>1 DEF AInv, ATypeOK, OwnerInPlace, ReadsArePast
  <2>1. ASSUME NEW w \in Writers, AcquireCas(w) \/ RenewCas(w) PROVE Kept
    BY <2>1 DEF AcquireCas, RenewCas, Take, Available
  <2>2. ASSUME NEW w \in Writers, Leave(w) PROVE Kept
    BY <2>2 DEF Leave, Released
  <2>3. ASSUME NEW w \in Writers, Crash(w) PROVE Kept
    BY <2>3 DEF Crash
  <2>4. ASSUME NEW w \in Writers,
               \/ AcquireRead(w) \/ AcquireRefused(w) \/ RenewRead(w)
               \/ RenewRefused(w) \/ AskHolder(w) \/ AskRefused(w)
               \/ AskAgain(w) \/ Write(w)
        PROVE  Kept
    BY <2>4 DEF AcquireRead, AcquireRefused, RenewRead, RenewRefused,
                AskHolder, AskRefused, AskAgain, Write, ReadClock
  <2>5. CASE Tick
    BY <2>5 DEF Tick
  <2>6. CASE UNCHANGED avars
    BY <2>6
  <2> QED
    BY <2>1, <2>2, <2>3, <2>4, <2>5, <2>6 DEF ANext
<1>2. ASpec => [][Kept]_avars
  BY <1>1, AuthorityInvariant, PTL DEF ASpec
<1> QED
  BY <1>2 DEF LiveLeaseIsKept
=============================================================================
