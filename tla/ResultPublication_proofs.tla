----------------------- MODULE ResultPublication_proofs -----------------------
(***************************************************************************)
(* Proofs about ResultPublication.  The marker is a lock that only the     *)
(* process that made it opens again (OneInside), the bundle at the         *)
(* destination belongs to the process that works on it (OwnBundle), and    *)
(* the two together make the last check of that process a check of what    *)
(* remains when the marker is gone.                                        *)
(***************************************************************************)
EXTENDS ResultPublication, TLAPS

\* The steps between creating the marker and removing it.
Region == {"write", "recheck", "replace", "acl", "verify", "unlink"}

OneInside ==
    /\ \A p \in Publishers : at[p] \in Region => marker # "none"
    /\ \A p, q \in Publishers : at[p] \in Region /\ at[q] \in Region => p = q

\* Whoever put its bundle in place finds it there until it moves it away.
OwnBundle ==
    \A p \in Publishers :
        /\ at[p] \in {"acl", "verify", "unlink", "quarantine", "done"} => destination = p
        /\ at[p] \in {"check", "checkState", "create", "write", "recheck", "replace"} =>
              ~moved[p]

CheckedBundle ==
    \A p \in Publishers : at[p] \in {"unlink", "done"} => intact

Inv == TypeOK /\ OneInside /\ OwnBundle /\ CheckedBundle /\ UnmarkedIsIntact

-----------------------------------------------------------------------------


\* The steps of publish_result_bundle, the readers and a kill keep the values
\* of the variables in their ranges.
LEMMA TypeStep ==
    ASSUME TypeOK, [Next]_vars
    PROVE  TypeOK'
<1> USE BoundAssumption DEF TypeOK
<1>1. CASE UNCHANGED vars
  BY <1>1 DEF vars, files, reader
<1>2. ASSUME NEW p \in Publishers, Publish(p)
      PROVE  TypeOK'
  <2> USE DEF Goto, Failure, files, reader, Steps, Markers
  <2>1. CASE Check(p) \/ CheckState(p) \/ Create(p) \/ Write(p) \/ Recheck(p)
    BY <2>1 DEF Check, CheckState, Checks, Create, CreateIf, Write, Recheck
  <2>2. CASE Replace(p) \/ RestoreAcl(p)
    BY <2>2 DEF Replace, RestoreAcl
  <2>3. CASE Verify(p) \/ Unlink(p) \/ Quarantine(p) \/ Mark(p)
    BY <2>3 DEF Verify, VerifyIf, Unlink, Quarantine, Mark, MarkAs
  <2> QED BY <1>2, <2>1, <2>2, <2>3 DEF Publish
<1>3. ASSUME NEW p \in Publishers, Kill(p)
      PROVE  TypeOK'
  BY <1>3 DEF Kill, Goto, files, reader, Steps
<1>4. ASSUME NEW r \in Readers, ReadMarker(r) \/ ReadSummary(r)
      PROVE  TypeOK'
  <2>1. CASE ReadMarker(r)
    <3>1. reads' \in 0..MaxReads
      BY <2>1 DEF ReadMarker
    <3>2. looked' \in [Readers -> BOOLEAN] /\ report' \in [Readers -> Reports]
      BY <2>1 DEF ReadMarker, Reports
    <3> QED BY <2>1, <3>1, <3>2 DEF ReadMarker, files
  <2>2. CASE ReadSummary(r)
    <3>1. PICK answer \in Reports : report' = [report EXCEPT ![r] = answer]
      BY <2>2 DEF ReadSummary, Reports
    <3> QED BY <2>2, <3>1 DEF ReadSummary, files
  <2> QED BY <1>4, <2>1, <2>2
<1> QED BY <1>1, <1>2, <1>3, <1>4 DEF Next

\* Every step keeps the lock, the ownership of the bundle and what was
\* checked about it.
LEMMA LockStep ==
    ASSUME Inv, [Next]_vars
    PROVE  (OneInside /\ OwnBundle /\ CheckedBundle /\ UnmarkedIsIntact)'
<1> USE NoResultAssumption DEF Inv, TypeOK, OneInside, OwnBundle, CheckedBundle,
                               UnmarkedIsIntact, Region
<1>1. CASE UNCHANGED vars
  BY <1>1 DEF vars, files, reader
<1>2. ASSUME NEW p \in Publishers, Publish(p)
      PROVE  (OneInside /\ OwnBundle /\ CheckedBundle /\ UnmarkedIsIntact)'
  <2> USE DEF Goto, Failure, files, Markers
  <2>1. CASE Check(p) \/ CheckState(p)
    BY <2>1 DEF Check, CheckState, Checks
  <2>2. CASE Create(p)
    BY <2>2 DEF Create, CreateIf
  <2>3. CASE Write(p)
    BY <2>3 DEF Write
  <2>4. CASE Recheck(p)
    BY <2>4 DEF Recheck
  <2>5. CASE Replace(p)
    BY <2>5 DEF Replace
  <2>6. CASE RestoreAcl(p)
    BY <2>6 DEF RestoreAcl
  <2>7. CASE Verify(p)
    BY <2>7 DEF Verify, VerifyIf
  <2>8. CASE Unlink(p)
    BY <2>8 DEF Unlink
  <2>9. CASE Quarantine(p)
    BY <2>9 DEF Quarantine
  <2>10. CASE Mark(p)
    BY <2>10 DEF Mark, MarkAs
  <2> QED BY <1>2, <2>1, <2>2, <2>3, <2>4, <2>5, <2>6, <2>7, <2>8, <2>9, <2>10
          DEF Publish
<1>3. ASSUME NEW p \in Publishers, Kill(p)
      PROVE  (OneInside /\ OwnBundle /\ CheckedBundle /\ UnmarkedIsIntact)'
  BY <1>3 DEF Kill, Goto, files
<1>4. ASSUME NEW r \in Readers, ReadMarker(r) \/ ReadSummary(r)
      PROVE  (OneInside /\ OwnBundle /\ CheckedBundle /\ UnmarkedIsIntact)'
  BY <1>4 DEF ReadMarker, ReadSummary, files
<1> QED BY <1>1, <1>2, <1>3, <1>4 DEF Next

\* The lock of the marker and what it protects, of every number of publishers
\* and readers.
THEOREM PublicationLock == Spec => []Inv
<1>1. Init => Inv
  <2>1. Init => TypeOK
    <3>1. Init => reads \in 0..MaxReads
      BY BoundAssumption DEF Init
    <3>2. Init => moved \in [Publishers -> BOOLEAN] /\ looked \in [Readers -> BOOLEAN]
      BY DEF Init
    <3> QED BY <3>1, <3>2 DEF Init, TypeOK, Steps, Markers, Reports
  <2>2. Init => OneInside /\ OwnBundle /\ CheckedBundle /\ UnmarkedIsIntact
    BY DEF Init, OneInside, OwnBundle, CheckedBundle, UnmarkedIsIntact, Region
  <2> QED BY <2>1, <2>2 DEF Inv
<1>2. Inv /\ [Next]_vars => Inv'
  BY TypeStep, LockStep DEF Inv
<1> QED BY <1>1, <1>2, PTL DEF Spec

\* The variables of the publication keep their ranges.
THEOREM PublicationTypeOK == Spec => []TypeOK
<1>1. Inv => TypeOK
  BY DEF Inv
<1> QED BY <1>1, PublicationLock, PTL

\* A bundle without a marker was read back intact after it went in place.
THEOREM UnmarkedResultsAreIntact == Spec => []UnmarkedIsIntact
<1>1. Inv => UnmarkedIsIntact
  BY DEF Inv
<1> QED BY <1>1, PublicationLock, PTL

\* A publication that returned stays in place, whatever other publishers do.
THEOREM ReturnedResultsAreKept == Spec => []ReturnedIsKept
<1>1. Inv => ReturnedIsKept
  BY DEF Inv, OwnBundle, CheckedBundle, ReturnedIsKept
<1> QED BY <1>1, PublicationLock, PTL

-----------------------------------------------------------------------------
(* One act of publication *)

sights == <<Kept, Shown, Returned>>

\* A publisher between two steps other than its return stays as it was.
LEMMA NobodyReturns ==
    ASSUME TypeOK, NEW p \in Publishers, NEW step \in Steps,
           at[p] # "done", step # "done", Goto(p, step)
    PROVE  Returned' = Returned
BY DEF Returned, Goto, TypeOK

\* The bundle at the destination is the one of whoever works on it or returned
\* for it, so nobody else has returned.
LEMMA OneReturns ==
    ASSUME Inv, NEW p \in Publishers, at[p] \in {"acl", "unlink", "quarantine"}
    PROVE  Returned = {} /\ Placed = {p}
BY NoResultAssumption DEF Inv, OwnBundle, Returned, Placed

LEMMA NothingReturned ==
    ASSUME Inv, destination = NoResult
    PROVE  Returned = {} /\ Placed = {}
BY NoResultAssumption DEF Inv, OwnBundle, Returned, Placed

\* What is in sight is sound.
LEMMA ShownIsKept ==
    ASSUME Inv
    PROVE  Shown \subseteq Kept
BY DEF Inv, UnmarkedIsIntact, Shown, Kept, Placed

\* A step that only makes or replaces the marker hides the bundle at most.
LEMMA MarkersHide ==
    ASSUME UNCHANGED <<destination, intact>>, Returned' = Returned,
           marker' = marker \/ marker' # "none"
    PROVE  [Atomic!PublicationNext]_sights
<1>1. Kept' = Kept
  BY DEF Kept, Placed
<1>2. Shown' = Shown \/ (Shown # {} /\ Shown' = {})
  BY DEF Shown, Placed
<1> QED BY <1>1, <1>2 DEF Atomic!PublicationNext, Atomic!Hide, sights

\* A bundle put in place comes out of sight, and is sound or not.
LEMMA ReplaceComes ==
    ASSUME Inv, NEW p \in Publishers, Replace(p)
    PROVE  [Atomic!PublicationNext]_sights
<1> USE DEF Inv, TypeOK, Steps
<1>1. marker' = marker /\ marker # "none"
  BY DEF Replace, OneInside, Region
<1>2. Returned' = Returned
  BY NobodyReturns DEF Replace, Failure
<1>3. CASE UNCHANGED <<destination, intact>>
  BY <1>1, <1>2, <1>3, MarkersHide
<1>4. CASE destination = NoResult /\ destination' = p
  <2>1. Atomic!NothingKept
    BY <1>1, <1>4, NothingReturned DEF Atomic!NothingKept, Kept, Shown
  <2>2. Shown' = Shown
    BY <1>1 DEF Shown
  <2>3. Kept' = Kept \/ Kept' = {p}
    BY <1>4, <2>1, NoResultAssumption DEF Kept, Placed, Atomic!NothingKept
  <2>4. Kept' = {p} => Atomic!Come(p)
    BY <1>2, <2>1, <2>2 DEF Atomic!Come
  <2> QED BY <1>2, <2>2, <2>3, <2>4 DEF Atomic!PublicationNext, sights
<1> QED BY <1>3, <1>4 DEF Replace

\* Restoring its access rights makes a bundle sound, or leaves it as it is.
LEMMA RestoreComes ==
    ASSUME Inv, NEW p \in Publishers, RestoreAcl(p)
    PROVE  [Atomic!PublicationNext]_sights
<1> USE DEF Inv, TypeOK, Steps
<1>1. UNCHANGED <<destination, marker>> /\ marker # "none"
  BY DEF RestoreAcl, OneInside, Region
<1>2. Returned' = Returned
  BY NobodyReturns DEF RestoreAcl, Failure
<1>3. CASE intact' = intact
  BY <1>1, <1>2, <1>3, MarkersHide
<1>4. CASE ~intact /\ intact'
  <2>1. Returned = {} /\ Placed = {p}
    BY OneReturns DEF RestoreAcl
  <2>2. Kept = {} /\ Kept' = {p} /\ Shown = {} /\ Shown' = {}
    BY <1>1, <1>4, <2>1 DEF Kept, Shown, Placed
  <2>3. Atomic!Come(p)
    BY <1>2, <2>1, <2>2 DEF Atomic!Come, Atomic!NothingKept
  <2> QED BY <2>3 DEF Atomic!PublicationNext
<1> QED BY <1>3, <1>4 DEF RestoreAcl

\* The last step of a publication shows its bundle, whether it then returns
\* or fails.
LEMMA UnlinkShows ==
    ASSUME Inv, NEW p \in Publishers, Unlink(p)
    PROVE  [Atomic!PublicationNext]_sights
<1> USE DEF Unlink, Inv, TypeOK
<1>1. Returned = {} /\ Placed = {p}
  BY OneReturns
<1>2. marker # "none" /\ intact /\ UNCHANGED <<destination, intact>>
  BY DEF OneInside, CheckedBundle, Region
<1>3. Returned' \in {{}, {p}}
  BY <1>1 DEF Returned, Goto, Failure
<1>4. CASE marker' = "none"
  <2>1. Kept = {p} /\ Kept' = Kept /\ Shown = {} /\ Shown' = {p}
    BY <1>1, <1>2, <1>4 DEF Kept, Shown, Placed
  <2>2. Atomic!Show
    BY <1>1, <1>3, <2>1 DEF Atomic!Show
  <2> QED BY <2>2 DEF Atomic!PublicationNext
<1>5. CASE marker' = marker /\ Failure(p)
  <2>1. Returned' = Returned
    BY <1>5, NobodyReturns DEF Failure, Steps
  <2> QED BY <1>2, <1>5, <2>1, MarkersHide
<1> QED BY <1>4, <1>5

\* Only a bundle whose publication has not returned is moved away, and with it
\* what was in sight.
LEMMA QuarantineGoes ==
    ASSUME Inv, NEW p \in Publishers, Quarantine(p)
    PROVE  [Atomic!PublicationNext]_sights
<1> USE DEF Quarantine, Inv, TypeOK, Steps
<1>1. Returned = {} /\ Returned' = Returned
  BY NobodyReturns, OneReturns
<1>2. CASE destination' = destination
  BY <1>1, <1>2, MarkersHide
<1>3. CASE destination' = NoResult
  <2>1. Kept' = {} /\ Shown' = {}
    BY <1>3 DEF Kept, Shown, Placed
  <2>2. CASE Kept = {}
    BY <1>1, <2>1, <2>2, ShownIsKept DEF sights
  <2>3. CASE Kept # {}
    BY <1>1, <2>1, <2>3 DEF Atomic!Go, Atomic!PublicationNext
  <2> QED BY <2>2, <2>3
<1> QED BY <1>2, <1>3

\* Every other step of a publisher hides what is in sight, or is not seen.
LEMMA OthersShowNothing ==
    ASSUME Inv, NEW p \in Publishers,
           \/ Check(p) \/ CheckState(p) \/ Create(p) \/ Write(p) \/ Recheck(p)
           \/ Verify(p) \/ Mark(p) \/ Kill(p)
    PROVE  [Atomic!PublicationNext]_sights
<1> USE DEF Inv, TypeOK, Steps
<1>1. Returned' = Returned
  <2>1. CASE Check(p) \/ CheckState(p)
    BY <2>1, NobodyReturns DEF Check, CheckState, Checks
  <2>2. CASE Create(p) \/ Write(p) \/ Recheck(p)
    BY <2>2, NobodyReturns DEF Create, CreateIf, Write, Recheck, Failure
  <2>3. CASE Verify(p) \/ Mark(p) \/ Kill(p)
    BY <2>3, NobodyReturns DEF Verify, VerifyIf, Failure, Mark, MarkAs, Kill, Ended
  <2> QED BY <2>1, <2>2, <2>3
<1>2. UNCHANGED <<destination, intact>>
  BY DEF Check, CheckState, Checks, Create, CreateIf, Write, Recheck, Verify, VerifyIf,
         Mark, MarkAs, Kill, files
<1>3. marker' = marker \/ marker' # "none"
  BY DEF Check, CheckState, Checks, Create, CreateIf, Write, Recheck, Verify, VerifyIf,
         Mark, MarkAs, Kill, files
<1> QED BY <1>1, <1>2, <1>3, MarkersHide

\* The publications of one result directory are one act: every step brings a
\* sound bundle in place out of sight, shows it, hides it or takes it away
\* before any publication returned, or is not seen.
THEOREM PublicationIsAtomic == Spec => ImplementsPublication
<1>1. Init => Atomic!NothingKept
  BY NoResultAssumption DEF Init, Atomic!NothingKept, Kept, Shown, Placed, Returned
<1>2. Inv /\ [Next]_vars => [Atomic!PublicationNext]_sights
  <2> SUFFICES ASSUME Inv, [Next]_vars
               PROVE  [Atomic!PublicationNext]_sights
    OBVIOUS
  <2>1. CASE UNCHANGED vars
    BY <2>1 DEF vars, files, sights, Kept, Shown, Placed, Returned
  <2>2. ASSUME NEW p \in Publishers, Publish(p) \/ Kill(p)
        PROVE  [Atomic!PublicationNext]_sights
    BY <2>2, ReplaceComes, RestoreComes, UnlinkShows, QuarantineGoes, OthersShowNothing
       DEF Publish
  <2>3. ASSUME NEW r \in Readers, ReadMarker(r) \/ ReadSummary(r)
        PROVE  [Atomic!PublicationNext]_sights
    BY <2>3 DEF ReadMarker, ReadSummary, files, sights, Kept, Shown, Placed, Returned
  <2> QED BY <2>1, <2>2, <2>3 DEF Next
<1>3. [Atomic!PublicationNext]_sights
        <=> [Atomic!PublicationNext]_<<Kept, Shown, Returned>>
  BY DEF sights
<1> QED BY <1>1, <1>2, <1>3, PublicationLock, PTL
        DEF Spec, ImplementsPublication, Atomic!PublicationSpec

=============================================================================
