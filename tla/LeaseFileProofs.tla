---------------------------- MODULE LeaseFileProofs ----------------------------
(***************************************************************************)
(* Proof that save is an atomic replacement of the lease file, for every   *)
(* set of versions, if the lease file is not its own temporary file.       *)
(***************************************************************************)
EXTENDS LeaseFile, TLAPS

(* The inductive invariant: only a synced file is renamed.                 *)
SaveInv ==
    /\ TypeOK
    /\ NeverTorn
    /\ ResultIsTrue
    /\ pc = "rename" => synced

(* The files keep their types, and the temporary file, once written, holds *)
(* the version to be saved; also where it is the lease file itself.        *)
THEOREM FileTypesCorrect == Spec => []TypeOK
<1> USE FileConstants DEF TypeOK, Contents
<1>1. Init => TypeOK
    BY DEF Init
<1>2. ASSUME TypeOK, [Next]_vars PROVE TypeOK'
  <2>1. ASSUME NEW v \in Versions, Begin(v) PROVE TypeOK'
      BY <1>2, <2>1 DEF Begin, files
  <2>2. CASE MakeDir
      BY <1>2, <2>2 DEF MakeDir, files
  <2>3. CASE Create
      BY <1>2, <2>3 DEF Create, Fill
  <2>4. CASE Write
      BY <1>2, <2>4 DEF Write, Fill
  <2>5. CASE Sync
      BY <1>2, <2>5 DEF Sync
  <2>6. CASE Rename
      BY <1>2, <2>6 DEF Rename
  <2>7. CASE Fail \/ Crash
      BY <1>2, <2>7 DEF Fail, Crash, Gone, files
  <2>8. CASE PowerLoss \/ Settle
      BY <1>2, <2>8 DEF PowerLoss, Gone, Settle
  <2>9. CASE UNCHANGED vars
      BY <1>2, <2>9 DEF vars
  <2>10. QED
      BY <1>2, <2>1, <2>2, <2>3, <2>4, <2>5, <2>6, <2>7, <2>8, <2>9 DEF Next, save
<1>3. QED
    BY <1>1, <1>2, PTL DEF Spec

(* The invariant is kept by every step of save, crash and power loss.      *)
LEMMA SaveInvHolds == ASSUME ~TmpIsLive PROVE Spec => []SaveInv
<1> USE FileConstants
<1>1. Init => SaveInv
    BY DEF Init, SaveInv, TypeOK, NeverTorn, ResultIsTrue, Contents
<1>2. ASSUME SaveInv, [Next]_vars PROVE SaveInv'
  <2> USE DEF SaveInv, TypeOK, NeverTorn, ResultIsTrue, Contents
  <2>1. ASSUME NEW v \in Versions, Begin(v) PROVE SaveInv'
      BY <1>2, <2>1 DEF Begin, files
  <2>2. CASE MakeDir
      BY <1>2, <2>2 DEF MakeDir, files
  <2>3. CASE Create
      BY <1>2, <2>3 DEF Create, Fill
  <2>4. CASE Write
      BY <1>2, <2>4 DEF Write, Fill
  <2>5. CASE Sync
      BY <1>2, <2>5 DEF Sync
  <2>6. CASE Rename
    <3>1. live' = out /\ tmp' = Missing /\ older' = older \cup {live}
        BY <1>2, <2>6 DEF Rename
    <3>2. QED
        BY <1>2, <2>6, <3>1 DEF Rename
  <2>7. CASE Fail
      BY <1>2, <2>7 DEF Fail, files
  <2>8. CASE Crash
      BY <1>2, <2>8 DEF Crash, Gone, files
  <2>9. CASE PowerLoss
      BY <1>2, <2>9 DEF PowerLoss, Gone
  <2>10. CASE Settle
      BY <1>2, <2>10 DEF Settle
  <2>11. CASE UNCHANGED vars
      BY <1>2, <2>11 DEF vars
  <2>12. QED
      BY <1>2, <2>1, <2>2, <2>3, <2>4, <2>5, <2>6, <2>7, <2>8, <2>9, <2>10, <2>11
      DEF Next, save
<1>3. QED
    BY <1>1, <1>2, PTL DEF Spec

(* No crash, power loss or failed step of save leaves a torn lease file.   *)
THEOREM LeaseFileStaysWhole == ASSUME ~TmpIsLive PROVE Spec => []NeverTorn
<1>1. SaveInv => NeverTorn
    BY DEF SaveInv
<1>2. QED
    BY <1>1, SaveInvHolds, PTL

(* What save returns is what happened to the lease file.                   *)
THEOREM SaveTellsTheTruth == ASSUME ~TmpIsLive PROVE Spec => []ResultIsTrue
<1>1. SaveInv => ResultIsTrue
    BY DEF SaveInv
<1>2. QED
    BY <1>1, SaveInvHolds, PTL

(* The steps of save implement the atomic file: the rename is the          *)
(* replacement, the other steps change nothing a reader could see.         *)
THEOREM SaveIsAtomic == ASSUME ~TmpIsLive PROVE Spec => ImplementsAtomicFile
<1> USE FileConstants
<1>1. Init => Atomic!Init
    BY DEF Init, Atomic!Init, Contents
<1>2. ASSUME SaveInv, [Next]_vars PROVE [Atomic!Next]_Atomic!vars
  <2> USE DEF Atomic!vars
  <2>1. CASE Create \/ Write
      BY <2>1 DEF Create, Write, Fill
  <2>2. CASE Rename
    <3>1. out \in Versions /\ live' = out /\ older' = older \cup {live}
        BY <1>2, <2>2 DEF Rename, SaveInv, TypeOK
    <3>2. Atomic!Replace(out)
        BY <3>1 DEF Atomic!Replace
    <3>3. QED
        BY <3>1, <3>2 DEF Atomic!Next
  <2>3. CASE PowerLoss
      BY <2>3 DEF PowerLoss, Atomic!Next, Atomic!PowerLoss
  <2>4. CASE Settle
      BY <2>4 DEF Settle, Atomic!Next, Atomic!Settle
  <2>5. CASE Sync
      BY <2>5 DEF Sync
  <2>6. CASE MakeDir \/ Fail \/ Crash \/ \E v \in Versions : Begin(v)
      BY <2>6 DEF MakeDir, Fail, Crash, Gone, Begin, files
  <2>7. CASE UNCHANGED vars
      BY <2>7 DEF vars
  <2>8. QED
      BY <1>2, <2>1, <2>2, <2>3, <2>4, <2>5, <2>6, <2>7 DEF Next, save
<1>3. QED
    BY <1>1, <1>2, SaveInvHolds, PTL DEF Spec, ImplementsAtomicFile, Atomic!Spec

=============================================================================
