--------------------------- MODULE IdAllocProofs ---------------------------
(***************************************************************************)
(* NextID for any number of callers and any initial id.json: the inductive *)
(* invariant of IdAlloc, the safety properties that follow from it, and    *)
(* the step simulation of the atomic counter.                              *)
(***************************************************************************)
EXTENDS IdAlloc, TLAPS

USE IdAllocAssumption DEF Content

\* The invariant holds before any call has started.
LEMMA InitInd == Init => IndInv
  BY DEF Init, IndInv, TypeOK, Steps, Critical, Final, MutualExclusion, HolderIsCurrent,
         IssuedBehind, LastIssuedIsNewest, IssuedIncreasing, IssuedContiguous

\* The steps that leave issued and id.json alone and only move a caller, with
\* the flock free afterwards: the error returns and a crash.
LEMMA StopInd ==
  ASSUME IndInv, NEW c \in Callers, pc[c] \notin Final,
         NEW f \in {"failed", "crashed"}, f = "failed" => pc[c] # "unlock",
         pc' = [pc EXCEPT ![c] = f], Unlock(c),
         tmpFile' \in Content, lock # c => tmpFile' = tmpFile,
         UNCHANGED <<idFile, idf, issued>>
  PROVE  IndInv'
<1> USE DEF IndInv
<1>1. TypeOK'
  BY DEF TypeOK, Steps, Final, Unlock
<1>2. MutualExclusion'
  BY DEF TypeOK, MutualExclusion, Critical, Final, Unlock
<1>3. HolderIsCurrent'
  BY DEF TypeOK, HolderIsCurrent, MutualExclusion, Critical, Final
<1>4. IssuedBehind'
  BY DEF TypeOK, IssuedBehind
<1>5. LastIssuedIsNewest'
  BY DEF TypeOK, LastIssuedIsNewest, Final
<1>6. IssuedIncreasing' /\ IssuedContiguous'
  BY DEF TypeOK, IssuedIncreasing, IssuedContiguous, Final
<1> QED BY <1>1, <1>2, <1>3, <1>4, <1>5, <1>6

\* The steps of the holder that only prepare the new id.json.
LEMMA PrepareInd ==
  ASSUME IndInv, NEW c \in Callers, ReadId(c) \/ CreateTmp(c) \/ WriteTmp(c)
  PROVE  IndInv'
<1> USE DEF IndInv, Goto, ReadId, CreateTmp, WriteTmp
<1>1. TypeOK'
  BY DEF TypeOK, Steps, Critical
<1>2. MutualExclusion'
  BY DEF TypeOK, MutualExclusion, Critical
<1>3. HolderIsCurrent'
  <2> SUFFICES ASSUME NEW d \in Callers
               PROVE  /\ pc'[d] \in {"open", "write", "rename"} =>
                             idFile' \in Nat /\ idf'[d] = idFile' + 1
                      /\ pc'[d] = "rename" => tmpFile' = idf'[d]
                      /\ pc'[d] = "unlock" => idFile' = idf'[d]
    BY DEF HolderIsCurrent
  <2>1. CASE d = c
    BY <2>1 DEF TypeOK, HolderIsCurrent
  <2>2. CASE d # c
    BY <2>2 DEF TypeOK, HolderIsCurrent, MutualExclusion, Critical
  <2> QED BY <2>1, <2>2
<1>4. IssuedBehind'
  BY DEF TypeOK, IssuedBehind
<1>5. LastIssuedIsNewest'
  BY DEF TypeOK, LastIssuedIsNewest
<1>6. IssuedIncreasing' /\ IssuedContiguous'
  BY DEF TypeOK, IssuedIncreasing, IssuedContiguous
<1> QED BY <1>1, <1>2, <1>3, <1>4, <1>5, <1>6

\* Taking the free flock.
LEMMA LockInd ==
  ASSUME IndInv, NEW c \in Callers, LockStoreRoot(c)
  PROVE  IndInv'
<1> USE DEF IndInv, Goto, LockStoreRoot
<1>1. TypeOK'
  BY DEF TypeOK, Steps, Critical
<1>2. MutualExclusion'
  BY DEF TypeOK, MutualExclusion, Critical
<1>3. HolderIsCurrent'
  BY DEF TypeOK, HolderIsCurrent
<1>4. IssuedBehind' /\ LastIssuedIsNewest'
  BY DEF TypeOK, IssuedBehind, LastIssuedIsNewest
<1>5. IssuedIncreasing' /\ IssuedContiguous'
  BY DEF TypeOK, IssuedIncreasing, IssuedContiguous
<1> QED BY <1>1, <1>2, <1>3, <1>4, <1>5

\* The rename moves id.json from idFile to idFile + 1: the holder has the value
\* of the temporary file, and nobody else is between its own rename and return.
LEMMA RenameInd ==
  ASSUME IndInv, NEW c \in Callers, RenameTmp(c)
  PROVE  /\ IndInv'
         /\ idFile \in Nat
         /\ idFile' = idFile + 1
<1> USE DEF IndInv, Goto, RenameTmp
<1>1. idFile \in Nat /\ idf[c] = idFile + 1 /\ idFile' = idf[c] /\ tmpFile' = Absent
  BY DEF HolderIsCurrent
<1>2. TypeOK'
  BY <1>1 DEF TypeOK, Steps, Critical
<1>3. \A d \in Callers : d # c => pc[d] \notin Critical
  BY DEF MutualExclusion, Critical
<1>4. MutualExclusion'
  BY DEF TypeOK, MutualExclusion, Critical
<1>5. HolderIsCurrent'
  BY <1>1, <1>3 DEF TypeOK, HolderIsCurrent, Critical
<1>6. IssuedBehind'
  <2> SUFFICES ASSUME NEW i \in DOMAIN issued
               PROVE  issued[i] < idFile'
    BY <1>1 DEF TypeOK, IssuedBehind
  <2>1. issued[i] <= idFile /\ issued[i] \in Nat
    BY DEF TypeOK, IssuedBehind
  <2> QED BY <2>1, <1>1
<1>7. LastIssuedIsNewest'
  <2> SUFFICES ASSUME \A d \in Callers : pc'[d] # "crashed", issued # <<>>
               PROVE  issued[Len(issued)] + 1 = idFile'
    BY DEF TypeOK, LastIssuedIsNewest
  <2>1. \A d \in Callers : pc[d] # "crashed" /\ pc[d] # "unlock"
    BY <1>3 DEF TypeOK, Critical
  <2>2. issued[Len(issued)] = idFile
    BY <2>1 DEF LastIssuedIsNewest
  <2> QED BY <2>2, <1>1
<1>8. IssuedIncreasing' /\ IssuedContiguous'
  BY DEF TypeOK, IssuedIncreasing, IssuedContiguous
<1> QED BY <1>1, <1>2, <1>4, <1>5, <1>6, <1>7, <1>8

\* The return: the ID appended is the content of id.json, which every ID issued
\* before is behind.
LEMMA ReturnInd ==
  ASSUME IndInv, NEW c \in Callers, ReturnId(c)
  PROVE  IndInv'
<1> USE DEF IndInv, Goto, ReturnId
<1>1. /\ idf[c] = idFile /\ idFile \in Nat
      /\ lock = c /\ lock' = NoOne
  BY DEF TypeOK, HolderIsCurrent, MutualExclusion, Critical, Unlock
<1>2. \A d \in Callers : pc'[d] \notin Critical
  BY <1>1 DEF TypeOK, MutualExclusion, Critical
<1>3. TypeOK'
  BY <1>1 DEF TypeOK, Steps, Final
<1>4. MutualExclusion'
  BY <1>1, <1>2 DEF MutualExclusion
<1>5. HolderIsCurrent'
  BY <1>2 DEF HolderIsCurrent, Critical
<1>6. /\ issued \in Seq(Nat)
      /\ DOMAIN issued = 1 .. Len(issued) /\ Len(issued) \in Nat
      /\ DOMAIN issued' = 1 .. Len(issued) + 1 /\ Len(issued') = Len(issued) + 1
      /\ issued' \in Seq(Nat)
      /\ \A i \in 1 .. Len(issued) : issued'[i] = issued[i] /\ issued[i] \in Nat
      /\ issued'[Len(issued) + 1] = idFile
  BY <1>1 DEF TypeOK
<1>7. \A i \in 1 .. Len(issued) : issued[i] < idFile
  BY <1>6 DEF IssuedBehind
<1>8. IssuedBehind'
  <2> SUFFICES ASSUME NEW i \in 1 .. Len(issued) + 1
               PROVE  issued'[i] <= idFile
    BY <1>1, <1>2, <1>6 DEF IssuedBehind, Critical
  <2>1. CASE i = Len(issued) + 1
    BY <2>1, <1>1, <1>6
  <2>2. CASE i \in 1 .. Len(issued)
    BY <2>2, <1>1, <1>6, <1>7
  <2> QED BY <2>1, <2>2, <1>6
<1>9. LastIssuedIsNewest'
  BY <1>6 DEF LastIssuedIsNewest
<1>10. IssuedIncreasing'
  <2> SUFFICES ASSUME NEW i \in 1 .. Len(issued) + 1, NEW j \in 1 .. Len(issued) + 1, i < j
               PROVE  issued'[i] < issued'[j]
    BY <1>6 DEF IssuedIncreasing
  <2>1. i \in 1 .. Len(issued)
    BY <1>6
  <2>2. CASE j = Len(issued) + 1
    BY <2>1, <2>2, <1>6, <1>7
  <2>3. CASE j \in 1 .. Len(issued)
    BY <2>1, <2>3, <1>6 DEF IssuedIncreasing
  <2> QED BY <2>2, <2>3, <1>6
<1>11. IssuedContiguous'
  <2> SUFFICES ASSUME \A d \in Callers : pc'[d] # "crashed",
                      NEW i \in 1 .. Len(issued) + 1, i > 1
               PROVE  issued'[i] = issued'[i - 1] + 1
    BY <1>6 DEF IssuedContiguous
  <2>1. \A d \in Callers : pc[d] # "crashed"
    BY DEF TypeOK
  <2>2. CASE i = Len(issued) + 1
    <3>1. issued # <<>> /\ Len(issued) \in 1 .. Len(issued) /\ i - 1 = Len(issued)
      BY <2>2, <1>6
    <3>2. issued[Len(issued)] # idFile
      BY <3>1, <1>1, <1>6, <1>7
    <3>3. issued[Len(issued)] + 1 = idFile
      BY <2>1, <3>1, <3>2 DEF LastIssuedIsNewest
    <3> QED BY <2>2, <3>1, <3>3, <1>6
  <2>3. CASE i \in 1 .. Len(issued)
    <3>1. i - 1 \in 1 .. Len(issued)
      BY <2>3, <1>6
    <3>2. issued[i] = issued[i - 1] + 1
      BY <2>1, <2>3, <1>6 DEF IssuedContiguous
    <3> QED BY <2>3, <3>1, <3>2, <1>6
  <2> QED BY <2>2, <2>3, <1>6
<1> QED BY <1>3, <1>4, <1>5, <1>8, <1>9, <1>10, <1>11

\* Every step of every caller preserves the invariant.
LEMMA NextInd == IndInv /\ [Next]_vars => IndInv'
<1> SUFFICES ASSUME IndInv, [Next]_vars
             PROVE  IndInv'
  OBVIOUS
<1>1. CASE UNCHANGED vars
  BY <1>1 DEF vars, IndInv, TypeOK, MutualExclusion, HolderIsCurrent, IssuedBehind,
              LastIssuedIsNewest, IssuedIncreasing, IssuedContiguous
<1>2. ASSUME NEW c \in Callers, NextID(c) \/ Crash(c)
      PROVE  IndInv'
  <2>0. tmpFile \in Content /\ (pc[c] \in Critical <=> lock = c)
    BY DEF IndInv, TypeOK, MutualExclusion
  <2>1. CASE LockStoreRoot(c)
    BY <2>1, LockInd
  <2>2. CASE LockFails(c) \/ ReadIdFails(c) \/ WriteTmpFails(c)
    BY <2>2, <2>0, StopInd DEF LockFails, ReadIdFails, WriteTmpFails, Fail, Final
  <2>3. CASE ReadId(c) \/ CreateTmp(c) \/ WriteTmp(c)
    BY <2>3, PrepareInd
  <2>4. CASE RenameTmp(c)
    BY <2>4, RenameInd
  <2>5. CASE RenameTmpFails(c)
    BY <2>5, <2>0, StopInd DEF RenameTmpFails, Fail, Final, Critical
  <2>6. CASE ReturnId(c)
    BY <2>6, ReturnInd
  <2>7. CASE Crash(c)
    BY <2>7, <2>0, StopInd DEF Crash
  <2> QED BY <1>2, <2>1, <2>2, <2>3, <2>4, <2>5, <2>6, <2>7 DEF NextID
<1> QED BY <1>1, <1>2 DEF Next

\* Every reachable state of any number of NextID calls satisfies the inductive
\* invariant: the flock serialises the read-modify-write of id.json.
THEOREM Invariance == Spec => []IndInv
  BY InitInd, NextInd, PTL DEF Spec

\* The variables keep their types.
THEOREM TypeCorrect == Spec => []TypeOK
<1>1. IndInv => TypeOK
  BY DEF IndInv
<1> QED BY <1>1, Invariance, PTL

\* NextID never returns an ID twice, and returns them in increasing order,
\* for any number of processes, interleaved, failing and dying anywhere.
THEOREM IdsUniqueAndIncreasing == Spec => []IssuedIncreasing
<1>1. IndInv => IssuedIncreasing
  BY DEF IndInv
<1> QED BY <1>1, Invariance, PTL

\* Unless a process died, no ID was skipped, whichever calls failed.
THEOREM IdsContiguousWithoutCrash == Spec => []IssuedContiguous
<1>1. IndInv => IssuedContiguous
  BY DEF IndInv
<1> QED BY <1>1, Invariance, PTL

\* A step that is not the rename of the temporary file leaves id.json alone.
LEMMA OnlyRenameWrites ==
  ASSUME [Next]_vars, \A c \in Callers : ~RenameTmp(c)
  PROVE  idFile' = idFile
  BY DEF Next, NextID, Crash, LockStoreRoot, LockFails, ReadId, ReadIdFails, CreateTmp,
         WriteTmp, WriteTmpFails, RenameTmpFails, ReturnId, vars

\* id.json is never torn, removed or reset by NextID: every change of its
\* content, at any moment of any crash, is an increment by one.
THEOREM IdFileCounts == Spec => IdFileOnlyCounts
<1>1. IndInv /\ [Next]_vars =>
        [idFile' # idFile => idFile \in Nat /\ idFile' = idFile + 1]_vars
  BY OnlyRenameWrites, RenameInd
<1> QED BY <1>1, Invariance, PTL DEF Spec, IdFileOnlyCounts

-----------------------------------------------------------------------------
(* The refinement of the atomic counter.                                   *)

\* At most one ID is taken and not returned: that of the flock's holder.
LEMMA TakenByHolder ==
  ASSUME MutualExclusion, NEW c \in Callers, pc[c] \in Critical
  PROVE  Taken = IF pc[c] = "unlock" THEN {idf[c]} ELSE {}
<1>1. \A d \in Callers : pc[d] = "unlock" => d = c
  BY DEF MutualExclusion, Critical
<1> QED BY <1>1 DEF Taken

\* A step that brings nobody to the return of NextID and takes nobody away from
\* it changes no abstract variable.
LEMMA StutterStep ==
  ASSUME UNCHANGED <<idFile, issued>>,
         \A d \in Callers : pc'[d] = "unlock" <=> pc[d] = "unlock",
         \A d \in Callers : pc[d] = "unlock" => idf'[d] = idf[d]
  PROVE  UNCHANGED <<idFile, Taken, issued>>
<1>1. {d \in Callers : pc'[d] = "unlock"} = {d \in Callers : pc[d] = "unlock"}
  OBVIOUS
<1>2. Taken' = Taken
  BY <1>1 DEF Taken
<1> QED BY <1>2

\* Each step of a call is a step of the counter or changes nothing of it.
LEMMA StepSimulation ==
  ASSUME IndInv, [Next]_vars
  PROVE  Counter!Next \/ UNCHANGED Counter!vars
<1> USE DEF Counter!vars
<1>1. CASE UNCHANGED vars
  BY <1>1, StutterStep DEF vars
<1>2. ASSUME NEW c \in Callers, NextID(c) \/ Crash(c)
      PROVE  Counter!Next \/ UNCHANGED Counter!vars
  <2>0. TypeOK /\ MutualExclusion /\ HolderIsCurrent /\ IndInv'
    BY NextInd DEF IndInv
  <2>1. MutualExclusion'
    BY <2>0 DEF IndInv
  <2>2. CASE RenameTmp(c)
    <3>1. pc[c] = "rename" /\ pc'[c] = "unlock" /\ idf' = idf /\ issued' = issued
      BY <2>2, <2>0 DEF RenameTmp, Goto, TypeOK
    <3>2. idFile \in Nat /\ idFile' = idFile + 1 /\ idf[c] = idFile + 1
      BY <2>2, <2>0, <3>1, RenameInd DEF HolderIsCurrent
    <3>3. Taken = {}
      BY <2>0, <3>1, TakenByHolder DEF Critical
    <3>4. Taken' = {idf'[c]}
      <4>1. \A d \in Callers : pc'[d] = "unlock" => d = c
        BY <2>1, <3>1 DEF MutualExclusion, Critical
      <4> QED BY <3>1, <4>1 DEF Taken
    <3> QED BY <3>1, <3>2, <3>3, <3>4 DEF Counter!Next, Counter!Take
  <2>3. CASE ReturnId(c) \/ (Crash(c) /\ pc[c] = "unlock")
    <3>1. /\ pc[c] = "unlock" /\ pc'[c] # "unlock" /\ UNCHANGED idFile
          /\ issued' = Append(issued, idf[c]) \/ UNCHANGED issued
      BY <2>3, <2>0 DEF ReturnId, Crash, Goto, TypeOK
    <3>2. Taken = {idf[c]}
      BY <2>0, <3>1, TakenByHolder DEF Critical
    <3>3. Taken' = {}
      <4>1. \A d \in Callers : pc'[d] # "unlock"
        BY <2>3, <2>0, <3>1 DEF MutualExclusion, Critical, TypeOK, ReturnId, Crash, Goto
      <4> QED BY <4>1 DEF Taken
    <3>4. Counter!Return(idf[c]) \/ Counter!Lose(idf[c])
      BY <3>1, <3>2, <3>3 DEF Counter!Return, Counter!Lose
    <3> QED BY <3>2, <3>4 DEF Counter!Next
  <2>4. CASE /\ ~RenameTmp(c) /\ ~ReturnId(c)
             /\ ~(Crash(c) /\ pc[c] = "unlock")
    <3>1. UNCHANGED <<idFile, issued>>
      BY <1>2, <2>4 DEF NextID, Crash, LockStoreRoot, LockFails, ReadId, ReadIdFails, CreateTmp,
                   WriteTmp, WriteTmpFails, RenameTmpFails
    <3>2. pc[c] # "unlock" /\ pc'[c] # "unlock"
      BY <1>2, <2>0, <2>4 DEF NextID, Crash, LockStoreRoot, LockFails, ReadId, ReadIdFails, CreateTmp,
                   WriteTmp, WriteTmpFails, RenameTmpFails, Goto, Fail, TypeOK
    <3>3. \A d \in Callers \ {c} : pc'[d] = pc[d] /\ idf'[d] = idf[d]
      BY <1>2, <2>0, <2>4 DEF NextID, Crash, LockStoreRoot, LockFails, ReadId, ReadIdFails, CreateTmp,
                   WriteTmp, WriteTmpFails, RenameTmpFails, Goto, Fail, TypeOK
    <3> QED BY <3>1, <3>2, <3>3, StutterStep
  <2> QED BY <2>2, <2>3, <2>4
<1> QED BY <1>1, <1>2 DEF Next

\* NextID, with its flock, its failures and its crashes, implements the atomic
\* fetch-and-add of IdCounter.
THEOREM Refinement == Spec => ImplementsCounter
<1>1. Init => Counter!Init
  BY DEF Init, Taken, Counter!Init
<1>2. IndInv /\ [Next]_vars => [Counter!Next]_(Counter!vars)
  BY StepSimulation
<1> QED BY <1>1, <1>2, Invariance, PTL DEF Spec, ImplementsCounter, Counter!Spec
=============================================================================
