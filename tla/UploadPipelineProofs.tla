------------------------ MODULE UploadPipelineProofs ------------------------
(***************************************************************************)
(* Proofs about UploadPipeline, for any number of uploads, passes,         *)
(* downloads and links and for any limits. Everything rests on IInv, the   *)
(* inductive invariant: TypeStep and InvariantStep show that no step       *)
(* breaks it, the theorems at the end read the properties off it.          *)
(***************************************************************************)
EXTENDS UploadPipeline, FiniteSetTheorems, TLAPS

USE DEF ReleaseHold, StartsSpool, GivesUp

-----------------------------------------------------------------------------
(* Names of files. *)

\* Two files are the same file only under the same kind and the same id.
LEMMA PathNames ==
  ASSUME NEW a, NEW b
  PROVE  /\ Incoming(a) # Bin(b)
         /\ Incoming(a) = Incoming(b) <=> a = b
         /\ Bin(a) = Bin(b) <=> a = b
  BY DEF Incoming, Bin

\* An upload's and a pass's files are paths.
LEMMA PathType ==
  ASSUME NEW o \in Owner
  PROVE  Incoming(o) \in Path /\ Bin(o) \in Path
  BY DEF Incoming, Bin, Path

-----------------------------------------------------------------------------
(* Sums of bytes. *)

\* The units a sum counts are finitely many, so the sum is a number.
LEMMA TotalFinite ==
  ASSUME NEW f
  PROVE  IsFiniteSet({un \in Upload \X (1 .. 2 * MaxUploadBytes) : un[2] <= f[un[1]]})
<1>1. IsFiniteSet(1 .. 2 * MaxUploadBytes)
  BY BoundAssumption, FS_Interval
<1>2. IsFiniteSet(Upload \X (1 .. 2 * MaxUploadBytes))
  BY <1>1, FiniteAssumption, FS_Product
<1>. QED
  BY <1>2, FS_Subset

\* A sum of bytes is a natural number.
LEMMA TotalType ==
  ASSUME NEW f
  PROVE  Total(f) \in Nat
  BY TotalFinite, FS_CardinalityType DEF Total

\* Amounts that nowhere grow do not grow in sum.
LEMMA TotalMonotone ==
  ASSUME NEW f \in [Upload -> Nat], NEW g \in [Upload -> Nat],
         \A u \in Upload : g[u] <= f[u]
  PROVE  Total(g) <= Total(f)
<1> DEFINE Units(h) == {un \in Upload \X (1 .. 2 * MaxUploadBytes) : un[2] <= h[un[1]]}
<1>1. ASSUME NEW un \in Units(g) PROVE un \in Units(f)
  <2>1. un[1] \in Upload /\ un[2] \in Nat /\ un[2] <= g[un[1]]
    BY <1>1, BoundAssumption
  <2>2. g[un[1]] <= f[un[1]] /\ g[un[1]] \in Nat /\ f[un[1]] \in Nat
    BY <2>1
  <2>. QED
    BY <2>1, <2>2
<1>2. Units(g) \in SUBSET Units(f)
  BY <1>1
<1>. QED
  BY <1>2, TotalFinite, FS_Subset DEF Total

\* One more byte for one upload is one more byte in sum.
LEMMA TotalAddOne ==
  ASSUME NEW f \in [Upload -> Nat], NEW u \in Upload, f[u] < 2 * MaxUploadBytes
  PROVE  Total([f EXCEPT ![u] = @ + 1]) = Total(f) + 1
<1> DEFINE Units(h) == {un \in Upload \X (1 .. 2 * MaxUploadBytes) : un[2] <= h[un[1]]}
           g == [f EXCEPT ![u] = @ + 1]
           new == <<u, f[u] + 1>>
<1>1. new \in Upload \X (1 .. 2 * MaxUploadBytes) /\ new \notin Units(f)
  BY BoundAssumption
<1>2. ASSUME NEW un \in Upload \X (1 .. 2 * MaxUploadBytes)
      PROVE  un \in Units(g) <=> un \in Units(f) \union {new}
  <2>1. PICK v \in Upload, n \in 1 .. 2 * MaxUploadBytes : un = <<v, n>>
    BY <1>2
  <2>2. n <= g[v] <=> (n <= f[v] \/ (v = u /\ n = f[u] + 1))
    BY BoundAssumption
  <2>3. un = new <=> (v = u /\ n = f[u] + 1)
    BY <2>1
  <2>. QED
    BY <2>1, <2>2, <2>3
<1>3. Units(g) = Units(f) \union {new}
  BY <1>1, <1>2
<1>4. IsFiniteSet(Units(f))
  BY TotalFinite
<1>. HIDE DEF Units, g, new
<1>5. Cardinality(Units(g)) = Cardinality(Units(f)) + 1
  BY <1>1, <1>3, <1>4, FS_AddElement
<1>. QED
  BY <1>5 DEF Units, g, Total

\* An amount set to n for one upload puts at most n on the sum.
LEMMA TotalSetOne ==
  ASSUME NEW f \in [Upload -> Nat], NEW u \in Upload, NEW n \in Nat
  PROVE  Total([f EXCEPT ![u] = n]) <= Total(f) + n
<1> DEFINE Units(h) == {un \in Upload \X (1 .. 2 * MaxUploadBytes) : un[2] <= h[un[1]]}
           g == [f EXCEPT ![u] = n]
           new == {u} \X (1 .. n)
<1>1. ASSUME NEW un \in Units(g) PROVE un \in Units(f) \union new
  <2>1. PICK v \in Upload, m \in 1 .. 2 * MaxUploadBytes : un = <<v, m>> /\ m <= g[v]
    BY <1>1
  <2>2. CASE v = u
    BY <2>1, <2>2, BoundAssumption
  <2>3. CASE v # u
    BY <2>1, <2>3
  <2>. QED
    BY <2>2, <2>3
<1>2. IsFiniteSet(new) /\ Cardinality(new) = n
  <2>1. IsFiniteSet({u}) /\ Cardinality({u}) = 1
    BY FS_Singleton
  <2>2. IsFiniteSet(1 .. n) /\ Cardinality(1 .. n) = n
    BY FS_Interval
  <2>3. IsFiniteSet(new) /\ Cardinality(new) = 1 * n
    BY <2>1, <2>2, FS_Product
  <2>. QED
    BY <2>3
<1>3. IsFiniteSet(Units(f))
  BY TotalFinite
<1>. HIDE DEF Units, g, new
<1>4. /\ IsFiniteSet(Units(f) \union new)
      /\ Cardinality(Units(f) \union new)
           = Cardinality(Units(f)) + Cardinality(new) - Cardinality(Units(f) \intersect new)
  BY <1>2, <1>3, FS_Union
<1>5. IsFiniteSet(Units(f) \intersect new)
  BY <1>3, FS_Subset
<1>6. Cardinality(Units(g)) <= Cardinality(Units(f) \union new)
  BY <1>1, <1>4, FS_Subset
<1>7. /\ Cardinality(Units(g)) \in Nat
      /\ Cardinality(Units(f)) \in Nat
      /\ Cardinality(Units(f) \intersect new) \in Nat
  <2>1. Units(g) \subseteq Units(f) \union new
    BY <1>1
  <2>. QED
    BY <1>3, <1>4, <1>5, <2>1, FS_Subset, FS_CardinalityType
<1>8. Cardinality(Units(g)) <= Cardinality(Units(f)) + n
  <2>1. PICK a \in Nat : a = Cardinality(Units(g))
    BY <1>7
  <2>2. PICK b \in Nat : b = Cardinality(Units(f))
    BY <1>7
  <2>3. PICK c \in Nat : c = Cardinality(Units(f) \intersect new)
    BY <1>7
  <2>4. a <= b + n - c
    BY <1>2, <1>4, <1>6, <2>1, <2>2, <2>3
  <2>5. a <= b + n
    BY <2>4
  <2>. QED
    BY <2>1, <2>2, <2>5
<1>. QED
  BY <1>8 DEF Units, g, Total


-----------------------------------------------------------------------------
(* Types. *)

\* Every step leaves every variable in its set of values.
LEMMA TypeStep == TypeOK /\ [Next]_vars => TypeOK'
<1> SUFFICES ASSUME TypeOK, [Next]_vars PROVE TypeOK'
  OBVIOUS
<1> USE BoundAssumption DEF TypeOK, linkVars, keyVars, jobVars, rowVars, holdVars, diskVars, callVars, passVars,
         readVars, toolVars
<1>1. ASSUME NEW l \in Link, IssueLink(l)
      PROVE  TypeOK'
  BY <1>1 DEF IssueLink
<1>2. ASSUME NEW l \in Link, ExpireLink(l)
      PROVE  TypeOK'
  BY <1>2 DEF ExpireLink
<1>3. ASSUME NEW l \in Link, RevokeLink(l)
      PROVE  TypeOK'
  BY <1>3 DEF RevokeLink
<1>4. ASSUME AddKey
      PROVE  TypeOK'
  BY <1>4 DEF AddKey
<1>5. ASSUME NEW k \in Key, RetireKey(k)
      PROVE  TypeOK'
  BY <1>5 DEF RetireKey
<1>6. ASSUME NEW u \in Upload, NEW s \in Sender, OpenPage(u, s)
      PROVE  TypeOK'
  BY <1>6 DEF OpenPage, Goto, UploadState, Running
<1>7. ASSUME NEW u \in Upload, NEW declared \in 0 .. MaxUploadBytes + 1, Post(u, declared)
      PROVE  TypeOK'
  BY <1>7, TotalType DEF Post, Goto, UploadState, Running, DocumentBytes
<1>8. ASSUME NEW u \in Upload, Admit(u)
      PROVE  TypeOK'
  BY <1>8, PathType DEF Admit, Goto, UploadState, Running, Owner
<1>9. ASSUME NEW u \in Upload, DiskLow(u)
      PROVE  TypeOK'
  BY <1>9 DEF DiskLow, Goto, UploadState, Running
<1>10. ASSUME NEW u \in Upload, Chunk(u)
      PROVE  TypeOK'
  BY <1>10 DEF Chunk
<1>11. ASSUME NEW u \in Upload, NEW answer \in {"refused", "failed"}, GiveUp(u, answer)
      PROVE  TypeOK'
  BY <1>11, PathType DEF GiveUp, Goto, UploadState, Running, Owner
<1>12. ASSUME NEW f \in Path, OpenSpool(f) \/ UnlinkSpool(f)
      PROVE  TypeOK'
  BY <1>12 DEF OpenSpool, UnlinkSpool
<1>13. ASSUME NEW u \in Upload, FinishSpool(u)
      PROVE  TypeOK'
  BY <1>13 DEF FinishSpool, Goto, UploadState, Running
<1>14. ASSUME NEW u \in Upload, NEW isEnvelope \in BOOLEAN, CheckEnvelope(u, isEnvelope)
      PROVE  TypeOK'
  BY <1>14 DEF CheckEnvelope, Goto, UploadState, Running
<1>15. ASSUME NEW u \in Upload, DropSpool(u)
      PROVE  TypeOK'
  BY <1>15 DEF DropSpool, Goto, UploadState, Running
<1>16. ASSUME NEW u \in Upload, Release(u)
      PROVE  TypeOK'
  BY <1>16 DEF Release, Goto, UploadState, Running
<1>17. ASSUME NEW u \in Upload, Move(u)
      PROVE  TypeOK'
  BY <1>17, PathType DEF Move, Goto, UploadState, Running, Owner
<1>18. ASSUME NEW u \in Upload, NEW answer \in {"outOfSpace", "failed"}, MoveFails(u, answer)
      PROVE  TypeOK'
  BY <1>18 DEF MoveFails, Goto, UploadState, Running
<1>19. ASSUME NEW u \in Upload, Record(u)
      PROVE  TypeOK'
  BY <1>19 DEF Record, Goto, UploadState, Running, Owner
<1>20. ASSUME NEW u \in Upload, Throws(u)
      PROVE  TypeOK'
  BY <1>20 DEF Throws, Goto, UploadState, Running
<1>21. ASSUME NEW u \in Upload, Undo(u)
      PROVE  TypeOK'
  BY <1>21 DEF Undo, Goto, UploadState, Running
<1>22. ASSUME NEW p \in Pass, NEW u \in Upload, NEW k \in Key, StartPass(p, u, k)
      PROVE  TypeOK'
  BY <1>22 DEF StartPass, PassGoto, PassState, PassRunning, Owner
<1>23. ASSUME NEW p \in Pass, AdmitPass(p)
      PROVE  TypeOK'
  BY <1>23, PathType DEF AdmitPass, PassGoto, PassState, PassRunning, Owner
<1>24. ASSUME NEW p \in Pass, FinishPassSpool(p)
      PROVE  TypeOK'
  BY <1>24 DEF FinishPassSpool, PassGoto, PassState, PassRunning
<1>41. ASSUME NEW p \in Pass, GiveUpPass(p)
      PROVE  TypeOK'
  BY <1>41, PathType DEF GiveUpPass, PassGoto, PassState, PassRunning, Owner
<1>25. ASSUME NEW p \in Pass, NEW bytes \in 1..MaxUploadBytes, ReplaceUpload(p, bytes)
      PROVE  TypeOK'
  BY <1>25 DEF ReplaceUpload, PassGoto, PassState, PassRunning, Owner
<1>26. ASSUME NEW p \in Pass, RefusePass(p)
      PROVE  TypeOK'
  BY <1>26 DEF RefusePass, PassGoto, PassState, PassRunning
<1>27. ASSUME NEW p \in Pass, DropCopy(p)
      PROVE  TypeOK'
  BY <1>27 DEF DropCopy, PassGoto, PassState, PassRunning
<1>28. ASSUME NEW p \in Pass, UnlinkPrevious(p)
      PROVE  TypeOK'
  BY <1>28 DEF UnlinkPrevious, PassGoto, PassState, PassRunning
<1>29. ASSUME NEW r \in Reader, NEW u \in Upload, StartRead(r, u)
      PROVE  TypeOK'
  BY <1>29 DEF StartRead, ReadGoto, ReadState, ReadRunning
<1>30. ASSUME NEW r \in Reader, StatFile(r)
      PROVE  TypeOK'
  BY <1>30 DEF StatFile, ReadGoto, ReadState, ReadRunning
<1>31. ASSUME NEW r \in Reader, StreamFile(r)
      PROVE  TypeOK'
  BY <1>31 DEF StreamFile, ReadGoto, ReadState, ReadRunning
<1>32. ASSUME NEW r \in Reader, StreamBreaks(r)
      PROVE  TypeOK'
  BY <1>32 DEF StreamBreaks, ReadGoto, ReadState, ReadRunning, HandlersDie, UploadState, PassState
<1>33. ASSUME Crash
      PROVE  TypeOK'
  BY <1>33 DEF Crash, HandlersDie, UploadState, PassState, ReadState
<1>34. ASSUME DayPasses
      PROVE  TypeOK'
  BY <1>34 DEF DayPasses
<1>35. ASSUME ReadTables
      PROVE  TypeOK'
  BY <1>35 DEF ReadTables, Bin
<1>36. ASSUME NEW apply \in BOOLEAN, ScanBlobs(apply)
      PROVE  TypeOK'
  BY <1>36 DEF ScanBlobs, Orphans, StaleHolds, OldFiles
<1>37. ASSUME NEW f \in Path, UnlinkOrphan(f)
      PROVE  TypeOK'
  BY <1>37 DEF UnlinkOrphan
<1>38. ASSUME DropStaleHolds
      PROVE  TypeOK'
  BY <1>38 DEF DropStaleHolds
<1>39. ASSUME ToolFails
      PROVE  TypeOK'
  BY <1>39 DEF ToolFails
<1>40. CASE UNCHANGED vars
  BY <1>40 DEF vars
<1>. QED
  BY <1>1, <1>2, <1>3, <1>4, <1>5, <1>6, <1>7, <1>8, <1>9, <1>10, <1>11, <1>12,
     <1>13, <1>14, <1>15, <1>16, <1>17, <1>18, <1>19, <1>20, <1>21, <1>22, <1>23, <1>24,
     <1>25, <1>26, <1>27, <1>28, <1>29, <1>30, <1>31, <1>32, <1>33, <1>34, <1>35, <1>36,
     <1>37, <1>38, <1>39, <1>40, <1>41
     DEF Next, Practising, HandlerStep, PassStep, ToolStep

-----------------------------------------------------------------------------
(* The invariant. One lemma for each group of actions. *)

\* Links and keys: the newest key is never the one that is retired.
LEMMA PractisingInv ==
  ASSUME IInv, TypeOK', Practising
  PROVE  IInv'
<1> USE BoundAssumption, FileNameAssumption, PathNames
    DEF IInv, KeysOrdered, RowsAreStored, ChargedOnce, SpoolIsHeld, FilesInPlace, CallsInPlace,
        RowsHaveFiles, RowsPointAtTheirOwn, PreviousIsLeft, AgedIsFinished, SnapshotIsSound, TypeOK,
        Finished, PassFinished, Owner, linkVars, keyVars, jobVars, rowVars, holdVars, diskVars,
        callVars, passVars, readVars, toolVars
<1>1. ASSUME NEW l \in Link, IssueLink(l)
      PROVE  IInv'
  BY <1>1 DEF IssueLink
<1>2. ASSUME NEW l \in Link, ExpireLink(l)
      PROVE  IInv'
  BY <1>2 DEF ExpireLink
<1>3. ASSUME NEW l \in Link, RevokeLink(l)
      PROVE  IInv'
  BY <1>3 DEF RevokeLink
<1>4. ASSUME AddKey
      PROVE  IInv'
  BY <1>4 DEF AddKey
<1>5. ASSUME NEW k \in Key, RetireKey(k)
      PROVE  IInv'
  BY <1>5 DEF RetireKey, Live, Current
<1>. HIDE DEF IInv, TypeOK
<1>. QED
  BY <1>1, <1>2, <1>3, <1>4, <1>5
     DEF Practising

\* One step of one upload.
LEMMA HandlerInv ==
  ASSUME IInv, TypeOK', NEW u \in Upload, HandlerStep(u)
  PROVE  IInv'
<1> USE BoundAssumption, FileNameAssumption, PathNames
    DEF IInv, KeysOrdered, RowsAreStored, ChargedOnce, SpoolIsHeld, FilesInPlace, CallsInPlace,
        RowsHaveFiles, RowsPointAtTheirOwn, PreviousIsLeft, AgedIsFinished, SnapshotIsSound, TypeOK,
        Finished, PassFinished, Owner, linkVars, keyVars, jobVars, rowVars, holdVars, diskVars,
        callVars, passVars, readVars, toolVars
<1>1. ASSUME NEW declared \in 0 .. MaxUploadBytes + 1, Post(u, declared)
      PROVE  IInv'
  BY <1>1 DEF Post, Goto
<1>2. CASE Admit(u)
  <2>1. KeysOrdered'
    BY <1>2, SMTT(30) DEF Admit, Goto
  <2>2. RowsAreStored'
    BY <1>2, SMTT(30) DEF Admit, Goto
  <2>3. ChargedOnce'
    BY <1>2, SMTT(30) DEF Admit, Goto
  <2>4. SpoolIsHeld'
    BY <1>2, SMTT(30) DEF Admit, Goto
  <2>5. FilesInPlace'
    BY <1>2, SMTT(30) DEF Admit, Goto
  <2>6. CallsInPlace'
    BY <1>2, SMTT(30) DEF Admit, Goto
  <2>7. RowsHaveFiles'
    BY <1>2, SMTT(30) DEF Admit, Goto
  <2>8. RowsPointAtTheirOwn'
    BY <1>2, SMTT(30) DEF Admit, Goto
  <2>9. PreviousIsLeft'
    BY <1>2, SMTT(30) DEF Admit, Goto
  <2>10. AgedIsFinished'
    BY <1>2, SMTT(30) DEF Admit, Goto
  <2>11. SnapshotIsSound'
    BY <1>2, SMTT(30) DEF Admit, Goto
  <2>. QED
    BY <2>1, <2>2, <2>3, <2>4, <2>5, <2>6, <2>7, <2>8, <2>9, <2>10, <2>11
<1>3. CASE DiskLow(u)
  BY <1>3 DEF DiskLow, Goto
<1>4. CASE Chunk(u)
  BY <1>4 DEF Chunk
<1>5. ASSUME NEW answer \in {"refused", "failed"}, GiveUp(u, answer)
      PROVE  IInv'
  <2>1. KeysOrdered'
    BY <1>5, SMTT(30) DEF GiveUp, Goto
  <2>2. RowsAreStored'
    BY <1>5, SMTT(30) DEF GiveUp, Goto
  <2>3. ChargedOnce'
    BY <1>5, SMTT(30) DEF GiveUp, Goto
  <2>4. SpoolIsHeld'
    BY <1>5, SMTT(30) DEF GiveUp, Goto
  <2>5. FilesInPlace'
    BY <1>5, SMTT(30) DEF GiveUp, Goto
  <2>6. CallsInPlace'
    BY <1>5, SMTT(30) DEF GiveUp, Goto
  <2>7. RowsHaveFiles'
    BY <1>5, SMTT(30) DEF GiveUp, Goto
  <2>8. RowsPointAtTheirOwn'
    BY <1>5, SMTT(30) DEF GiveUp, Goto
  <2>9. PreviousIsLeft'
    BY <1>5, SMTT(30) DEF GiveUp, Goto
  <2>10. AgedIsFinished'
    BY <1>5, SMTT(30) DEF GiveUp, Goto
  <2>11. SnapshotIsSound'
    BY <1>5, SMTT(30) DEF GiveUp, Goto
  <2>. QED
    BY <2>1, <2>2, <2>3, <2>4, <2>5, <2>6, <2>7, <2>8, <2>9, <2>10, <2>11
<1>7. CASE FinishSpool(u)
  BY <1>7 DEF FinishSpool, Goto
<1>8. ASSUME NEW isEnvelope \in BOOLEAN, CheckEnvelope(u, isEnvelope)
      PROVE  IInv'
  BY <1>8 DEF CheckEnvelope, Goto
<1>9. CASE DropSpool(u)
  BY <1>9 DEF DropSpool, Goto
<1>10. CASE Release(u)
  BY <1>10 DEF Release, Goto
<1>11. CASE Move(u)
  <2>1. KeysOrdered'
    BY <1>11, SMTT(30) DEF Move, Goto
  <2>2. RowsAreStored'
    BY <1>11, SMTT(30) DEF Move, Goto
  <2>3. ChargedOnce'
    BY <1>11, SMTT(30) DEF Move, Goto
  <2>4. SpoolIsHeld'
    BY <1>11, SMTT(30) DEF Move, Goto
  <2>5. FilesInPlace'
    BY <1>11, SMTT(30) DEF Move, Goto
  <2>6. CallsInPlace'
    BY <1>11, SMTT(30) DEF Move, Goto
  <2>7. RowsHaveFiles'
    BY <1>11, SMTT(30) DEF Move, Goto
  <2>8. RowsPointAtTheirOwn'
    BY <1>11, SMTT(30) DEF Move, Goto
  <2>9. PreviousIsLeft'
    BY <1>11, SMTT(30) DEF Move, Goto
  <2>10. AgedIsFinished'
    BY <1>11, SMTT(30) DEF Move, Goto
  <2>11. SnapshotIsSound'
    BY <1>11, SMTT(30) DEF Move, Goto
  <2>. QED
    BY <2>1, <2>2, <2>3, <2>4, <2>5, <2>6, <2>7, <2>8, <2>9, <2>10, <2>11
<1>12. ASSUME NEW answer \in {"outOfSpace", "failed"}, MoveFails(u, answer)
      PROVE  IInv'
  BY <1>12 DEF MoveFails, Goto
<1>13. CASE Record(u)
  <2>1. KeysOrdered'
    BY <1>13 DEF Record, Goto
  <2>2. RowsAreStored'
    BY <1>13 DEF Record, Goto
  <2>3. ChargedOnce'
    BY <1>13 DEF Record, Goto
  <2>4. SpoolIsHeld'
    BY <1>13 DEF Record, Goto
  <2>5. FilesInPlace'
    BY <1>13 DEF Record, Goto
  <2>6. RowsHaveFiles'
    BY <1>13 DEF Record, Goto
  <2>7. RowsPointAtTheirOwn'
    BY <1>13 DEF Record, Goto
  <2>8. PreviousIsLeft'
    BY <1>13 DEF Record, Goto
  <2>9. AgedIsFinished'
    BY <1>13 DEF Record, Goto
  <2>10. SnapshotIsSound'
    BY <1>13, SMTT(30) DEF Record, Goto
  <2>11. CallsInPlace'
    BY <1>13 DEF Record, Goto
  <2>. QED
    BY <2>1, <2>2, <2>3, <2>4, <2>5, <2>6, <2>7, <2>8, <2>9, <2>10, <2>11
<1>14. CASE Throws(u)
  BY <1>14 DEF Throws, Goto
<1>15. CASE Undo(u)
  BY <1>15 DEF Undo, Goto
<1>. HIDE DEF IInv, TypeOK
<1>. QED
  BY <1>1, <1>2, <1>3, <1>4, <1>5, <1>7, <1>8, <1>9, <1>10, <1>11, <1>12,
     <1>13, <1>14, <1>15
     DEF HandlerStep

\* The open or the unlink of a spool file comes through.
LEMMA CallInv ==
  ASSUME IInv, TypeOK', NEW f \in Path, OpenSpool(f) \/ UnlinkSpool(f)
  PROVE  IInv'
<1> USE BoundAssumption, FileNameAssumption, PathNames
    DEF IInv, KeysOrdered, RowsAreStored, ChargedOnce, SpoolIsHeld, FilesInPlace, CallsInPlace,
        RowsHaveFiles, RowsPointAtTheirOwn, PreviousIsLeft, AgedIsFinished, SnapshotIsSound, TypeOK,
        Finished, PassFinished, Owner, linkVars, keyVars, jobVars, rowVars, holdVars, diskVars,
        callVars, passVars, readVars, toolVars
<1>1. CASE OpenSpool(f)
  BY <1>1 DEF OpenSpool
<1>2. CASE UnlinkSpool(f)
  BY <1>2 DEF UnlinkSpool
<1>. QED
  BY <1>1, <1>2

\* One step of one re-encryption post.
LEMMA PassInv ==
  ASSUME IInv, TypeOK', NEW p \in Pass, PassStep(p)
  PROVE  IInv'
<1> USE BoundAssumption, FileNameAssumption, PathNames
    DEF IInv, KeysOrdered, RowsAreStored, ChargedOnce, SpoolIsHeld, FilesInPlace, CallsInPlace,
        RowsHaveFiles, RowsPointAtTheirOwn, PreviousIsLeft, AgedIsFinished, SnapshotIsSound, TypeOK,
        Finished, PassFinished, Owner, linkVars, keyVars, jobVars, rowVars, holdVars, diskVars,
        callVars, passVars, readVars, toolVars
<1>1. CASE AdmitPass(p)
  <2>1. KeysOrdered'
    BY <1>1, SMTT(30) DEF AdmitPass, PassGoto
  <2>2. RowsAreStored'
    BY <1>1, SMTT(30) DEF AdmitPass, PassGoto
  <2>3. ChargedOnce'
    BY <1>1, SMTT(30) DEF AdmitPass, PassGoto
  <2>4. SpoolIsHeld'
    BY <1>1, SMTT(30) DEF AdmitPass, PassGoto
  <2>5. FilesInPlace'
    BY <1>1, SMTT(30) DEF AdmitPass, PassGoto
  <2>6. CallsInPlace'
    BY <1>1, SMTT(30) DEF AdmitPass, PassGoto
  <2>7. RowsHaveFiles'
    BY <1>1, SMTT(30) DEF AdmitPass, PassGoto
  <2>8. RowsPointAtTheirOwn'
    BY <1>1, SMTT(30) DEF AdmitPass, PassGoto
  <2>9. PreviousIsLeft'
    BY <1>1, SMTT(30) DEF AdmitPass, PassGoto
  <2>10. AgedIsFinished'
    BY <1>1, SMTT(30) DEF AdmitPass, PassGoto
  <2>11. SnapshotIsSound'
    BY <1>1, SMTT(30) DEF AdmitPass, PassGoto
  <2>. QED
    BY <2>1, <2>2, <2>3, <2>4, <2>5, <2>6, <2>7, <2>8, <2>9, <2>10, <2>11
<1>2. CASE FinishPassSpool(p)
  BY <1>2 DEF FinishPassSpool, PassGoto
<1>7. CASE GiveUpPass(p)
  <2>1. KeysOrdered'
    BY <1>7, SMTT(30) DEF GiveUpPass, PassGoto
  <2>2. RowsAreStored'
    BY <1>7, SMTT(30) DEF GiveUpPass, PassGoto
  <2>3. ChargedOnce'
    BY <1>7, SMTT(30) DEF GiveUpPass, PassGoto
  <2>4. SpoolIsHeld'
    BY <1>7, SMTT(30) DEF GiveUpPass, PassGoto
  <2>5. FilesInPlace'
    BY <1>7, SMTT(30) DEF GiveUpPass, PassGoto
  <2>6. CallsInPlace'
    BY <1>7, SMTT(30) DEF GiveUpPass, PassGoto
  <2>7. RowsHaveFiles'
    BY <1>7, SMTT(30) DEF GiveUpPass, PassGoto
  <2>8. RowsPointAtTheirOwn'
    BY <1>7, SMTT(30) DEF GiveUpPass, PassGoto
  <2>9. PreviousIsLeft'
    BY <1>7, SMTT(30) DEF GiveUpPass, PassGoto
  <2>10. AgedIsFinished'
    BY <1>7, SMTT(30) DEF GiveUpPass, PassGoto
  <2>11. SnapshotIsSound'
    BY <1>7, SMTT(30) DEF GiveUpPass, PassGoto
  <2>. QED
    BY <2>1, <2>2, <2>3, <2>4, <2>5, <2>6, <2>7, <2>8, <2>9, <2>10, <2>11
<1>3. ASSUME NEW bytes \in 1..MaxUploadBytes, ReplaceUpload(p, bytes)
      PROVE  IInv'
  BY <1>3 DEF ReplaceUpload, PassGoto
<1>4. CASE RefusePass(p)
  BY <1>4 DEF RefusePass, PassGoto
<1>5. CASE DropCopy(p)
  <2>1. KeysOrdered'
    BY <1>5, SMTT(30) DEF DropCopy, PassGoto
  <2>2. RowsAreStored'
    BY <1>5, SMTT(30) DEF DropCopy, PassGoto
  <2>3. ChargedOnce'
    BY <1>5, SMTT(30) DEF DropCopy, PassGoto
  <2>4. SpoolIsHeld'
    BY <1>5, SMTT(30) DEF DropCopy, PassGoto
  <2>5. FilesInPlace'
    BY <1>5, SMTT(30) DEF DropCopy, PassGoto
  <2>6. CallsInPlace'
    BY <1>5, SMTT(30) DEF DropCopy, PassGoto
  <2>7. RowsHaveFiles'
    BY <1>5, SMTT(30) DEF DropCopy, PassGoto
  <2>8. RowsPointAtTheirOwn'
    BY <1>5, SMTT(30) DEF DropCopy, PassGoto
  <2>9. PreviousIsLeft'
    BY <1>5, SMTT(30) DEF DropCopy, PassGoto
  <2>10. AgedIsFinished'
    BY <1>5, SMTT(30) DEF DropCopy, PassGoto
  <2>11. SnapshotIsSound'
    BY <1>5, SMTT(30) DEF DropCopy, PassGoto
  <2>. QED
    BY <2>1, <2>2, <2>3, <2>4, <2>5, <2>6, <2>7, <2>8, <2>9, <2>10, <2>11
<1>6. CASE UnlinkPrevious(p)
  BY <1>6 DEF UnlinkPrevious, PassGoto
<1>. HIDE DEF IInv, TypeOK
<1>. QED
  BY <1>1, <1>2, <1>3, <1>4, <1>5, <1>6, <1>7
     DEF PassStep

\* One step of a reconciliation run, ended early or not.
LEMMA ToolInv ==
  ASSUME IInv, TypeOK', ToolStep \/ ScanBlobs(FALSE) \/ ToolFails
  PROVE  IInv'
<1> USE BoundAssumption, FileNameAssumption, PathNames
    DEF IInv, KeysOrdered, RowsAreStored, ChargedOnce, SpoolIsHeld, FilesInPlace, CallsInPlace,
        RowsHaveFiles, RowsPointAtTheirOwn, PreviousIsLeft, AgedIsFinished, SnapshotIsSound, TypeOK,
        Finished, PassFinished, Owner, linkVars, keyVars, jobVars, rowVars, holdVars, diskVars,
        callVars, passVars, readVars, toolVars
<1>1. ASSUME ReadTables
      PROVE  IInv'
  BY <1>1 DEF ReadTables
<1>2. ASSUME NEW apply \in BOOLEAN, ScanBlobs(apply)
      PROVE  IInv'
  BY <1>2 DEF ScanBlobs, Orphans, StaleHolds, OldFiles
<1>3. ASSUME NEW f \in Path, UnlinkOrphan(f)
      PROVE  IInv'
  <2>1. KeysOrdered'
    BY <1>3 DEF UnlinkOrphan
  <2>2. RowsAreStored'
    BY <1>3 DEF UnlinkOrphan
  <2>3. ChargedOnce'
    BY <1>3 DEF UnlinkOrphan
  <2>4. SpoolIsHeld'
    BY <1>3 DEF UnlinkOrphan
  <2>5. FilesInPlace'
    BY <1>3, SMTT(60) DEF UnlinkOrphan
  <2>6. RowsHaveFiles'
    BY <1>3 DEF UnlinkOrphan
  <2>7. RowsPointAtTheirOwn'
    BY <1>3 DEF UnlinkOrphan
  <2>8. PreviousIsLeft'
    BY <1>3 DEF UnlinkOrphan
  <2>9. AgedIsFinished'
    BY <1>3 DEF UnlinkOrphan
  <2>10. SnapshotIsSound'
    BY <1>3 DEF UnlinkOrphan
  <2>11. CallsInPlace'
    BY <1>3 DEF UnlinkOrphan
  <2>. QED
    BY <2>1, <2>2, <2>3, <2>4, <2>5, <2>6, <2>7, <2>8, <2>9, <2>10, <2>11
<1>4. ASSUME DropStaleHolds
      PROVE  IInv'
  BY <1>4 DEF DropStaleHolds
<1>5. ASSUME ToolFails
      PROVE  IInv'
  BY <1>5 DEF ToolFails
<1>. HIDE DEF IInv, TypeOK
<1>. QED
  BY <1>1, <1>2, <1>3, <1>4, <1>5
     DEF ToolStep

\* Every step: those above, the ones that start something, downloads, a crash, a day.
LEMMA InvariantStep == IInv /\ [Next]_vars => IInv'
<1> SUFFICES ASSUME IInv, [Next]_vars PROVE IInv'
  OBVIOUS
<1>0. TypeOK'
  BY TypeStep DEF IInv
<1> USE BoundAssumption, FileNameAssumption, PathNames
    DEF IInv, KeysOrdered, RowsAreStored, ChargedOnce, SpoolIsHeld, FilesInPlace, CallsInPlace,
        RowsHaveFiles, RowsPointAtTheirOwn, PreviousIsLeft, AgedIsFinished, SnapshotIsSound, TypeOK,
        Finished, PassFinished, Owner, linkVars, keyVars, jobVars, rowVars, holdVars, diskVars,
        callVars, passVars, readVars, toolVars
<1>1. ASSUME NEW u \in Upload, NEW s \in Sender, OpenPage(u, s)
      PROVE  IInv'
  BY <1>0, <1>1 DEF OpenPage, Goto
<1>2. ASSUME NEW p \in Pass, NEW u \in Upload, NEW k \in Key, StartPass(p, u, k)
      PROVE  IInv'
  BY <1>0, <1>2 DEF StartPass, PassGoto
<1>3. ASSUME NEW r \in Reader, NEW u \in Upload, StartRead(r, u)
      PROVE  IInv'
  BY <1>0, <1>3 DEF StartRead, ReadGoto
<1>4. ASSUME NEW r \in Reader, StatFile(r)
      PROVE  IInv'
  BY <1>0, <1>4 DEF StatFile, ReadGoto
<1>5. ASSUME NEW r \in Reader, StreamFile(r)
      PROVE  IInv'
  BY <1>0, <1>5 DEF StreamFile, ReadGoto
<1>6. ASSUME NEW r \in Reader, StreamBreaks(r)
      PROVE  IInv'
  BY <1>0, <1>6 DEF StreamBreaks, ReadGoto, HandlersDie, Running, PassRunning
<1>7. ASSUME Crash
      PROVE  IInv'
  BY <1>0, <1>7 DEF Crash, HandlersDie, Running, PassRunning
<1>8. ASSUME DayPasses
      PROVE  IInv'
  BY <1>0, <1>8 DEF DayPasses, Busy, Running, PassRunning, UploadState, PassState
<1>9. CASE UNCHANGED vars
  BY <1>0, <1>9 DEF vars
<1>. HIDE DEF IInv, TypeOK
<1>. QED
  BY <1>0, <1>1, <1>2, <1>3, <1>4, <1>5, <1>6, <1>7, <1>8, <1>9,
     PractisingInv, HandlerInv, CallInv, PassInv, ToolInv DEF Next

\* The invariant holds of the empty practice.
LEMMA InvariantInit == Init => IInv
<1> SUFFICES ASSUME Init PROVE IInv
  OBVIOUS
<1>1. TypeOK
  BY BoundAssumption DEF Init, TypeOK, UploadState, PassState, ReadState
<1>. QED
  BY <1>1 DEF Init, IInv, KeysOrdered, RowsAreStored, ChargedOnce, SpoolIsHeld,
     FilesInPlace, CallsInPlace, RowsHaveFiles, RowsPointAtTheirOwn, PreviousIsLeft, AgedIsFinished,
     SnapshotIsSound

-----------------------------------------------------------------------------
(* What follows. *)

\* In every state of every behaviour the inductive invariant holds.
THEOREM Invariance == Spec => []IInv
  BY InvariantInit, InvariantStep, PTL DEF Spec

\* Every variable keeps its type.
THEOREM TypeCorrect == Spec => []TypeOK
<1>1. IInv => TypeOK
  BY DEF IInv
<1>. QED
  BY <1>1, Invariance, PTL

\* A document the practice holds is on disk, whatever crashes, re-encryption passes and
\* reconciliation runs do.
THEOREM DocumentsStay == Spec => []RowsHaveFiles
<1>1. IInv => RowsHaveFiles
  BY DEF IInv
<1>. QED
  BY <1>1, Invariance, PTL

\* No reconciliation run, crash or pass takes the spool file or the reservation from
\* under a running upload.
THEOREM SpoolStays == Spec => []SpoolIsHeld
<1>1. IInv => SpoolIsHeld
  BY DEF IInv
<1>. QED
  BY <1>1, Invariance, PTL

\* A refused upload has no row, no reservation and no stored file; a spool file that outlives
\* the answer has its unlink on the way, or the unlink came before the open or a crash before it.
THEOREM RefusalsUndo == Spec => []RefusalsAreUndone
<1>1. IInv => RefusalsAreUndone
  BY DEF IInv, RefusalsAreUndone, RowsAreStored, ChargedOnce, FilesInPlace
<1>. QED
  BY <1>1, Invariance, PTL

-----------------------------------------------------------------------------
(* Stray files and the downloads that miss: inductive once IInv is known. *)

\* Why a file under its final name may be there without a row.
Excused(o) ==
  \/ o \in Upload /\ pc[o] \in Running \union {"outOfSpace", "failed", "dead"}
  \/ o \in Pass /\ passPc[o] \in {"spooling", "checking", "dropping", "dead"}
  \/ Bin(o) \in unlinking \union missed
  \/ \E q \in Pass : previous[q] = o /\ passPc[q] \in {"unlinking", "dead"}
BinsExcused == \A o \in Owner : Bin(o) \in disk => Excused(o) \/ \E u \in rows : stored[u] = o

\* Only files under their final names are a question; FilesInPlace answers for the others.
LEMMA StrayForm == TypeOK /\ FilesInPlace => (NothingStranded <=> BinsExcused)
<1> SUFFICES ASSUME TypeOK, FilesInPlace PROVE NothingStranded <=> BinsExcused
  OBVIOUS
<1>1. ASSUME NothingStranded, NEW o \in Owner, Bin(o) \in disk
      PROVE  Excused(o) \/ \E u \in rows : stored[u] = o
  <2>1. Bin(o)[2] = o
    BY DEF Bin
  <2>2. CASE \E u \in rows : Bin(o) = Bin(stored[u])
    BY <2>2, PathNames
  <2>3. CASE \A u \in rows : Bin(o) # Bin(stored[u])
    BY <1>1, <2>1, <2>3 DEF NothingStranded, Waste, Excused
  <2>. QED
    BY <2>2, <2>3
<1>2. ASSUME BinsExcused, NEW f \in Waste
      PROVE  \/ f[2] \in Upload /\ pc[f[2]] \in Running \union {"outOfSpace", "failed", "dead"}
             \/ f[2] \in Pass /\ passPc[f[2]] \in {"spooling", "checking", "dropping", "dead"}
             \/ f \in unlinking \union missed
             \/ \E q \in Pass : previous[q] = f[2] /\ passPc[q] \in {"unlinking", "dead"}
  <2>1. PICK o \in Owner : f = Incoming(o) \/ f = Bin(o)
    BY DEF TypeOK, Waste, Path, Incoming, Bin
  <2>2. f[2] = o /\ f \in disk
    BY <2>1 DEF Incoming, Bin, Waste
  <2>3. CASE f = Incoming(o)
    BY <2>2, <2>3 DEF FilesInPlace, Owner, Running
  <2>4. CASE f = Bin(o)
    BY <1>2, <2>2, <2>4 DEF BinsExcused, Waste, Excused
  <2>. QED
    BY <2>1, <2>3, <2>4
<1>. QED
  BY <1>1, <1>2 DEF NothingStranded, BinsExcused, Excused

\* Downloads read the path of a row and miss only what no row points at.
ReadsInOrder == ReadersKnowRows /\ MissesOnlyMovedFiles

LEMMA HandlerStrays ==
  ASSUME IInv, TypeOK', BinsExcused, ReadsInOrder, NEW u \in Upload, HandlerStep(u)
  PROVE  BinsExcused' /\ ReadsInOrder'
<1> USE PathNames, FileNameAssumption
    DEF IInv, TypeOK, BinsExcused, Excused, ReadsInOrder, ReadersKnowRows, MissesOnlyMovedFiles, FilesInPlace,
        RowsAreStored, Owner, Running, Goto, linkVars, keyVars, jobVars, rowVars, holdVars, diskVars, callVars, passVars,
        readVars, toolVars
<1>1. CASE \E declared \in 0 .. MaxUploadBytes + 1 : Post(u, declared)
  BY <1>1 DEF Post
<1>2. CASE Admit(u)
  BY <1>2 DEF Admit
<1>3. CASE DiskLow(u)
  BY <1>3 DEF DiskLow
<1>4. CASE Chunk(u)
  BY <1>4 DEF Chunk
<1>5. CASE \E answer \in {"refused", "failed"} : GiveUp(u, answer)
  BY <1>5 DEF GiveUp
<1>7. CASE FinishSpool(u)
  BY <1>7 DEF FinishSpool
<1>8. CASE \E isEnvelope \in BOOLEAN : CheckEnvelope(u, isEnvelope)
  BY <1>8, SMTT(30) DEF CheckEnvelope
<1>9. CASE DropSpool(u)
  BY <1>9 DEF DropSpool
<1>10. CASE Release(u)
  BY <1>10 DEF Release
<1>11. CASE Move(u)
  BY <1>11, SMTT(30) DEF Move
<1>12. CASE \E answer \in {"outOfSpace", "failed"} : MoveFails(u, answer)
  BY <1>12 DEF MoveFails
<1>13. CASE Record(u)
  <2>1. u \notin rows /\ pc[u] = "moved"
    BY <1>13 DEF Record
  <2>2. CASE ~LinkOpen(u)
    BY <1>13, <2>1, <2>2 DEF Record
  <2>3. CASE LinkOpen(u)
    <3>1. /\ pc' = [pc EXCEPT ![u] = "stored"] /\ stored' = [stored EXCEPT ![u] = u]
          /\ rows' = rows \union {u}
          /\ UNCHANGED <<disk, unlinking, missed, passPc, previous, readPc, reading>>
      BY <1>13, <2>3 DEF Record
    <3>2. ReadsInOrder'
      BY <2>1, <3>1
    <3>3. ASSUME NEW o \in Owner, Bin(o) \in disk
          PROVE  Excused(o)' \/ \E v \in rows' : stored'[v] = o
      <4>1. CASE o = u
        BY <3>1, <4>1
      <4>2. CASE o # u /\ Excused(o)
        BY <3>1, <4>2
      <4>3. ASSUME NEW v \in rows, stored[v] = o
            PROVE  v \in rows' /\ stored'[v] = o
        BY <2>1, <3>1, <4>3
      <4>4. Excused(o) \/ \E v \in rows : stored[v] = o
        BY <3>3
      <4>. HIDE DEF IInv, TypeOK, Excused
      <4>. QED
        BY <4>1, <4>2, <4>3, <4>4
    <3>. QED
      BY <3>1, <3>2, <3>3
  <2>. QED
    BY <2>2, <2>3
<1>14. CASE Throws(u)
  BY <1>14 DEF Throws
<1>15. CASE Undo(u)
  BY <1>15 DEF Undo
<1>. HIDE DEF IInv, TypeOK, BinsExcused, ReadsInOrder
<1>. QED
  BY <1>1, <1>2, <1>3, <1>4, <1>5, <1>7, <1>8, <1>9, <1>10, <1>11, <1>12, <1>13, <1>14, <1>15 DEF HandlerStep

LEMMA PassStrays ==
  ASSUME IInv, TypeOK', BinsExcused, ReadsInOrder, NEW p \in Pass, PassStep(p)
  PROVE  BinsExcused' /\ ReadsInOrder'
<1> USE PathNames, FileNameAssumption
    DEF IInv, TypeOK, BinsExcused, Excused, ReadsInOrder, ReadersKnowRows, MissesOnlyMovedFiles, FilesInPlace,
        RowsAreStored, RowsHaveFiles, RowsPointAtTheirOwn, PreviousIsLeft, Owner, PassRunning, PassGoto, linkVars, keyVars, jobVars, rowVars,
        holdVars, diskVars, callVars, passVars, readVars, toolVars
<1>1. CASE AdmitPass(p)
  <2>1. /\ passPc[p] = "admitting" /\ passPc'[p] \in {"refused", "spooling"}
        /\ \A q \in Pass \ {p} : passPc'[q] = passPc[q]
        /\ UNCHANGED <<pc, rows, stored, disk, unlinking, missed, previous, readPc, reading>>
    BY <1>1 DEF AdmitPass
  <2>2. ReadsInOrder'
    BY <2>1
  <2>3. ASSUME NEW o \in Owner, Bin(o) \in disk'
        PROVE  Excused(o)' \/ \E v \in rows' : stored'[v] = o
    BY <2>1, <2>3, SMTT(30)
  <2>. QED
    BY <2>2, <2>3
<1>7. CASE GiveUpPass(p)
  <2>1. /\ passPc[p] = "spooling" /\ passPc'[p] = "refused" /\ unlinking' = unlinking \union {Bin(p)}
        /\ \A q \in Pass \ {p} : passPc'[q] = passPc[q]
        /\ UNCHANGED <<pc, rows, stored, disk, missed, previous, readPc, reading>>
    BY <1>7 DEF GiveUpPass
  <2>2. ReadsInOrder'
    BY <2>1
  <2>3. ASSUME NEW o \in Owner, Bin(o) \in disk'
        PROVE  Excused(o)' \/ \E v \in rows' : stored'[v] = o
    BY <2>1, <2>3, SMTT(30)
  <2>. QED
    BY <2>2, <2>3
<1>2. CASE FinishPassSpool(p)
  BY <1>2 DEF FinishPassSpool
<1>3. CASE \E bytes \in 1..MaxUploadBytes : ReplaceUpload(p, bytes)
  <2>1. /\ passPc[p] = "checking" /\ passPc' = [passPc EXCEPT ![p] = "unlinking"]
        /\ moving[p] \in rows /\ stored' = [stored EXCEPT ![moving[p]] = p]
        /\ previous' = [previous EXCEPT ![p] = stored[moving[p]]]
        /\ UNCHANGED <<pc, rows, disk, unlinking, missed, readPc, reading>>
    BY <1>3 DEF ReplaceUpload
  <2>2. ReadsInOrder'
    <3>1. ReadersKnowRows'
      BY <2>1
    <3>2. MissesOnlyMovedFiles'
      BY <2>1, SMTT(30)
    <3>. QED
      BY <3>1, <3>2
  <2>3. ASSUME NEW o \in Owner, Bin(o) \in disk
        PROVE  Excused(o)' \/ \E v \in rows' : stored'[v] = o
    <3>1. CASE o = p
      BY <2>1, <3>1
    <3>2. CASE o # p /\ Excused(o)
      <4>1. CASE \E q \in Pass : previous[q] = o /\ passPc[q] \in {"unlinking", "dead"}
        BY <2>1, <4>1
      <4>2. CASE o \in Upload /\ pc[o] \in Running \union {"outOfSpace", "failed", "dead"}
        BY <2>1, <4>2
      <4>3. CASE o \in Pass /\ passPc[o] \in {"spooling", "checking", "dropping", "dead"}
        BY <2>1, <3>2, <4>3
      <4>4. CASE Bin(o) \in unlinking \union missed
        BY <2>1, <4>4
      <4>. QED
        BY <3>2, <4>1, <4>2, <4>3, <4>4
    <3>3. ASSUME NEW v \in rows, stored[v] = o
          PROVE  Excused(o)' \/ stored'[v] = o
      BY <2>1, <3>3
    <3>. QED
      BY <2>1, <2>3, <3>1, <3>2, <3>3, SMTT(30)
  <2>. QED
    BY <2>1, <2>2, <2>3
<1>4. CASE RefusePass(p)
  BY <1>4 DEF RefusePass
<1>5. CASE DropCopy(p)
  BY <1>5 DEF DropCopy
<1>6. CASE UnlinkPrevious(p)
  <2>1. /\ passPc[p] = "unlinking" /\ passPc'[p] = "replaced" /\ disk' = disk \ {Bin(previous[p])}
        /\ \A q \in Pass \ {p} : passPc'[q] = passPc[q]
        /\ UNCHANGED <<pc, rows, stored, unlinking, missed, previous, readPc, reading>>
    BY <1>6 DEF UnlinkPrevious
  <2>2. ReadsInOrder'
    BY <2>1
  <2>3. ASSUME NEW o \in Owner, Bin(o) \in disk'
        PROVE  Excused(o)' \/ \E v \in rows' : stored'[v] = o
    <3>1. Bin(o) \in disk /\ previous[p] # o
      BY <2>1, <2>3
    <3>2. CASE Excused(o)
      BY <2>1, <3>1, <3>2
    <3>3. CASE \E v \in rows : stored[v] = o
      BY <2>1, <3>3
    <3>. QED
      BY <3>1, <3>2, <3>3
  <2>. QED
    BY <2>2, <2>3
<1>. HIDE DEF IInv, TypeOK, BinsExcused, ReadsInOrder
<1>. QED
  BY <1>1, <1>2, <1>3, <1>4, <1>5, <1>6, <1>7 DEF PassStep

LEMMA OtherStrays ==
  ASSUME IInv, TypeOK', BinsExcused, ReadsInOrder, [Next]_vars,
         \A u \in Upload : ~HandlerStep(u), \A p \in Pass : ~PassStep(p)
  PROVE  BinsExcused' /\ ReadsInOrder'
<1> USE PathNames, FileNameAssumption
    DEF IInv, TypeOK, BinsExcused, Excused, ReadsInOrder, ReadersKnowRows, MissesOnlyMovedFiles, FilesInPlace,
        RowsAreStored, RowsHaveFiles, RowsPointAtTheirOwn, Owner, linkVars, keyVars, jobVars, rowVars,
        holdVars, diskVars, callVars, passVars, readVars, toolVars
<1>1. CASE Practising
  BY <1>1 DEF Practising, IssueLink, ExpireLink, RevokeLink, AddKey, RetireKey
<1>2. CASE ToolStep \/ ScanBlobs(FALSE) \/ ToolFails
  BY <1>2 DEF ToolStep, ReadTables, ScanBlobs, UnlinkOrphan, DropStaleHolds, ToolFails
<1>3. CASE \E u \in Upload, s \in Sender : OpenPage(u, s)
  BY <1>3 DEF OpenPage, Goto, Running
<1>4. ASSUME NEW p \in Pass, NEW u \in Upload, NEW k \in Key, StartPass(p, u, k)
      PROVE  BinsExcused' /\ ReadsInOrder'
  <2>1. /\ passPc[p] = "idle" /\ \A q \in Pass \ {p} : passPc'[q] = passPc[q]
        /\ UNCHANGED <<pc, rows, stored, disk, unlinking, missed, previous, readPc, reading>>
    BY <1>4 DEF StartPass, PassGoto
  <2>2. ReadsInOrder'
    BY <2>1
  <2>3. ASSUME NEW o \in Owner, Excused(o)
        PROVE  Excused(o)'
    BY <2>1, <2>3
  <2>. QED
    BY <2>1, <2>2, <2>3, SMTT(30)
<1>5. CASE \E r \in Reader, u \in Upload : StartRead(r, u)
  BY <1>5 DEF StartRead, ReadGoto
<1>6. ASSUME NEW r \in Reader, StatFile(r) \/ StreamFile(r)
      PROVE  BinsExcused' /\ ReadsInOrder'
  <2>1. /\ readPc[r] \in {"statting", "opening"}
        /\ readPc'[r] = "missing" => Bin(reading[r]) \notin disk
        /\ readPc'[r] # "broken"
        /\ \A x \in Reader \ {r} : readPc'[x] = readPc[x]
        /\ UNCHANGED <<pc, passPc, rows, stored, disk, unlinking, missed, previous, reading>>
    BY <1>6 DEF StatFile, StreamFile, ReadGoto
  <2>. QED
    BY <2>1
<1>7. CASE Crash
  BY <1>7 DEF Crash, HandlersDie, Running, PassRunning, ReadRunning
<1>8. ASSUME NEW r \in Reader, StreamBreaks(r)
      PROVE  BinsExcused' /\ ReadsInOrder'
  BY <1>8 DEF StreamBreaks, HandlersDie, Running, PassRunning, ReadRunning
<1>9. CASE DayPasses \/ UNCHANGED vars
  BY <1>9 DEF DayPasses, vars
<1>10. ASSUME NEW f \in Path, OpenSpool(f) \/ UnlinkSpool(f)
       PROVE  BinsExcused' /\ ReadsInOrder'
  <2>1. /\ UNCHANGED <<pc, passPc, rows, stored, previous, readPc, reading>>
        /\ unlinking \ {f} \subseteq unlinking' /\ missed \subseteq missed'
    BY <1>10 DEF OpenSpool, UnlinkSpool
  <2>2. ReadsInOrder'
    BY <1>10, <2>1 DEF OpenSpool, UnlinkSpool, CallsInPlace
  <2>3. ASSUME NEW o \in Owner, Bin(o) \in disk'
        PROVE  Excused(o)' \/ \E v \in rows' : stored'[v] = o
    <3>1. CASE OpenSpool(f) /\ f = Bin(o)
      BY <2>1, <3>1 DEF OpenSpool, CallsInPlace
    <3>2. CASE ~(OpenSpool(f) /\ f = Bin(o))
      BY <1>10, <2>1, <2>3, <3>2 DEF OpenSpool, UnlinkSpool
    <3>. QED
      BY <3>1, <3>2
  <2>. QED
    BY <2>2, <2>3
<1>. HIDE DEF IInv, TypeOK, BinsExcused, ReadsInOrder
<1>. QED
  BY <1>1, <1>2, <1>3, <1>4, <1>5, <1>6, <1>7, <1>8, <1>9, <1>10 DEF Next

LEMMA StrayInit == Init => StrayInv
  BY DEF Init, StrayInv, NothingStranded, Waste, ReadersKnowRows, MissesOnlyMovedFiles

LEMMA StrayStep == IInv /\ IInv' /\ StrayInv /\ [Next]_vars => StrayInv'
<1> SUFFICES ASSUME IInv, IInv', StrayInv, [Next]_vars PROVE StrayInv'
  OBVIOUS
<1>1. BinsExcused /\ ReadsInOrder
  BY StrayForm DEF IInv, StrayInv, ReadsInOrder
<1>2. BinsExcused' /\ ReadsInOrder'
  BY <1>1, HandlerStrays, PassStrays, OtherStrays DEF IInv
<1>3. NothingStranded' <=> BinsExcused'
  BY StrayForm, PTL DEF IInv
<1>. QED
  BY <1>2, <1>3 DEF StrayInv, ReadsInOrder

THEOREM StraysAreExcused == Spec => []StrayInv
  BY StrayInit, StrayStep, Invariance, PTL DEF Spec

\* However uploads, passes and reconciliation runs race, only running handlers, crashes and
\* failed calls leave a file without a row.
THEOREM NothingIsStranded == Spec => []NothingStranded
<1>1. StrayInv => NothingStranded
  BY DEF StrayInv
<1>. QED
  BY <1>1, StraysAreExcused, PTL

\* A download misses only a file that a re-encryption pass has replaced.
THEOREM MissesAreMoves == Spec => []MissesOnlyMovedFiles
<1>1. StrayInv => MissesOnlyMovedFiles
  BY DEF StrayInv
<1>. QED
  BY <1>1, StraysAreExcused, PTL

-----------------------------------------------------------------------------
(* What no step does. *)

\* A step changes rows and what they are sealed to only by recording, replacing or not at all.
LEMMA NothingLost ==
  ASSUME IInv, [Next]_vars, NEW v \in rows, sealed[v] \notin retired
  PROVE  v \in rows' /\ sealed'[v] \notin retired'
<1> USE DEF IInv, TypeOK, linkVars, keyVars, jobVars, rowVars, holdVars, diskVars, callVars, passVars, readVars, toolVars
<1>1. ASSUME UNCHANGED <<rows, sealed, retired>>
      PROVE  v \in rows' /\ sealed'[v] \notin retired'
  BY <1>1
<1>2. ASSUME NEW k \in Key, RetireKey(k)
      PROVE  v \in rows' /\ sealed'[v] \notin retired'
  BY <1>2 DEF RetireKey
<1>3. ASSUME NEW u \in Upload, Record(u)
      PROVE  v \in rows' /\ sealed'[v] \notin retired'
  BY <1>3 DEF Record, RowsAreStored
<1>4. ASSUME NEW p \in Pass, NEW bytes \in 1..MaxUploadBytes, ReplaceUpload(p, bytes)
      PROVE  v \in rows' /\ sealed'[v] \notin retired'
  BY <1>4 DEF ReplaceUpload, Live
<1>5. ASSUME NEW u \in Upload, HandlerStep(u), ~Record(u)
      PROVE  UNCHANGED <<rows, sealed, retired>>
  BY <1>5 DEF HandlerStep, Post, Admit, DiskLow, Chunk, GiveUp, FinishSpool, CheckEnvelope,
     DropSpool, Release, Move, MoveFails, Throws, Undo
<1>6. ASSUME NEW p \in Pass, PassStep(p), ~(\E bytes \in 1..MaxUploadBytes : ReplaceUpload(p, bytes))
      PROVE  UNCHANGED <<rows, sealed, retired>>
  BY <1>6 DEF PassStep, AdmitPass, FinishPassSpool, GiveUpPass, RefusePass, DropCopy, UnlinkPrevious
<1>7. ASSUME ToolStep \/ ScanBlobs(FALSE) \/ ToolFails
      PROVE  UNCHANGED <<rows, sealed, retired>>
  BY <1>7 DEF ToolStep, ReadTables, ScanBlobs, UnlinkOrphan, DropStaleHolds, ToolFails
<1>8. ASSUME Practising, ~(\E k \in Key : RetireKey(k))
      PROVE  UNCHANGED <<rows, sealed, retired>>
  BY <1>8 DEF Practising, IssueLink, ExpireLink, RevokeLink, AddKey
<1>9. ASSUME \/ \E u \in Upload, s \in Sender : OpenPage(u, s)
             \/ \E p \in Pass, u \in Upload, k \in Key : StartPass(p, u, k)
             \/ \E r \in Reader, u \in Upload : StartRead(r, u)
             \/ \E r \in Reader : StatFile(r) \/ StreamFile(r) \/ StreamBreaks(r)
             \/ \E f \in Path : OpenSpool(f) \/ UnlinkSpool(f)
             \/ Crash \/ DayPasses \/ UNCHANGED vars
      PROVE  UNCHANGED <<rows, sealed, retired>>
  BY <1>9 DEF OpenPage, OpenSpool, UnlinkSpool, StartPass, StartRead, StatFile, StreamFile, StreamBreaks, Crash, DayPasses,
     HandlersDie, vars
<1>. HIDE DEF IInv, TypeOK
<1>. QED
  BY <1>1, <1>2, <1>3, <1>4, <1>5, <1>6, <1>7, <1>8, <1>9 DEF Next

\* No step takes away a document that could be opened: neither retiring a key, with passes
\* moving documents at the same time, nor the passes.
THEOREM OpenableStaysOpenable == Spec => NothingBecomesUnopenable
<1>1. IInv /\ [Next]_vars
        => [\A u \in rows : sealed[u] \notin retired => u \in rows' /\ sealed'[u] \notin retired']_vars
  BY NothingLost
<1>. QED
  BY <1>1, Invariance, PTL DEF Spec, NothingBecomesUnopenable

\* A step of an upload through a link that grows the practice's bytes ends within the quota.
LEMMA LinkGrowth ==
  ASSUME IInv, NEW u \in Upload, HandlerStep(u), sender[u] \in Link, LogicalBytes' > LogicalBytes, TypeOK'
  PROVE  LogicalBytes' <= MaxStorageBytes
<1> USE BoundAssumption
    DEF IInv, TypeOK, linkVars, keyVars, jobVars, rowVars, holdVars, diskVars, callVars, passVars, readVars, toolVars
<1>1. /\ Charged \in [Upload -> Nat] /\ LogicalBytes \in Nat
      /\ Charged' \in [Upload -> Nat] /\ LogicalBytes' \in Nat
  BY TotalType DEF Charged, LogicalBytes
<1>2. CASE Chunk(u)
  <2>1. Charged[u] < 2 * MaxUploadBytes
    BY <1>2 DEF Charged, Chunk, SpoolIsHeld, ChargedOnce, RowsAreStored
  <2>2. Charged' = [Charged EXCEPT ![u] = @ + 1]
    <3>1. size' = size /\ held' = [held EXCEPT ![u] = @ + 1]
      BY <1>2 DEF Chunk
    <3>2. Charged'[u] = Charged[u] + 1
      BY <3>1 DEF Charged
    <3>3. \A v \in Upload \ {u} : Charged'[v] = Charged[v]
      BY <3>1 DEF Charged
    <3>. HIDE DEF IInv, TypeOK
    <3>. QED
      BY <1>1, <3>2, <3>3
  <2>3. LogicalBytes' = LogicalBytes + 1
    BY <1>1, <2>1, <2>2, TotalAddOne DEF LogicalBytes
  <2>4. LogicalBytes + 1 <= MaxStorageBytes
    BY <1>2 DEF Chunk, WithinQuota
  <2>. QED
    BY <2>3, <2>4
<1>3. ASSUME ~Chunk(u)
      PROVE  \A v \in Upload : Charged'[v] <= Charged[v]
  <2>1. CASE Record(u)
    BY <2>1 DEF Record, Charged, SpoolIsHeld, ChargedOnce, RowsAreStored
  <2>2. CASE \/ \E answer \in {"refused", "failed"} : GiveUp(u, answer)
             \/ Release(u)
             \/ \E answer \in {"outOfSpace", "failed"} : MoveFails(u, answer)
    BY <2>2 DEF GiveUp, Release, MoveFails, Charged
  <2>3. ASSUME UNCHANGED <<size, held>>
        PROVE  \A v \in Upload : Charged'[v] <= Charged[v]
    BY <2>3 DEF Charged
  <2>4. CASE ~(\/ Record(u) \/ Release(u)
               \/ \E answer \in {"refused", "failed"} : GiveUp(u, answer)
               \/ \E answer \in {"outOfSpace", "failed"} : MoveFails(u, answer))
    <3>1. UNCHANGED <<size, held>>
      BY <1>3, <2>4 DEF HandlerStep, Post, Admit, DiskLow, FinishSpool, CheckEnvelope,
         DropSpool, Move, Throws, Undo
    <3>. QED
      BY <3>1, <2>3
  <2>. QED
    BY <2>1, <2>2, <2>4
<1>4. CASE ~Chunk(u)
  <2>1. LogicalBytes' <= LogicalBytes
    BY <1>1, <1>3, <1>4, TotalMonotone DEF LogicalBytes
  <2>. QED
    BY <1>1, <2>1
<1>. QED
  BY <1>2, <1>4

\* However many uploads run at once, links never take the practice past its quota.
THEOREM LinksKeepQuota == Spec => LinksWithinQuota
<1>1. IInv /\ TypeOK' /\ [Next]_vars
        => [\A u \in Upload :
              HandlerStep(u) /\ sender[u] \in Link /\ LogicalBytes' > LogicalBytes
                => LogicalBytes' <= MaxStorageBytes]_vars
  BY LinkGrowth
<1>2. IInv /\ [Next]_vars => TypeOK'
  BY TypeStep DEF IInv
<1>. QED
  BY <1>1, <1>2, Invariance, PTL DEF Spec, LinksWithinQuota

-----------------------------------------------------------------------------
(* The request's limit. *)

\* Every step keeps what was let past the comparison within the total its handler read.
LEMMA FitsStep == TypeOK /\ FitsWhatWasRead /\ [Next]_vars => FitsWhatWasRead'
<1> SUFFICES ASSUME TypeOK, FitsWhatWasRead, [Next]_vars PROVE FitsWhatWasRead'
  OBVIOUS
<1> USE BoundAssumption DEF TypeOK, FitsWhatWasRead, jobVars
<1>1. ASSUME NEW u \in Upload, HandlerStep(u)
      PROVE  FitsWhatWasRead'
  <2>1. CASE FinishSpool(u)
    BY <2>1 DEF FinishSpool, Goto
  <2>2. CASE Chunk(u)
    BY <2>2 DEF Chunk
  <2>3. CASE \E declared \in 0 .. MaxUploadBytes + 1 : Post(u, declared)
    BY <2>3 DEF Post, Goto
  <2>4. CASE \E isEnvelope \in BOOLEAN : CheckEnvelope(u, isEnvelope)
    BY <2>4 DEF CheckEnvelope, Goto
  <2>5. CASE Move(u) \/ Record(u) \/ Throws(u) \/ Undo(u)
             \/ \E answer \in {"outOfSpace", "failed"} : MoveFails(u, answer)
    BY <2>5 DEF Move, Record, Throws, Undo, MoveFails, Goto
  <2>6. CASE Admit(u) \/ DiskLow(u) \/ DropSpool(u) \/ Release(u)
             \/ \E answer \in {"refused", "failed"} : GiveUp(u, answer)
    BY <2>6 DEF Admit, DiskLow, GiveUp, DropSpool, Release, Goto
  <2>. QED
    BY <1>1, <2>1, <2>2, <2>3, <2>4, <2>5, <2>6 DEF HandlerStep
<1>2. ASSUME NEW u \in Upload, NEW s \in Sender, OpenPage(u, s)
      PROVE  FitsWhatWasRead'
  BY <1>2 DEF OpenPage, Goto
<1>3. CASE Crash \/ \E r \in Reader : StreamBreaks(r)
  BY <1>3 DEF Crash, StreamBreaks, HandlersDie, Running
<1>4. CASE UNCHANGED jobVars
  BY <1>4
<1>5. CASE Practising
  <2>1. UNCHANGED jobVars
    BY <1>5 DEF Practising, IssueLink, ExpireLink, RevokeLink, AddKey, RetireKey
  <2>. QED
    BY <1>4, <2>1
<1>6. ASSUME NEW p \in Pass, PassStep(p) \/ \E u \in Upload, k \in Key : StartPass(p, u, k)
      PROVE  FitsWhatWasRead'
  <2>1. UNCHANGED jobVars
    BY <1>6 DEF PassStep, StartPass, AdmitPass, FinishPassSpool, GiveUpPass, ReplaceUpload, RefusePass,
       DropCopy, UnlinkPrevious
  <2>. QED
    BY <1>4, <2>1
<1>7. ASSUME NEW r \in Reader, StatFile(r) \/ StreamFile(r) \/ \E u \in Upload : StartRead(r, u)
      PROVE  FitsWhatWasRead'
  <2>1. UNCHANGED jobVars
    BY <1>7 DEF StatFile, StreamFile, StartRead
  <2>. QED
    BY <1>4, <2>1
<1>8. CASE \/ \E f \in Path : OpenSpool(f) \/ UnlinkSpool(f)
           \/ DayPasses \/ ToolStep \/ ScanBlobs(FALSE) \/ ToolFails
  <2>1. UNCHANGED jobVars
    BY <1>8 DEF OpenSpool, UnlinkSpool, DayPasses, ToolStep, ReadTables, ScanBlobs, UnlinkOrphan, DropStaleHolds, ToolFails
  <2>. QED
    BY <1>4, <2>1
<1>9. CASE UNCHANGED vars
  BY <1>4, <1>9 DEF vars
<1>. HIDE DEF TypeOK, FitsWhatWasRead
<1>. QED
  BY <1>1, <1>2, <1>3, <1>5, <1>6, <1>7, <1>8, <1>9 DEF Next

\* Rows are added by Record alone, and one at a time.
LEMMA OnlyRecordAdds ==
  ASSUME [Next]_vars, NEW u \in Upload, u \in rows' \ rows
  PROVE  Record(u) /\ LinkOpen(u)
<1> USE DEF linkVars, keyVars, jobVars, rowVars, holdVars, diskVars, callVars, passVars, readVars, toolVars
<1>1. ASSUME NEW v \in Upload, HandlerStep(v)
      PROVE  Record(u) /\ LinkOpen(u)
  <2>1. CASE Record(v)
    BY <2>1 DEF Record
  <2>2. CASE ~Record(v)
    <3>1. UNCHANGED rows
      BY <1>1, <2>2 DEF HandlerStep, Post, Admit, DiskLow, Chunk, GiveUp, FinishSpool,
         CheckEnvelope, DropSpool, Release, Move, MoveFails, Throws, Undo
    <3>. QED
      BY <3>1
  <2>. QED
    BY <2>1, <2>2
<1>2. ASSUME Practising \/ (\E v \in Upload, s \in Sender : OpenPage(v, s)) \/ Crash \/ DayPasses
      PROVE  UNCHANGED rows
  BY <1>2 DEF Practising, IssueLink, ExpireLink, RevokeLink, AddKey, RetireKey, OpenPage, Crash, DayPasses,
     HandlersDie
<1>3. ASSUME NEW p \in Pass, PassStep(p) \/ \E v \in Upload, k \in Key : StartPass(p, v, k)
      PROVE  UNCHANGED rows
  BY <1>3 DEF PassStep, StartPass, AdmitPass, FinishPassSpool, GiveUpPass, ReplaceUpload, RefusePass,
     DropCopy, UnlinkPrevious
<1>4. ASSUME NEW r \in Reader,
             StatFile(r) \/ StreamFile(r) \/ StreamBreaks(r) \/ \E v \in Upload : StartRead(r, v)
      PROVE  UNCHANGED rows
  BY <1>4 DEF StatFile, StreamFile, StreamBreaks, StartRead, HandlersDie
<1>5. ASSUME ToolStep \/ ScanBlobs(FALSE) \/ ToolFails \/ \E f \in Path : OpenSpool(f) \/ UnlinkSpool(f)
      PROVE  UNCHANGED rows
  BY <1>5 DEF OpenSpool, UnlinkSpool, ToolStep, ReadTables, ScanBlobs, UnlinkOrphan, DropStaleHolds, ToolFails
<1>6. ASSUME UNCHANGED vars
      PROVE  UNCHANGED rows
  BY <1>6 DEF vars
<1>. QED
  BY <1>1, <1>2, <1>3, <1>4, <1>5, <1>6 DEF Next

\* A row that takes the request past its limit is added to more than its handler had read.
LEMMA RecordPastLimit ==
  ASSUME IInv, FitsWhatWasRead, NEW u \in Upload, Record(u), LinkOpen(u), DocumentBytes' > MaxRequestBytes
  PROVE  DocumentBytes > spent[u]
<1>1. DocumentBytes' <= DocumentBytes + got[u]
  <2>1. size \in [Upload -> Nat] /\ got[u] \in Nat
    BY BoundAssumption DEF IInv, TypeOK
  <2>2. size' = [size EXCEPT ![u] = got[u]]
    BY DEF Record
  <2>3. Total([size EXCEPT ![u] = got[u]]) <= Total(size) + got[u]
    BY <2>1, TotalSetOne
  <2>. QED
    BY <2>2, <2>3 DEF DocumentBytes
<1>2. spent[u] + got[u] <= MaxRequestBytes
  BY DEF FitsWhatWasRead, Record
<1>3. DocumentBytes \in Nat /\ DocumentBytes' \in Nat
  BY TotalType DEF DocumentBytes
<1>4. got[u] \in Nat /\ spent[u] \in Nat /\ MaxRequestBytes \in Nat
  BY BoundAssumption DEF IInv, TypeOK
<1>. QED
  BY <1>1, <1>2, <1>3, <1>4

\* No upload is recorded past the request's limit unless the request grew after its handler
\* had read the total.
THEOREM LimitPassedUnknowing == Spec => LimitPassedOnlyUnknowing
<1>1. Init => FitsWhatWasRead
  BY DEF Init, FitsWhatWasRead
<1>2. IInv /\ FitsWhatWasRead /\ [Next]_vars => FitsWhatWasRead'
  BY FitsStep DEF IInv
<1>3. IInv /\ FitsWhatWasRead /\ [Next]_vars
        => [\A u \in Upload :
              u \in rows' \ rows /\ DocumentBytes' > MaxRequestBytes => DocumentBytes > spent[u]]_vars
  BY OnlyRecordAdds, RecordPastLimit
<1>. QED
  BY <1>1, <1>2, <1>3, Invariance, PTL DEF Spec, LimitPassedOnlyUnknowing

-----------------------------------------------------------------------------
(* The promise to the sender: UploadPipeline implements DocumentCustody. *)

\* Under the invariant, every row is a document kept.
LEMMA KeptRows == IInv => Kept = rows
  BY DEF IInv, Kept, RowsHaveFiles, TypeOK

\* An attempt that moves between states of the same answer changes no answer.
LEMMA SameAnswer ==
  ASSUME NEW u \in Upload, NEW state, TypeOK, pc' = [pc EXCEPT ![u] = state],
         Answer[u] = "none",
         state \in {"idle", "page", "admitting", "spooling", "reading", "dropping", "releasing",
                    "moving", "moved", "undoing"}
  PROVE  Answer' = Answer
  BY DEF TypeOK, Answer

\* An attempt that reaches its end gets its answer.
LEMMA NewAnswer ==
  ASSUME NEW u \in Upload, NEW state, TypeOK, pc' = [pc EXCEPT ![u] = state]
  PROVE  Answer' = [Answer EXCEPT ![u] =
           CASE state = "stored"                    -> "accepted"
             [] state \in {"refused", "outOfSpace"} -> "refused"
             [] state \in {"failed", "dead"}        -> "unknown"
             [] OTHER                               -> "none"]
  BY DEF TypeOK, Answer
\* A state in which the sender still waits.
LEMMA Unanswered ==
  ASSUME NEW u \in Upload, TypeOK, pc[u] \in Running \union {"idle", "page"}
  PROVE  Answer[u] = "none"
  BY DEF TypeOK, Answer, Running

\* A step of one attempt, other than the one that records a row, is a stutter or an answer.
LEMMA AttemptStep ==
  ASSUME IInv, IInv', NEW u \in Upload, NEW state \in UploadState \ {"stored"},
         pc[u] \in Running \union {"idle", "page"}, pc' = [pc EXCEPT ![u] = state], rows' = rows
  PROVE  [Custody!Next]_<<Answer, Kept>>
<1>1. TypeOK /\ Answer[u] = "none"
  BY Unanswered DEF IInv
<1>2. Kept' = Kept
  <2>1. Kept = rows
    BY KeptRows
  <2>2. Kept' = rows'
    BY DEF IInv, Kept, RowsHaveFiles, TypeOK
  <2>. QED
    BY <2>1, <2>2
<1>3. CASE state \in {"refused", "outOfSpace"}
  <2>1. Answer' = [Answer EXCEPT ![u] = "refused"]
    BY <1>1, <1>3, NewAnswer
  <2>. QED
    BY <1>1, <1>2, <2>1 DEF Custody!Next, Custody!Refuse
<1>4. CASE state \in {"failed", "dead"}
  <2>1. Answer' = [Answer EXCEPT ![u] = "unknown"]
    BY <1>1, <1>4, NewAnswer
  <2>2. DOMAIN Answer = Upload /\ DOMAIN Answer' = Upload
    BY DEF Answer
  <2>3. \A v \in Upload : Answer'[v] = Answer[v] \/ (Answer[v] = "none" /\ Answer'[v] = "unknown")
    BY <1>1, <2>1, <2>2
  <2>. QED
    BY <1>2, <2>2, <2>3 DEF Custody!Next, Custody!CutOff
<1>5. CASE state \notin {"refused", "outOfSpace", "failed", "dead"}
  <2>1. Answer' = Answer
    BY <1>1, <1>5, SameAnswer DEF UploadState, Running
  <2>. QED
    BY <1>2, <2>1
<1>. QED
  BY <1>3, <1>4, <1>5

\* A crash cuts off every sender that waits.
LEMMA DyingStep ==
  ASSUME IInv, IInv', HandlersDie
  PROVE  [Custody!Next]_<<Answer, Kept>>
<1>1. Kept = rows /\ Kept' = rows'
  BY DEF IInv, Kept, RowsHaveFiles, TypeOK
<1>2. Kept' = Kept
  BY <1>1 DEF HandlersDie, rowVars
<1>3. DOMAIN Answer = Upload /\ DOMAIN Answer' = Upload
  BY DEF Answer
<1>4. ASSUME NEW v \in Upload
      PROVE  Answer'[v] = Answer[v] \/ (Answer[v] = "none" /\ Answer'[v] = "unknown")
  <2>1. CASE pc[v] \in Running
    <3>1. Answer[v] = "none"
      BY <2>1, Unanswered DEF IInv
    <3>2. pc'[v] = "dead"
      BY <2>1 DEF HandlersDie
    <3>. QED
      BY <3>1, <3>2 DEF Answer
  <2>2. CASE pc[v] \notin Running
    <3>1. pc'[v] = pc[v]
      BY <2>2 DEF HandlersDie
    <3>. QED
      BY <3>1 DEF Answer
  <2>. QED
    BY <2>1, <2>2
<1>. QED
  BY <1>2, <1>3, <1>4 DEF Custody!Next, Custody!CutOff

\* A step that leaves the attempts and the rows alone says nothing to any sender.
LEMMA QuietStep ==
  ASSUME IInv, IInv', UNCHANGED <<pc, rows>>
  PROVE  UNCHANGED <<Answer, Kept>>
<1>1. Kept = rows /\ Kept' = rows'
  BY DEF IInv, Kept, RowsHaveFiles, TypeOK
<1>2. Answer' = Answer
  BY DEF Answer
<1>. QED
  BY <1>1, <1>2

\* Recording a document is telling its sender so.
LEMMA RecordStep ==
  ASSUME IInv, IInv', NEW u \in Upload, Record(u)
  PROVE  [Custody!Next]_<<Answer, Kept>>
<1>1. CASE ~LinkOpen(u)
  <2>1. pc' = [pc EXCEPT ![u] = "undoing"] /\ rows' = rows /\ pc[u] \in Running
    BY <1>1 DEF Record, Goto, rowVars, Running
  <2>. QED
    BY <2>1, AttemptStep DEF UploadState, Running
<1>2. CASE LinkOpen(u)
  <2>1. pc' = [pc EXCEPT ![u] = "stored"] /\ rows' = rows \union {u} /\ pc[u] \in Running
    BY <1>2 DEF Record, Goto, Running
  <2>2. Kept = rows /\ Kept' = rows'
    BY DEF IInv, Kept, RowsHaveFiles, TypeOK
  <2>3. TypeOK /\ Answer[u] = "none"
    BY <2>1, Unanswered DEF IInv
  <2>4. Answer' = [Answer EXCEPT ![u] = "accepted"]
    BY <2>1, <2>3, NewAnswer
  <2>. QED
    BY <2>1, <2>2, <2>3, <2>4 DEF Custody!Next, Custody!Accept
<1>. QED
  BY <1>1, <1>2

\* Every other step of a handler moves its own attempt on and no row.
LEMMA HandlerMoves ==
  ASSUME TypeOK, NEW u \in Upload, HandlerStep(u), ~Record(u)
  PROVE  /\ rows' = rows
         /\ \/ pc' = pc
            \/ /\ pc[u] \in Running \union {"page"}
               /\ \E state \in UploadState \ {"stored"} : pc' = [pc EXCEPT ![u] = state]
<1> USE DEF Goto, rowVars, Running, UploadState
<1>1. CASE \E declared \in 0 .. MaxUploadBytes + 1 : Post(u, declared)
  BY <1>1 DEF Post
<1>2. CASE Admit(u) \/ DiskLow(u)
  BY <1>2 DEF Admit, DiskLow
<1>3. CASE Chunk(u) \/ \E answer \in {"refused", "failed"} : GiveUp(u, answer)
  BY <1>3 DEF Chunk, GiveUp
<1>4. CASE FinishSpool(u)
  BY <1>4 DEF FinishSpool
<1>5. CASE \E isEnvelope \in BOOLEAN : CheckEnvelope(u, isEnvelope)
  BY <1>5 DEF CheckEnvelope
<1>6. CASE DropSpool(u) \/ Release(u) \/ Move(u)
  BY <1>6 DEF DropSpool, Release, Move
<1>7. CASE \E answer \in {"outOfSpace", "failed"} : MoveFails(u, answer)
  BY <1>7 DEF MoveFails
<1>8. CASE Throws(u) \/ Undo(u)
  BY <1>8 DEF Throws, Undo
<1>. QED
  BY <1>1, <1>2, <1>3, <1>4, <1>5, <1>6, <1>7, <1>8 DEF HandlerStep

LEMMA CustodyInit == Init => Custody!Init
  BY DEF Init, Custody!Init, Answer, Kept

LEMMA CustodyStep == IInv /\ IInv' /\ [Next]_vars => [Custody!Next]_<<Answer, Kept>>
<1> SUFFICES ASSUME IInv, IInv', [Next]_vars PROVE [Custody!Next]_<<Answer, Kept>>
  OBVIOUS
<1>1. ASSUME NEW u \in Upload, HandlerStep(u)
      PROVE  [Custody!Next]_<<Answer, Kept>>
  <2>1. CASE Record(u)
    BY <2>1, RecordStep
  <2>2. CASE ~Record(u)
    BY <1>1, <2>2, HandlerMoves, AttemptStep, QuietStep DEF IInv
  <2>. QED
    BY <2>1, <2>2
<1>2. ASSUME NEW u \in Upload, NEW s \in Sender, OpenPage(u, s)
      PROVE  [Custody!Next]_<<Answer, Kept>>
  <2>1. pc[u] = "idle" /\ pc' = [pc EXCEPT ![u] = "page"] /\ rows' = rows
    BY <1>2 DEF OpenPage, Goto, rowVars
  <2>. QED
    BY <2>1, AttemptStep DEF UploadState
<1>3. CASE HandlersDie
  BY <1>3, DyingStep
<1>4. ASSUME NEW p \in Pass, PassStep(p)
      PROVE  UNCHANGED <<pc, rows>>
  BY <1>4 DEF PassStep, AdmitPass, FinishPassSpool, GiveUpPass, ReplaceUpload, RefusePass, DropCopy, UnlinkPrevious,
     jobVars, rowVars
<1>5. ASSUME Practising
      PROVE  UNCHANGED <<pc, rows>>
  BY <1>5 DEF Practising, IssueLink, ExpireLink, RevokeLink, AddKey, RetireKey, jobVars, rowVars
<1>6. ASSUME ToolStep \/ ScanBlobs(FALSE) \/ ToolFails
      PROVE  UNCHANGED <<pc, rows>>
  BY <1>6 DEF ToolStep, ReadTables, ScanBlobs, UnlinkOrphan, DropStaleHolds, ToolFails, jobVars, rowVars
<1>7. ASSUME \/ \E p \in Pass, u \in Upload, k \in Key : StartPass(p, u, k)
             \/ \E r \in Reader, u \in Upload : StartRead(r, u)
             \/ \E r \in Reader : StatFile(r) \/ StreamFile(r)
             \/ \E f \in Path : OpenSpool(f) \/ UnlinkSpool(f)
             \/ DayPasses \/ UNCHANGED vars
      PROVE  UNCHANGED <<pc, rows>>
  BY <1>7 DEF OpenSpool, UnlinkSpool, StartPass, StartRead, StatFile, StreamFile, DayPasses, jobVars, rowVars, vars
<1>8. ASSUME Crash \/ \E r \in Reader : StreamBreaks(r)
      PROVE  HandlersDie
  BY <1>8 DEF Crash, StreamBreaks
<1>. QED
  BY <1>1, <1>2, <1>3, <1>4, <1>5, <1>6, <1>7, <1>8, QuietStep DEF Next

\* The pipeline implements DocumentCustody: an upload answered "stored" is a document the
\* practice can read from disk from then on, a refused one never is, and neither crashes,
\* passes nor reconciliation runs change that.
THEOREM CustodyKept == Spec => KeepsCustody
  BY CustodyInit, CustodyStep, Invariance, PTL DEF Spec, KeepsCustody, Custody!Spec
=============================================================================
