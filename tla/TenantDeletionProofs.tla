------------------------ MODULE TenantDeletionProofs ------------------------
(* For any lengths of time, and any number of crashes, purges and restores    *)
(* by hand: nothing of a practice goes before its date, and what was deleted   *)
(* stays closed.  And of the database in its directory, for any rows, openers   *)
(* and crashes: no opening loses a key or a document.  The parts share nothing. *)
EXTENDS TenantDeletion, OpenDatabase, FiniteSetTheorems, TLAPS

\* How far a deletion is, as a row of tenant_deletion tells it.
Known(t)  == t.state # "none"
Doomed(t) == t.state \in {"deleting", "deleted"}

NoFurther(t, u) == (Known(t) => Known(u)) /\ (Doomed(t) => Doomed(u))

\* What holds of one moment's registry and directory, the files copied first.
Sound(s) ==
    /\ Doomed(s.tomb) => s.tomb.due = 0
    /\ Known(s.tomb) => s.life # "active"
    /\ ~s.files => Doomed(s.tomb)

\* The newest ledger has the deletion.
LedgerKnows == \E s \in repo : s.latest /\ Known(s.tomb)

RegistryIsSound ==
    /\ Doomed(tomb) => tomb.due = 0
    /\ Known(tomb) => life # "active"

SnapshotsAreSound == \A s \in repo : Sound(s)

OneIsLatest ==
    /\ \A s, t \in repo : s.latest /\ t.latest => s = t
    /\ repo # {} => \E s \in repo : s.latest

\* No snapshot is ahead of the newest one, nor that one of the registry.
LedgersAreInOrder ==
    \A s \in repo :
        /\ NoFurther(s.tomb, tomb)
        /\ \A t \in repo : t.latest => NoFurther(s.tomb, t.tomb)

\* What a backup has copied so far, none of it older than today.
BackupIsSound ==
    /\ backup.at # "idle" /\ ~backup.files => Doomed(tomb)
    /\ backup.at \in {"listed", "sent"} =>
          /\ Sound(backup)
          /\ NoFurther(backup.tomb, tomb)
          /\ \A s \in repo : NoFurther(s.tomb, backup.tomb)
          /\ Known(tomb) /\ ~Known(backup.tomb) => tomb.due = Retention
    /\ backup.at = "sent" =>
          \E s \in repo : s.latest /\ s.age = 0 /\ s.tomb = backup.tomb

\* A purge runs on a deletion that is due, on record, and in the newest ledger.
PurgesAreDue ==
    \A p \in Purger :
        /\ purge[p] # "idle" => Known(tomb) /\ tomb.due = 0 /\ LedgerKnows
        /\ purge[p] \in {"marked", "found", "moved", "removed"} => Doomed(tomb)

\* A deletion the newest ledger does not have was asked for since its backup.
StatusIsFresh ==
    status =< MaxAge =>
        /\ repo # {}
        /\ Known(tomb) /\ ~LedgerKnows => tomb.due + status >= Retention

ErasedIsOnRecord == erased => Known(tomb) /\ LedgerKnows

\* The inductive invariant.
DeletionInv ==
    /\ TypeOK
    /\ KeptUntilDue
    /\ RegistryIsSound
    /\ SnapshotsAreSound
    /\ OneIsLatest
    /\ LedgersAreInOrder
    /\ BackupIsSound
    /\ PurgesAreDue
    /\ StatusIsFresh
    /\ ErasedIsOnRecord

-----------------------------------------------------------------------------
Copied   == [at: {"idle", "copied", "listed", "sent"}, files: BOOLEAN, life: Life, tomb: Tomb]
Snapshot == [age: 0..Keep + 1, latest: BOOLEAN, files: BOOLEAN, life: Life, tomb: Tomb]

LEMMA IdleIsCopied == Idle \in Copied /\ Idle.at = "idle"
  BY DaysAssumption DEF Idle, Copied, Life, Tomb, NoTomb

LEMMA InitDeletion == Init => DeletionInv
  <1> SUFFICES ASSUME Init PROVE DeletionInv
    OBVIOUS
  <1>1. NoTomb \in Tomb /\ Idle \in Copied
    BY DaysAssumption, IdleIsCopied DEF NoTomb, Tomb
  <1>4. purge \in [Purger -> {"idle", "checked", "marking", "marked", "found", "moved", "removed"}]
    BY DEF Init
  <1>5. status \in 0..NoStatus /\ faults \in 0..MaxFaults /\ hands \in 0..MaxHands
    BY DaysAssumption, BoundAssumption DEF Init, NoStatus
  <1>0. TypeOK
    BY <1>1, <1>4, <1>5 DEF Init, TypeOK, Life, Copied
  <1>2. KeptUntilDue /\ RegistryIsSound /\ SnapshotsAreSound /\ OneIsLatest /\ LedgersAreInOrder
    BY DEF Init, KeptUntilDue, RegistryIsSound, SnapshotsAreSound, OneIsLatest, LedgersAreInOrder,
           Known, Doomed, NoTomb
  <1>3. BackupIsSound /\ PurgesAreDue /\ StatusIsFresh /\ ErasedIsOnRecord
    BY DaysAssumption DEF Init, BackupIsSound, PurgesAreDue, StatusIsFresh, ErasedIsOnRecord, Idle,
           NoStatus, Purger
  <1> QED
    BY <1>0, <1>2, <1>3 DEF DeletionInv

\* A step of the registry that leaves the backups alone and takes no
\* deletion back.
LEMMA RegistryKeeps ==
  ASSUME DeletionInv, TypeOK', KeptUntilDue', RegistryIsSound', PurgesAreDue', ErasedIsOnRecord',
         UNCHANGED offsite, NoFurther(tomb, tomb'),
         Known(tomb') => (Known(tomb) /\ tomb'.due = tomb.due) \/ tomb'.due = Retention
  PROVE  DeletionInv'
  <1>1. LedgerKnows' = LedgerKnows /\ repo' = repo /\ backup' = backup /\ status' = status
    BY DEF offsite, LedgerKnows
  <1>2. SnapshotsAreSound' /\ OneIsLatest'
    BY <1>1 DEF DeletionInv, SnapshotsAreSound, OneIsLatest
  <1>3. LedgersAreInOrder'
    BY <1>1 DEF DeletionInv, LedgersAreInOrder, NoFurther
  <1>4. BackupIsSound'
    BY <1>1 DEF DeletionInv, BackupIsSound, NoFurther
  <1>5. StatusIsFresh'
    BY <1>1, DaysAssumption DEF DeletionInv, StatusIsFresh, TypeOK, NoStatus
  <1> QED
    BY <1>2, <1>3, <1>4, <1>5 DEF DeletionInv

LEMMA RequestKeeps ==
  ASSUME DeletionInv, Request
  PROVE  DeletionInv'
  <1> USE DEF DeletionInv
  <1>1. /\ life = "active" /\ life' = "requested" /\ tomb.state = "none"
        /\ tomb' = [state |-> "requested", due |-> Retention, hold |-> tomb.hold]
        /\ UNCHANGED <<bound, files, purge, offsite, lock, counts, erased>>
    BY DEF Request
  <1>2. TypeOK'
    BY <1>1, DaysAssumption DEF TypeOK, Life, Tomb, offsite, counts
  <1>3. files = "live" /\ ~erased /\ \A p \in Purger : purge[p] = "idle"
    BY <1>1 DEF KeptUntilDue, ErasedIsOnRecord, PurgesAreDue, Known
  <1>4. KeptUntilDue' /\ RegistryIsSound' /\ PurgesAreDue' /\ ErasedIsOnRecord'
    BY <1>1, <1>3 DEF KeptUntilDue, RegistryIsSound, PurgesAreDue, ErasedIsOnRecord, Known, Doomed
  <1> QED
    BY <1>1, <1>2, <1>4, RegistryKeeps DEF NoFurther, Known, Doomed

LEMMA SetHoldKeeps ==
  ASSUME DeletionInv, SetHold
  PROVE  DeletionInv'
  <1> USE DEF DeletionInv
  <1>1. /\ tomb' = [tomb EXCEPT !.hold = HoldFor]
        /\ UNCHANGED <<life, bound, files, purge, offsite, lock, counts, erased>>
    BY DEF SetHold
  <1>2. tomb' \in Tomb /\ tomb'.state = tomb.state /\ tomb'.due = tomb.due
    BY <1>1, DaysAssumption DEF TypeOK, Tomb
  <1>3. TypeOK'
    BY <1>1, <1>2 DEF TypeOK, offsite, counts
  <1>4. KeptUntilDue' /\ RegistryIsSound' /\ PurgesAreDue' /\ ErasedIsOnRecord'
    BY <1>1, <1>2 DEF KeptUntilDue, RegistryIsSound, PurgesAreDue, ErasedIsOnRecord, Known, Doomed,
                      LedgerKnows, offsite
  <1> QED
    BY <1>1, <1>2, <1>3, <1>4, RegistryKeeps DEF NoFurther, Known, Doomed

-----------------------------------------------------------------------------
(* The steps of a purge.                                                      *)
LEMMA BeginKeeps ==
  ASSUME DeletionInv, NEW p \in Purger, Begin(p)
  PROVE  DeletionInv'
  <1> USE DEF DeletionInv
  <1>1. /\ Due /\ status =< MaxAge /\ purge[p] = "idle"
        /\ purge' = [purge EXCEPT ![p] = "checked"]
        /\ lock' \in {lock, p} /\ hands' \in {hands, hands + 1} /\ hands' =< MaxHands
        /\ UNCHANGED <<life, tomb, bound, files, offsite, faults, erased>>
    BY BoundAssumption DEF Begin, At, registry, TypeOK
  <1>2. TypeOK'
    BY <1>1, BoundAssumption DEF TypeOK, offsite, Purger
  <1>3. Known(tomb) /\ tomb.due = 0
    BY <1>1 DEF Due, Known
  <1>4. LedgerKnows
    BY <1>1, <1>3, RetentionAssumption, DaysAssumption DEF StatusIsFresh, TypeOK, NoStatus
  <1>5. purge' \in [Purger -> {"idle", "checked", "marking", "marked", "found", "moved", "removed"}]
        /\ \A q \in Purger : purge'[q] = IF q = p THEN "checked" ELSE purge[q]
    BY <1>1, <1>2 DEF TypeOK
  <1>6. KeptUntilDue' /\ RegistryIsSound' /\ PurgesAreDue' /\ ErasedIsOnRecord'
    BY <1>1, <1>3, <1>4, <1>5 DEF KeptUntilDue, RegistryIsSound, PurgesAreDue, ErasedIsOnRecord, Known, Doomed,
                      LedgerKnows, offsite
  <1> QED
    BY <1>1, <1>2, <1>6, RegistryKeeps DEF NoFurther

\* A purge goes on, and nothing else changes but what is named.
LEMMA PurgeKeeps ==
  ASSUME DeletionInv, NEW p \in Purger, purge[p] # "idle",
         NEW to \in {"idle", "marking", "marked", "found", "moved", "removed"},
         purge' = [purge EXCEPT ![p] = to],
         tomb' \in Tomb, Known(tomb'), tomb'.due = tomb.due, NoFurther(tomb, tomb'),
         to \in {"idle", "marking"} \/ Doomed(tomb'),
         life' \in Life, life' # "active",
         files' \in {"live", "retired", "none"}, files' = files \/ Doomed(tomb'),
         erased' \in BOOLEAN, lock' \in Purger \cup {"free", "backup"},
         UNCHANGED <<bound, offsite, counts>>
  PROVE  DeletionInv'
  <1> USE DEF DeletionInv
  <1>1. purge' \in [Purger -> {"idle", "checked", "marking", "marked", "found", "moved", "removed"}]
        /\ \A q \in Purger : purge'[q] = IF q = p THEN to ELSE purge[q]
    BY DEF TypeOK
  <1>2. TypeOK'
    BY <1>1 DEF TypeOK, offsite, counts
  <1>3. Known(tomb) /\ tomb.due = 0 /\ LedgerKnows /\ LedgerKnows'
    BY DEF PurgesAreDue, LedgerKnows, offsite
  <1>4. KeptUntilDue' /\ RegistryIsSound'
    BY <1>3 DEF KeptUntilDue, RegistryIsSound, NoFurther, Doomed
  <1>5. PurgesAreDue' /\ ErasedIsOnRecord'
    BY <1>1, <1>3 DEF PurgesAreDue, ErasedIsOnRecord, NoFurther
  <1> QED
    BY <1>2, <1>3, <1>4, <1>5, RegistryKeeps

LEMMA StepsOfPurgeKeep ==
  ASSUME DeletionInv, NEW p \in Purger, Purge(p)
  PROVE  DeletionInv'
  <1> USE DEF DeletionInv
  <1>1. ASSUME purge[p] # "idle"
        PROVE  Known(tomb) /\ tomb.due = 0 /\ life # "active" /\ tomb \in Tomb /\ life \in Life
    BY <1>1 DEF PurgesAreDue, RegistryIsSound, TypeOK
  <1>2. \A st \in {"deleting", "deleted"} :
          tomb \in Tomb => /\ [tomb EXCEPT !.state = st] \in Tomb
                          /\ [tomb EXCEPT !.state = st].state = st
                          /\ [tomb EXCEPT !.state = st].due = tomb.due
    BY DEF Tomb
  <1>3. files \in {"live", "retired", "none"} /\ erased \in BOOLEAN /\ lock \in Purger \cup {"free", "backup"}
    BY DEF TypeOK
  <1>4. CASE Begin(p)
    BY <1>4, BeginKeeps
  <1>5. CASE MarkTenant(p)
    <2>1. /\ purge[p] = "checked" /\ purge' = [purge EXCEPT ![p] = "marking"]
          /\ life' \in {"none", "deleting"}
          /\ UNCHANGED <<tomb, bound, files, offsite, lock, counts, erased>>
      BY <1>5 DEF MarkTenant, At
    <2> QED
      BY <1>1, <1>3, <2>1, PurgeKeeps DEF NoFurther, Life
  <1>6. CASE MarkTomb(p)
    <2>1. /\ purge[p] = "marking" /\ purge' = [purge EXCEPT ![p] = "marked"]
          /\ tomb' = [tomb EXCEPT !.state = "deleting"]
          /\ UNCHANGED <<life, bound, files, offsite, lock, counts, erased>>
      BY <1>6 DEF MarkTomb, At
    <2>2. tomb' \in Tomb /\ tomb'.state = "deleting" /\ tomb'.due = tomb.due
      BY <1>1, <1>2, <2>1
    <2> QED
      BY <1>1, <1>3, <2>1, <2>2, PurgeKeeps DEF NoFurther, Known, Doomed
  <1>7. CASE Look(p) \/ Move(p) \/ RemoveTree(p)
    <2>1. PICK to \in {"found", "moved", "removed"} :
          /\ purge[p] \in {"marked", "found", "moved"} /\ purge' = [purge EXCEPT ![p] = to]
          /\ files' \in {files, "retired", "none"}
          /\ UNCHANGED <<life, tomb, bound, offsite, lock, counts, erased>>
      BY <1>7 DEF Look, Move, RemoveTree, At, registry
    <2>2. Doomed(tomb)
      BY <2>1 DEF PurgesAreDue
    <2> QED
      BY <1>1, <1>3, <2>1, <2>2, PurgeKeeps DEF NoFurther
  <1>8. CASE Finish(p)
    <2>1. /\ purge[p] = "removed" /\ purge' = [purge EXCEPT ![p] = "idle"]
          /\ tomb' = [tomb EXCEPT !.state = "deleted"] /\ life' = "none" /\ erased' = TRUE
          /\ lock' \in {lock, "free"}
          /\ UNCHANGED <<bound, files, offsite, counts>>
      BY <1>8 DEF Finish, At, Release
    <2>2. tomb' \in Tomb /\ tomb'.state = "deleted" /\ tomb'.due = tomb.due
      BY <1>1, <1>2, <2>1
    <2> QED
      BY <1>1, <1>3, <2>1, <2>2, PurgeKeeps DEF NoFurther, Known, Doomed, Life
  <1>9. CASE Refused(p)
    <2>1. /\ purge[p] \in {"removed", "found", "moved"} /\ purge' = [purge EXCEPT ![p] = "idle"]
          /\ lock' \in {lock, "free"}
          /\ UNCHANGED <<life, tomb, bound, files, offsite, counts, erased>>
      BY <1>9 DEF Refused, At, Release, registry
    <2> QED
      BY <1>1, <1>3, <2>1, PurgeKeeps DEF NoFurther
  <1> QED
    BY <1>4, <1>5, <1>6, <1>7, <1>8, <1>9 DEF Purge

-----------------------------------------------------------------------------
(* The steps of a backup, which leave the registry and the purges alone.      *)
LEMMA CopyFilesKeeps ==
  ASSUME DeletionInv, CopyFiles
  PROVE  DeletionInv'
  <1> USE DEF DeletionInv
  <1>1. /\ backup' = [Idle EXCEPT !.at = "copied", !.files = (files = "live")]
        /\ lock' = "backup"
        /\ UNCHANGED <<life, tomb, bound, files, purge, repo, status, counts, erased>>
    BY DEF CopyFiles, registry
  <1>2. /\ backup'.at = "copied" /\ backup'.files = (files = "live")
        /\ backup' \in Copied
    <2> DEFINE started == [Idle EXCEPT !.at = "copied"]
    <2>1. started \in Copied /\ started.at = "copied"
      BY IdleIsCopied DEF Copied
    <2> HIDE DEF started
    <2>2. backup' = [started EXCEPT !.files = (files = "live")]
      BY <1>1 DEF Idle, started
    <2> QED
      BY <2>1, <2>2 DEF Copied
  <1>3. TypeOK'
    BY <1>1, <1>2 DEF TypeOK, counts, Copied
  <1>4. KeptUntilDue' /\ RegistryIsSound' /\ SnapshotsAreSound' /\ OneIsLatest' /\ LedgersAreInOrder'
    BY <1>1 DEF KeptUntilDue, RegistryIsSound, SnapshotsAreSound, OneIsLatest, LedgersAreInOrder
  <1>5. BackupIsSound'
    BY <1>1, <1>2 DEF BackupIsSound, KeptUntilDue, Doomed
  <1>6. PurgesAreDue' /\ StatusIsFresh' /\ ErasedIsOnRecord'
    BY <1>1 DEF PurgesAreDue, StatusIsFresh, ErasedIsOnRecord, LedgerKnows
  <1> QED
    BY <1>3, <1>4, <1>5, <1>6

LEMMA CopyRegistryKeeps ==
  ASSUME DeletionInv, CopyRegistry
  PROVE  DeletionInv'
  <1> USE DEF DeletionInv
  <1>1. /\ backup.at = "copied"
        /\ backup' = [backup EXCEPT !.at = "listed", !.life = life, !.tomb = tomb]
        /\ UNCHANGED <<life, tomb, bound, files, purge, repo, status, lock, counts, erased>>
    BY DEF CopyRegistry, registry
  <1>2. /\ backup'.at = "listed" /\ backup'.files = backup.files
        /\ backup'.life = life /\ backup'.tomb = tomb
        /\ backup' \in Copied
    BY <1>1 DEF TypeOK, Copied
  <1>3. TypeOK'
    BY <1>1, <1>2 DEF TypeOK, counts, Copied
  <1>4. KeptUntilDue' /\ RegistryIsSound' /\ SnapshotsAreSound' /\ OneIsLatest' /\ LedgersAreInOrder'
    BY <1>1 DEF KeptUntilDue, RegistryIsSound, SnapshotsAreSound, OneIsLatest, LedgersAreInOrder
  <1>5. Sound(backup') /\ \A s \in repo : NoFurther(s.tomb, tomb)
    BY <1>1, <1>2 DEF Sound, RegistryIsSound, BackupIsSound, LedgersAreInOrder
  <1>6. BackupIsSound'
    BY <1>1, <1>2, <1>5 DEF BackupIsSound, NoFurther, Sound
  <1>7. PurgesAreDue' /\ StatusIsFresh' /\ ErasedIsOnRecord'
    BY <1>1 DEF PurgesAreDue, StatusIsFresh, ErasedIsOnRecord, LedgerKnows
  <1> QED
    BY <1>3, <1>4, <1>6, <1>7

LEMMA SendKeeps ==
  ASSUME DeletionInv, Send
  PROVE  DeletionInv'
  <1> USE DEF DeletionInv
  <1> DEFINE new == [age |-> 0, latest |-> TRUE, files |-> backup.files,
                     life |-> backup.life, tomb |-> backup.tomb]
             old(s) == [s EXCEPT !.latest = FALSE]
  <1>1. /\ backup.at = "listed" /\ backup' = [backup EXCEPT !.at = "sent"]
        /\ repo' = {old(s) : s \in repo} \cup {new}
        /\ UNCHANGED <<life, tomb, bound, files, purge, status, lock, counts, erased>>
    BY DEF Send, registry
  <1>2. /\ backup'.at = "sent" /\ backup'.files = backup.files
        /\ backup'.life = backup.life /\ backup'.tomb = backup.tomb
        /\ backup' \in Copied
    BY <1>1 DEF TypeOK, Copied
  <1>3. \A s \in repo : /\ ~old(s).latest /\ old(s).tomb = s.tomb /\ old(s).files = s.files /\ old(s).life = s.life
                        /\ old(s) \in Snapshot
    <2> SUFFICES ASSUME NEW s \in Snapshot
                 PROVE  /\ ~old(s).latest /\ old(s).tomb = s.tomb /\ old(s).files = s.files /\ old(s).life = s.life
                        /\ old(s) \in Snapshot
      BY DEF TypeOK, Snapshot
    <2> QED
      BY DEF Snapshot
  <1>4. /\ new.latest /\ new.age = 0 /\ new.tomb = backup.tomb
        /\ new.files = backup.files /\ new.life = backup.life
        /\ new \in Snapshot
    BY DaysAssumption DEF TypeOK, Snapshot
  <1> HIDE DEF new, old
  <1>5. TypeOK'
    BY <1>1, <1>2, <1>3, <1>4 DEF TypeOK, counts, Snapshot, Copied
  <1>6. /\ Sound(backup) /\ NoFurther(backup.tomb, tomb)
        /\ \A s \in repo : NoFurther(s.tomb, backup.tomb)
    BY <1>1 DEF BackupIsSound
  <1>7. LedgerKnows => LedgerKnows'
    BY <1>1, <1>4, <1>6 DEF LedgerKnows, NoFurther
  <1>8. KeptUntilDue' /\ RegistryIsSound'
    BY <1>1 DEF KeptUntilDue, RegistryIsSound
  <1>9. SnapshotsAreSound'
    BY <1>1, <1>3, <1>4, <1>6 DEF SnapshotsAreSound, Sound
  <1>10. OneIsLatest'
    BY <1>1, <1>3, <1>4 DEF OneIsLatest
  <1>11. LedgersAreInOrder'
    BY <1>1, <1>3, <1>4, <1>6 DEF LedgersAreInOrder, NoFurther
  <1>12. BackupIsSound'
    <2>1. new \in repo'
      BY <1>1
    <2>2. \A s \in repo' : NoFurther(s.tomb, backup.tomb)
      BY <1>1, <1>3, <1>4, <1>6 DEF NoFurther
    <2>3. Sound(backup')
      BY <1>2, <1>6 DEF Sound
    <2> QED
      BY <1>1, <1>2, <1>4, <1>6, <2>1, <2>2, <2>3 DEF BackupIsSound
  <1>13. PurgesAreDue' /\ ErasedIsOnRecord'
    BY <1>1, <1>7 DEF PurgesAreDue, ErasedIsOnRecord
  <1>14. StatusIsFresh'
    BY <1>1, <1>7 DEF StatusIsFresh
  <1> QED
    BY <1>5, <1>8, <1>9, <1>10, <1>11, <1>12, <1>13, <1>14

LEMMA SucceedKeeps ==
  ASSUME DeletionInv, Succeed
  PROVE  DeletionInv'
  <1> USE DEF DeletionInv
  <1>1. /\ backup.at = "sent" /\ backup' = Idle /\ status' = 0 /\ lock' = "free"
        /\ repo' = {s \in repo : Kept(s)}
        /\ UNCHANGED <<life, tomb, bound, files, purge, counts, erased>>
    BY DEF Succeed, registry
  <1>2. backup'.at = "idle"
        /\ backup' \in Copied
    BY <1>1, IdleIsCopied DEF Copied
  <1>3. TypeOK'
    BY <1>1, <1>2, DaysAssumption DEF TypeOK, counts, NoStatus, Copied
  <1>4. PICK n \in repo : n.latest /\ n.age = 0 /\ n.tomb = backup.tomb
    BY <1>1 DEF BackupIsSound
  <1>5. n \in repo' /\ repo' \subseteq repo
    BY <1>1, <1>4, DaysAssumption DEF Kept
  <1>6. KeptUntilDue' /\ RegistryIsSound' /\ SnapshotsAreSound' /\ OneIsLatest' /\ LedgersAreInOrder' /\ BackupIsSound'
    BY <1>1, <1>2, <1>4, <1>5
    DEF KeptUntilDue, RegistryIsSound, SnapshotsAreSound, OneIsLatest, LedgersAreInOrder, BackupIsSound
  <1>7. LedgerKnows => LedgerKnows'
    BY <1>4, <1>5 DEF LedgerKnows, OneIsLatest
  <1>8. PurgesAreDue' /\ ErasedIsOnRecord'
    BY <1>1, <1>7 DEF PurgesAreDue, ErasedIsOnRecord
  <1>9. Known(tomb) /\ ~Known(n.tomb) => tomb.due = Retention
    BY <1>1, <1>4 DEF BackupIsSound
  <1>10. StatusIsFresh'
    BY <1>1, <1>4, <1>5, <1>9, DaysAssumption DEF StatusIsFresh, LedgerKnows
  <1> QED
    BY <1>3, <1>6, <1>8, <1>10

\* A backup that is not under way promises nothing.
LEMMA NoBackupKeeps ==
  ASSUME DeletionInv, backup' = Idle, UNCHANGED <<tomb, repo>>
  PROVE  /\ BackupIsSound' /\ SnapshotsAreSound' /\ OneIsLatest' /\ LedgersAreInOrder'
         /\ LedgerKnows' = LedgerKnows
  BY IdleIsCopied DEF DeletionInv, BackupIsSound, SnapshotsAreSound, OneIsLatest, LedgersAreInOrder,
                      LedgerKnows

LEMMA FailKeeps ==
  ASSUME DeletionInv, Fail
  PROVE  DeletionInv'
  <1> USE DEF DeletionInv
  <1>1. /\ backup' = Idle /\ status' = NoStatus /\ lock' = "free"
        /\ faults' = faults + 1 /\ faults < MaxFaults
        /\ UNCHANGED <<life, tomb, bound, files, purge, repo, hands, erased>>
    BY DEF Fail, registry
  <1>2. TypeOK'
    BY <1>1, IdleIsCopied, DaysAssumption, BoundAssumption DEF TypeOK, NoStatus, Copied
  <1>3. KeptUntilDue' /\ RegistryIsSound' /\ StatusIsFresh'
    BY <1>1, DaysAssumption DEF KeptUntilDue, RegistryIsSound, StatusIsFresh, NoStatus
  <1>4. PurgesAreDue' /\ ErasedIsOnRecord'
    BY <1>1, NoBackupKeeps DEF PurgesAreDue, ErasedIsOnRecord
  <1> QED
    BY <1>1, <1>2, <1>3, <1>4, NoBackupKeeps

-----------------------------------------------------------------------------
LEMMA CrashKeeps ==
  ASSUME DeletionInv, Crash
  PROVE  DeletionInv'
  <1> USE DEF DeletionInv
  <1>1. /\ backup' = Idle /\ purge' = [p \in Purger |-> "idle"]
        /\ faults' = faults + 1 /\ faults < MaxFaults
        /\ UNCHANGED <<life, tomb, bound, files, repo, status, lock, hands, erased>>
    BY DEF Crash, registry
  <1>2. TypeOK'
    BY <1>1, IdleIsCopied, BoundAssumption DEF TypeOK, Copied
  <1>3. KeptUntilDue' /\ RegistryIsSound' /\ StatusIsFresh' /\ PurgesAreDue' /\ ErasedIsOnRecord'
    BY <1>1, NoBackupKeeps DEF KeptUntilDue, RegistryIsSound, StatusIsFresh, PurgesAreDue, ErasedIsOnRecord
  <1> QED
    BY <1>1, <1>2, <1>3, NoBackupKeeps

LEMMA TickKeeps ==
  ASSUME DeletionInv, Tick
  PROVE  DeletionInv'
  <1> USE DEF DeletionInv
  <1>1. /\ backup.at = "idle" /\ tomb' = Sooner(tomb) /\ repo' = {Aged(s) : s \in repo}
        /\ status' = IF status > MaxAge THEN status ELSE status + 1
        /\ UNCHANGED <<life, bound, files, purge, backup, lock, counts, erased>>
    BY DEF Tick
  <1>2. ASSUME NEW t \in Tomb
        PROVE  /\ Sooner(t) \in Tomb /\ Sooner(t).state = t.state
               /\ Sooner(t).due = IF t.due = 0 THEN 0 ELSE t.due - 1
    <2> DEFINE one == [t EXCEPT !.due = Less(@)]
    <2>1. one \in Tomb /\ one.state = t.state /\ one.due = Less(t.due) /\ one.hold = t.hold
      BY DaysAssumption DEF Tomb, Less
    <2>2. Sooner(t) = [one EXCEPT !.hold = Less(@)]
      BY <2>1 DEF Sooner, Tomb
    <2> HIDE DEF one
    <2>3. Less(one.hold) \in 0..HoldFor
      BY <2>1, DaysAssumption DEF Tomb, Less
    <2> QED
      BY <2>1, <2>2, <2>3 DEF Tomb, Less
  <1>3. ASSUME NEW s \in Snapshot
        PROVE  /\ Aged(s) \in Snapshot /\ Aged(s).latest = s.latest /\ Aged(s).files = s.files
               /\ Aged(s).life = s.life /\ Aged(s).tomb = Sooner(s.tomb)
    <2> DEFINE one == [s EXCEPT !.age = IF @ > Keep THEN @ ELSE @ + 1]
    <2>1. one \in Snapshot /\ one.latest = s.latest /\ one.files = s.files /\ one.life = s.life
          /\ one.tomb = s.tomb
      BY DaysAssumption DEF Snapshot
    <2>2. Aged(s) = [one EXCEPT !.tomb = Sooner(@)]
      BY DEF Snapshot, Aged
    <2> HIDE DEF one
    <2>3. Sooner(one.tomb) \in Tomb
      BY <1>2, <2>1 DEF Snapshot
    <2> QED
      BY <2>1, <2>2, <2>3 DEF Snapshot
  <1>4. tomb \in Tomb /\ repo \subseteq Snapshot /\ \A s \in repo : s.tomb \in Tomb
    BY DEF TypeOK, Snapshot
  <1>5. /\ (Known(tomb') <=> Known(tomb)) /\ (Doomed(tomb') <=> Doomed(tomb))
        /\ tomb'.due = IF tomb.due = 0 THEN 0 ELSE tomb.due - 1
    BY <1>1, <1>2, <1>4 DEF Known, Doomed
  <1>6. \A s \in repo : /\ (Known(Aged(s).tomb) <=> Known(s.tomb)) /\ (Doomed(Aged(s).tomb) <=> Doomed(s.tomb))
                        /\ Aged(s).tomb.due = IF s.tomb.due = 0 THEN 0 ELSE s.tomb.due - 1
                        /\ (Aged(s).latest <=> s.latest) /\ (Aged(s).files <=> s.files) /\ Aged(s).life = s.life
    BY <1>2, <1>3, <1>4 DEF Known, Doomed
  <1>7. status' \in 0..NoStatus
    BY <1>1, DaysAssumption DEF TypeOK, NoStatus
  <1>8. TypeOK'
    BY <1>1, <1>2, <1>3, <1>4, <1>7 DEF TypeOK, Snapshot, counts
  <1>9. LedgerKnows' <=> LedgerKnows
    BY <1>1, <1>6 DEF LedgerKnows
  <1>10. KeptUntilDue' /\ RegistryIsSound'
    BY <1>1, <1>2, <1>4, <1>5 DEF KeptUntilDue, RegistryIsSound, Doomed
  <1>11. SnapshotsAreSound'
    BY <1>1, <1>6 DEF SnapshotsAreSound, Sound
  <1>12. OneIsLatest' /\ LedgersAreInOrder'
    BY <1>1, <1>5, <1>6 DEF OneIsLatest, LedgersAreInOrder, NoFurther
  <1>13. BackupIsSound'
    BY <1>1 DEF BackupIsSound
  <1>14. PurgesAreDue' /\ ErasedIsOnRecord'
    BY <1>1, <1>5, <1>9 DEF PurgesAreDue, ErasedIsOnRecord
  <1>15. StatusIsFresh'
    <2> SUFFICES ASSUME status' =< MaxAge
                 PROVE  /\ repo' # {}
                        /\ Known(tomb') /\ ~LedgerKnows' => tomb'.due + status' >= Retention
      BY DEF StatusIsFresh
    <2>1. status =< MaxAge /\ status' = status + 1 /\ status \in Nat /\ tomb.due \in Nat
      BY <1>1, DaysAssumption DEF TypeOK, NoStatus, Tomb
    <2>2. repo' # {}
      BY <1>1, <2>1 DEF StatusIsFresh
    <2>3. ASSUME Known(tomb), ~LedgerKnows PROVE tomb'.due + status' >= Retention
      <3>1. tomb.due + status >= Retention
        BY <2>1, <2>3 DEF StatusIsFresh
      <3> QED
        BY <1>5, <2>1, <3>1, DaysAssumption, RetentionAssumption
    <2> QED
      BY <1>5, <1>9, <2>2, <2>3
  <1> QED
    BY <1>8, <1>10, <1>11, <1>12, <1>13, <1>14, <1>15

\* What a restore makes of a snapshot is no less than the newest ledger has.
LEMMA ReplayedIsSound ==
  ASSUME DeletionInv, NEW s \in repo
  PROVE  /\ Sound(Replayed(s))
         /\ Replayed(s).tomb \in Tomb /\ Replayed(s).life \in Life /\ Replayed(s).files \in BOOLEAN
         /\ \A t \in repo : NoFurther(t.tomb, Replayed(s).tomb)
  <1> USE DEF DeletionInv
  <1> DEFINE n == Latest
             r == Replayed(s)
  <1>1. n \in repo /\ n.latest
    BY DEF OneIsLatest, Latest
  <1>2. /\ \A t \in repo : NoFurther(t.tomb, n.tomb)
        /\ Sound(s) /\ Sound(n)
    BY <1>1 DEF LedgersAreInOrder, SnapshotsAreSound
  <1>3. s \in Snapshot /\ n \in Snapshot
    BY <1>1 DEF TypeOK, Snapshot
  <1>4. /\ n.tomb \in Tomb /\ s.tomb \in Tomb /\ s.life \in Life /\ s.files \in BOOLEAN
        /\ n.tomb.state \in {"none", "requested", "deleting", "deleted"}
        /\ {"none", "requested", "deleting"} \subseteq Life
    BY <1>3 DEF Snapshot, Tomb, Life
  <1>5. SUFFICES /\ Sound(r) /\ r.tomb \in Tomb /\ r.life \in Life /\ r.files \in BOOLEAN
                 /\ NoFurther(n.tomb, r.tomb)
    BY <1>2 DEF NoFurther
  <1>6. CASE n.tomb.state = "none"
    <2>1. r.life = s.life /\ r.tomb = s.tomb /\ r.files = s.files
      BY <1>6 DEF Replayed
    <2> QED
      BY <1>2, <1>4, <1>6, <2>1 DEF Sound, NoFurther, Known, Doomed
  <1>7. CASE n.tomb.state = "requested"
    <2>1. r.life \in {"none", "requested"} /\ r.tomb = n.tomb /\ r.files = s.files
      BY <1>7 DEF Replayed
    <2>2. ~Doomed(n.tomb) /\ s.files
      BY <1>2, <1>7 DEF Sound, NoFurther, Doomed
    <2> HIDE DEF n, r
    <2> QED
      BY <1>4, <2>1, <2>2 DEF Sound, NoFurther
  <1>8. CASE n.tomb.state \in {"deleting", "deleted"}
    <2>1. ASSUME NEW st \in {"deleting", "deleted"}
          PROVE  /\ [n.tomb EXCEPT !.state = st] \in Tomb
                 /\ [n.tomb EXCEPT !.state = st].state = st
                 /\ [n.tomb EXCEPT !.state = st].due = 0
      BY <1>2, <1>4, <1>8 DEF Tomb, Sound, Doomed
    <2>2. PICK st \in {"deleting", "deleted"} :
            r.tomb = [n.tomb EXCEPT !.state = st] /\ r.life \in {"none", "deleting"} /\ r.files \in {s.files, FALSE}
      BY <1>8 DEF Replayed
    <2>3. r.tomb \in Tomb /\ r.tomb.state = st /\ r.tomb.due = 0
      BY <2>1, <2>2
    <2>4. Known(r.tomb) /\ Doomed(r.tomb)
      BY <2>3 DEF Known, Doomed
    <2> HIDE DEF n, r
    <2> QED
      BY <1>4, <2>2, <2>3, <2>4 DEF Sound, NoFurther
  <1> QED
    BY <1>4, <1>6, <1>7, <1>8

LEMMA RestoreKeeps ==
  ASSUME DeletionInv, Restore
  PROVE  DeletionInv'
  <1> USE DEF DeletionInv
  <1>1. PICK s \in repo : /\ life' = Replayed(s).life /\ tomb' = Replayed(s).tomb
                         /\ files' = IF Replayed(s).files THEN "live" ELSE "none"
    BY DEF Restore
  <1>2. /\ hands' = hands + 1 /\ hands < MaxHands
        /\ bound' \in BOOLEAN /\ purge' = [p \in Purger |-> "idle"]
        /\ backup' = Idle /\ status' = NoStatus /\ lock' = "free"
        /\ UNCHANGED <<repo, faults, erased>>
    BY DEF Restore
  <1>3. /\ Sound(Replayed(s)) /\ tomb' \in Tomb /\ life' \in Life
        /\ \A t \in repo : NoFurther(t.tomb, tomb')
    BY <1>1, ReplayedIsSound
  <1>4. TypeOK'
    BY <1>1, <1>2, <1>3, IdleIsCopied, DaysAssumption, BoundAssumption DEF TypeOK, NoStatus, Copied
  <1>5. KeptUntilDue' /\ RegistryIsSound'
    BY <1>1, <1>3 DEF KeptUntilDue, RegistryIsSound, Sound, Doomed
  <1>6. SnapshotsAreSound' /\ OneIsLatest' /\ LedgersAreInOrder'
    BY <1>2, <1>3 DEF SnapshotsAreSound, OneIsLatest, LedgersAreInOrder
  <1>7. BackupIsSound' /\ PurgesAreDue' /\ StatusIsFresh'
    BY <1>2, IdleIsCopied, DaysAssumption DEF BackupIsSound, PurgesAreDue, StatusIsFresh, NoStatus
  <1>8. ErasedIsOnRecord'
    BY <1>2, <1>3 DEF ErasedIsOnRecord, LedgerKnows, NoFurther
  <1> QED
    BY <1>4, <1>5, <1>6, <1>7, <1>8

\* An account is bound or freed, a lock is cleared, or nothing happens.
LEMMA AsideKeeps ==
  ASSUME DeletionInv, Bind \/ ClearLock \/ UNCHANGED vars
  PROVE  DeletionInv'
  <1> USE DEF DeletionInv
  <1>1. /\ bound' \in BOOLEAN /\ lock' \in Purger \cup {"free", "backup"}
        /\ UNCHANGED <<life, tomb, files, purge, offsite, counts, erased>>
    BY DEF Bind, ClearLock, vars, registry, TypeOK
  <1>2. TypeOK' /\ LedgerKnows' = LedgerKnows
    BY <1>1 DEF TypeOK, offsite, counts, LedgerKnows
  <1>3. KeptUntilDue' /\ RegistryIsSound' /\ PurgesAreDue' /\ ErasedIsOnRecord'
    BY <1>1, <1>2 DEF KeptUntilDue, RegistryIsSound, PurgesAreDue, ErasedIsOnRecord
  <1> QED
    BY <1>1, <1>2, <1>3, RegistryKeeps DEF NoFurther

-----------------------------------------------------------------------------
\* The inductive invariant holds: the order of the ledgers, what a backup has
\* copied, and that a purge under way is known to the newest ledger.
THEOREM DeletionInvariant == Spec => []DeletionInv
  <1>1. Init => DeletionInv
    BY InitDeletion
  <1>2. DeletionInv /\ [Next]_vars => DeletionInv'
    <2> SUFFICES ASSUME DeletionInv, [Next]_vars PROVE DeletionInv'
      OBVIOUS
    <2>1. CASE Request \/ SetHold
      BY <2>1, RequestKeeps, SetHoldKeeps
    <2>2. CASE \E p \in Purger : Purge(p)
      BY <2>2, StepsOfPurgeKeep
    <2>3. CASE Backup \/ Fail
      BY <2>3, CopyFilesKeeps, CopyRegistryKeeps, SendKeeps, SucceedKeeps, FailKeeps DEF Backup
    <2>4. CASE Crash \/ Restore \/ Tick
      BY <2>4, CrashKeeps, RestoreKeeps, TickKeeps
    <2>5. CASE Bind \/ ClearLock \/ UNCHANGED vars
      BY <2>5, AsideKeeps
    <2> QED
      BY <2>1, <2>2, <2>3, <2>4, <2>5 DEF Next
  <1> QED
    BY <1>1, <1>2, PTL DEF Spec

\* Whatever stops in between and whatever is restored, no file of a practice is
\* moved or removed before the deletion is on record and its date has come.
THEOREM FilesAreKeptUntilDue == Spec => []KeptUntilDue
  <1>1. DeletionInv => KeptUntilDue
    BY DEF DeletionInv
  <1> QED
    BY <1>1, DeletionInvariant, PTL

\* A practice whose deletion was completed is not open again, whichever snapshot
\* is restored: it takes that the retention is longer than a backup may be old.
THEOREM DeletedStaysClosed == Spec => []ErasedStaysErased
  <1>1. DeletionInv => ErasedStaysErased
    BY DEF DeletionInv, ErasedIsOnRecord, RegistryIsSound, ErasedStaysErased
  <1> QED
    BY <1>1, DeletionInvariant, PTL

-----------------------------------------------------------------------------
(* Openings of a database of an older release: OpenDatabase.                   *)

Carriers == {k.by : k \in keys}

\* The steps after the rebuild of `upload`.
PastRebuild == {"session", "wrappings", "wrapping", "sweep", "open"}

OpeningShape ==
  /\ opening = [o \in Opener |-> opening[o]]
  /\ \A o \in Opener : DOMAIN opening[o] = {"at", "read"}
  /\ \A k \in keys : DOMAIN k = {"n", "by", "practice"}
  /\ uploads = [u \in Upload |-> uploads[u]]

\* A key that was read and is no longer in hand has a row, while its column is there.
KeysInHand ==
  "one key each" \in columns =>
     \A o \in Opener : opening[o].at = "carrying keys" => keyColumn \ opening[o].read \subseteq Carriers

OneAtATime == together \/ \A o, q \in Busy : o = q

\* Nobody serves, and so nothing arrives, before `upload` is rebuilt.
ServesRebuilt == \A o \in Opener : opening[o].at \in PastRebuild => "uploads by item" \notin columns

CountHolds ==
  together \/ \A o \in Opener :
     opening[o].at = "rebuilding" => "uploads by item" \in columns /\ opening[o].read = Rows

OpeningInv == OpeningShape /\ KeysInHand /\ OneAtATime /\ ServesRebuilt /\ CountHolds

\* One opener goes on: it may write keys, and drop the columns they came from.
LEMMA OpenerWrites ==
  ASSUME OpeningInv, NEW o \in Opener, NEW at, NEW read,
         opening' = [opening EXCEPT ![o] = [at |-> at, read |-> read]],
         UNCHANGED uploads,
         \A k \in keys' : DOMAIN k = {"n", "by", "practice"}, Carriers \subseteq Carriers',
         "one key each" \in columns' => "one key each" \in columns /\ keyColumn' = keyColumn,
         "uploads by item" \in columns' <=> "uploads by item" \in columns,
         together => together',
         together' \/ Busy = {} \/ opening[o].at \notin {"closed", "open"} \/ at \in {"closed", "open"},
         "one key each" \in columns' /\ at = "carrying keys" => keyColumn \ read \subseteq Carriers',
         at \in PastRebuild => "uploads by item" \notin columns,
         at = "rebuilding" => "uploads by item" \in columns /\ read = Rows
  PROVE  OpeningInv'
<1>1. /\ opening'[o].at = at /\ opening'[o].read = read
      /\ \A q \in Opener : q # o => opening'[q] = opening[q]
  BY DEF OpeningInv, OpeningShape
<1>2. OpeningShape'
  <2>1. opening' = [q \in Opener |-> IF q = o THEN [at |-> at, read |-> read] ELSE opening[q]]
    BY DEF OpeningInv, OpeningShape
  <2>2. DOMAIN [at |-> at, read |-> read] = {"at", "read"}  OBVIOUS
  <2>3. \A q \in Opener : DOMAIN opening'[q] = {"at", "read"}
    BY <2>1, <2>2 DEF OpeningInv, OpeningShape
  <2>4. opening' = [q \in Opener |-> opening'[q]]  BY <2>1
  <2> QED  BY <2>3, <2>4 DEF OpeningInv, OpeningShape
<1>3. Rows' = Rows  BY DEF Rows
<1>4. KeysInHand'  BY <1>1 DEF OpeningInv, KeysInHand
<1>5. OneAtATime'
  <2> SUFFICES ASSUME ~together', NEW p \in Busy', NEW q \in Busy' PROVE p = q
    BY DEF OneAtATime
  <2>1. \A x \in Busy' : x = o \/ x \in Busy  BY <1>1 DEF Busy
  <2>2. \A x, y \in Busy : x = y  BY DEF OpeningInv, OneAtATime
  <2>3. CASE o \in Busy  BY <2>1, <2>2, <2>3
  <2>4. CASE o \notin Busy
    <3>1. Busy = {} \/ o \notin Busy'  BY <1>1, <2>4 DEF Busy
    <3> QED  BY <2>1, <2>2, <3>1
  <2> QED  BY <2>3, <2>4
<1>6. ServesRebuilt'  BY <1>1 DEF OpeningInv, ServesRebuilt
<1>7. CountHolds'  BY <1>1, <1>3 DEF OpeningInv, CountHolds
<1> QED  BY <1>2, <1>4, <1>5, <1>6, <1>7 DEF OpeningInv

\* One opener goes on, and writes none of these rows.
LEMMA OpenerGoesOn ==
  ASSUME OpeningInv, NEW o \in Opener, NEW at, NEW read,
         opening' = [opening EXCEPT ![o] = [at |-> at, read |-> read]],
         UNCHANGED <<keyColumn, keys, uploads>>,
         "one key each" \in columns' => "one key each" \in columns,
         "uploads by item" \in columns' <=> "uploads by item" \in columns,
         together => together',
         together' \/ Busy = {} \/ opening[o].at \notin {"closed", "open"} \/ at \in {"closed", "open"},
         at = "carrying keys" => read = keyColumn,
         at \in PastRebuild => "uploads by item" \notin columns,
         at = "rebuilding" => "uploads by item" \in columns /\ read = Rows
  PROVE  OpeningInv'
<1>1. Carriers' = Carriers  BY DEF Carriers
<1>2. \A k \in keys' : DOMAIN k = {"n", "by", "practice"}  BY DEF OpeningInv, OpeningShape
<1> QED  BY <1>1, <1>2, OpenerWrites

\* The steps that change no row that matters here.
LEMMA QuietStepsKeep ==
  ASSUME OpeningInv, NEW o \in Opener,
         \/ ExecSchema(o) \/ ReadKeyColumns(o) \/ DropFails(o) \/ AddColumns(o)
         \/ ReadOrphans(o) \/ RebuildInvites(o) \/ CountUploads(o) \/ DropSessionColumn(o)
         \/ ReadUnwrapped(o) \/ WrapForMakers(o) \/ Sweep(o) \/ Ends(o)
  PROVE  OpeningInv'
<1>0. opening[o].at \in PastRebuild => "uploads by item" \notin columns
  BY DEF OpeningInv, ServesRebuilt
<1>1. CASE ExecSchema(o)
  BY <1>1, OpenerGoesOn DEF Step, ExecSchema, rowVars, PastRebuild
<1>2. CASE ReadKeyColumns(o)
  <2>1. UNCHANGED <<columns, keyColumn, keys, uploads, together>>  BY <1>2 DEF ReadKeyColumns, rowVars
  <2>2. CASE "one key each" \in columns
    <3>1. /\ opening[o].at = "keys"
          /\ opening' = [opening EXCEPT ![o] = [at |-> "carrying keys", read |-> keyColumn]]
      BY <1>2, <2>2 DEF Reads, ReadKeyColumns
    <3> QED  BY <2>1, <2>2, <3>1, OpenerGoesOn DEF PastRebuild
  <2>3. CASE "one key each" \notin columns
    <3>1. /\ opening[o].at = "keys"
          /\ opening' = [opening EXCEPT ![o] = [at |-> "columns", read |-> {}]]
      BY <1>2, <2>3 DEF Step, ReadKeyColumns
    <3> QED  BY <2>1, <2>3, <3>1, OpenerGoesOn DEF PastRebuild
  <2> QED  BY <2>2, <2>3
<1>3. CASE DropFails(o)
  BY <1>3, OpenerGoesOn DEF DropFails, Closed, rowVars, PastRebuild
<1>4. CASE AddColumns(o)
  BY <1>4, OpenerGoesOn DEF Step, AddColumns, rowVars, PastRebuild
<1>5. CASE ReadOrphans(o)
  <2>1. UNCHANGED <<columns, keyColumn, keys, uploads, together>>  BY <1>5 DEF ReadOrphans, rowVars
  <2>2. CASE Orphans = {}
    <3>1. /\ opening[o].at = "tenancy"
          /\ opening' = [opening EXCEPT ![o] = [at |-> "invites", read |-> {}]]
      BY <1>5, <2>2 DEF Step, ReadOrphans
    <3> QED  BY <2>1, <2>2, <3>1, OpenerGoesOn DEF PastRebuild
  <2>3. CASE Orphans # {}
    <3>1. /\ opening[o].at = "tenancy"
          /\ opening' = [opening EXCEPT ![o] = [at |-> "adopting", read |-> Orphans]]
      BY <1>5, <2>3 DEF Reads, ReadOrphans
    <3> QED  BY <2>1, <2>3, <3>1, OpenerGoesOn DEF PastRebuild
  <2> QED  BY <2>2, <2>3
<1>6. CASE RebuildInvites(o)
  BY <1>6, OpenerGoesOn DEF Step, RebuildInvites, rowVars, PastRebuild
<1>7. CASE CountUploads(o)
  <2>1. UNCHANGED <<columns, keyColumn, keys, uploads, together>>  BY <1>7 DEF CountUploads, rowVars
  <2>2. CASE "uploads by item" \in columns
    <3>1. /\ opening[o].at = "uploads"
          /\ opening' = [opening EXCEPT ![o] = [at |-> "rebuilding", read |-> Rows]]
      BY <1>7, <2>2 DEF Reads, CountUploads
    <3> QED  BY <2>1, <2>2, <3>1, OpenerGoesOn DEF PastRebuild
  <2>3. CASE "uploads by item" \notin columns
    <3>1. /\ opening[o].at = "uploads"
          /\ opening' = [opening EXCEPT ![o] = [at |-> "session", read |-> {}]]
      BY <1>7, <2>3 DEF Step, CountUploads
    <3> QED  BY <2>1, <2>3, <3>1, OpenerGoesOn DEF PastRebuild
  <2> QED  BY <2>2, <2>3
<1>8. CASE DropSessionColumn(o)
  BY <1>0, <1>8, OpenerGoesOn DEF Step, DropSessionColumn, rowVars, PastRebuild
<1>9. CASE ReadUnwrapped(o)
  <2>1. UNCHANGED <<columns, keyColumn, keys, uploads, together>>  BY <1>9 DEF ReadUnwrapped, rowVars
  <2>2. CASE Unwrapped = {}
    <3>1. /\ opening[o].at = "wrappings"
          /\ opening' = [opening EXCEPT ![o] = [at |-> "sweep", read |-> {}]]
      BY <1>9, <2>2 DEF Step, ReadUnwrapped
    <3> QED  BY <2>1, <2>2, <3>1, <1>0, OpenerGoesOn DEF PastRebuild
  <2>3. CASE Unwrapped # {}
    <3>1. /\ opening[o].at = "wrappings"
          /\ opening' = [opening EXCEPT ![o] = [at |-> "wrapping", read |-> Unwrapped]]
      BY <1>9, <2>3 DEF Reads, ReadUnwrapped
    <3> QED  BY <2>1, <2>3, <3>1, <1>0, OpenerGoesOn DEF PastRebuild
  <2> QED  BY <2>2, <2>3
<1>10. CASE WrapForMakers(o)
  BY <1>0, <1>10, OpenerGoesOn DEF WrapForMakers, PastRebuild
<1>11. CASE Sweep(o)
  BY <1>0, <1>11, OpenerGoesOn DEF Step, Sweep, rowVars, PastRebuild
<1>12. CASE Ends(o)
  <2>1. /\ opening' = [opening EXCEPT ![o] = [at |-> "closed", read |-> {}]]
        /\ UNCHANGED <<columns, keyColumn, keys, uploads, together>>
    BY <1>12 DEF Ends, Closed, rowVars
  <2> QED  BY <2>1, OpenerGoesOn DEF PastRebuild
<1> QED
  BY <1>1, <1>2, <1>3, <1>4, <1>5, <1>6, <1>7, <1>8, <1>9, <1>10, <1>11, <1>12

LEMMA CarryKeyKeeps == ASSUME OpeningInv, NEW o \in Opener, CarryKey(o) PROVE OpeningInv'
<1>1. PICK p \in opening[o].read :
        /\ keys' = keys \union {[n |-> Cardinality(keys) + 1, by |-> p, practice |-> NoPractice]}
        /\ opening' = [opening EXCEPT ![o].read = opening[o].read \ {p}]
  BY DEF CarryKey
<1>2. PICK key : key = [n |-> Cardinality(keys) + 1, by |-> p, practice |-> NoPractice]  OBVIOUS
<1>3. keys' = keys \cup {key} /\ key.by = p /\ DOMAIN key = {"n", "by", "practice"}
  BY <1>1, <1>2
<1>4. Carriers' = Carriers \cup {p}  BY <1>3 DEF Carriers
<1>5. opening' = [opening EXCEPT ![o] = [at |-> "carrying keys", read |-> opening[o].read \ {p}]]
  <2>1. opening' = [opening EXCEPT ![o] = [opening[o] EXCEPT !.read = opening[o].read \ {p}]]
    BY <1>1, Zenon DEF OpeningInv, OpeningShape
  <2>2. opening[o].at = "carrying keys" /\ DOMAIN opening[o] = {"at", "read"}
    BY DEF CarryKey, OpeningInv, OpeningShape
  <2>3. PICK now : now = [at |-> "carrying keys", read |-> opening[o].read \ {p}]  OBVIOUS
  <2>4. [opening[o] EXCEPT !.read = opening[o].read \ {p}] = now
    <3>1. [opening[o] EXCEPT !.read = opening[o].read \ {p}]
            = [f \in {"at", "read"} |-> IF f = "read" THEN opening[o].read \ {p} ELSE opening[o][f]]
      BY <2>2, Zenon
    <3>2. now = [f \in {"at", "read"} |-> now[f]]  BY <2>3
    <3>3. now["at"] = "carrying keys" /\ now["read"] = opening[o].read \ {p}
      <4>1. now.at = "carrying keys" /\ now.read = opening[o].read \ {p}  BY <2>3
      <4> QED  BY <4>1
    <3>4. opening[o]["at"] = "carrying keys"  BY <2>2
    <3> QED  BY <3>1, <3>2, <3>3, <3>4
  <2> QED  BY <2>1, <2>3, <2>4
<1>6. "one key each" \in columns => keyColumn \ opening[o].read \subseteq Carriers
  BY DEF CarryKey, OpeningInv, KeysInHand
<1>7. \A k \in keys' : DOMAIN k = {"n", "by", "practice"}  BY <1>3 DEF OpeningInv, OpeningShape
<1> QED
  BY <1>4, <1>5, <1>6, <1>7, OpenerWrites DEF CarryKey, PastRebuild

LEMMA DropKeeps == ASSUME OpeningInv, NEW o \in Opener, DropKeyColumns(o) PROVE OpeningInv'
<1>1. Carriers' = Carriers  BY DEF DropKeyColumns, Carriers
<1>2. \A k \in keys' : DOMAIN k = {"n", "by", "practice"}
  BY DEF DropKeyColumns, OpeningInv, OpeningShape
<1> QED  BY <1>1, <1>2, OpenerWrites DEF DropKeyColumns, WhenCarried, PastRebuild

\* Every key keeps its maker when its practice is filled in.
LEMMA AdoptedCarriers ==
  ASSUME OpeningInv, NEW o \in Opener, Adopt(o)
  PROVE  /\ \A k \in keys' : DOMAIN k = {"n", "by", "practice"}
         /\ Carriers' = Carriers
<1>1. PICK now :
        keys' = {IF Unadopted(k.practice) THEN [k EXCEPT !.practice = now[k.by]] ELSE k : k \in keys}
  <2>1. PICK new \in [opening[o].read -> practices + 1 .. practices + Cardinality(opening[o].read)] :
          LET now == [p \in Person |-> IF p \in opening[o].read THEN new[p] ELSE practiceOf[p]] IN
            keys' = {IF Unadopted(k.practice) THEN [k EXCEPT !.practice = now[k.by]] ELSE k : k \in keys}
    BY Zenon DEF Adopt
  <2>2. PICK now : now = [p \in Person |-> IF p \in opening[o].read THEN new[p] ELSE practiceOf[p]]
    OBVIOUS
  <2>3. keys' = {IF Unadopted(k.practice) THEN [k EXCEPT !.practice = now[k.by]] ELSE k : k \in keys}
    BY <2>1, <2>2, Zenon
  <2> QED  BY <2>3
<1>2. ASSUME NEW k \in keys
      PROVE  /\ DOMAIN [k EXCEPT !.practice = now[k.by]] = {"n", "by", "practice"}
             /\ [k EXCEPT !.practice = now[k.by]].by = k.by
  <2>1. DOMAIN k = {"n", "by", "practice"}  BY DEF OpeningInv, OpeningShape
  <2> QED  BY <2>1
<1>3. \A k \in keys : DOMAIN k = {"n", "by", "practice"}  BY DEF OpeningInv, OpeningShape
<1>4. \A k \in keys' : \E j \in keys : k.by = j.by /\ DOMAIN k = {"n", "by", "practice"}
  BY <1>1, <1>2, <1>3
<1>5. \A j \in keys : \E k \in keys' : k.by = j.by  BY <1>1, <1>2
<1> QED  BY <1>4, <1>5 DEF Carriers

LEMMA AdoptKeeps == ASSUME OpeningInv, NEW o \in Opener, Adopt(o) PROVE OpeningInv'
<1>1. /\ opening[o].at = "adopting"
      /\ opening' = [opening EXCEPT ![o] = [at |-> "invites", read |-> {}]]
      /\ UNCHANGED <<columns, keyColumn, uploads, together>>
  BY DEF Adopt
<1> QED  BY <1>1, AdoptedCarriers, OpenerWrites DEF PastRebuild

\* The rows the rebuild carries: all of them, if nobody else opened meanwhile.
LEMMA RebuildCarries ==
  ASSUME OpeningInv, NEW o \in Opener, RebuildUploads(o)
  PROVE  /\ uploads' = [u \in Upload |-> uploads'[u]]
         /\ together' \/ Rows' = Rows
<1>1. uploads = [u \in Upload |-> uploads[u]] /\ together' = together /\ opening[o].at = "rebuilding"
  BY DEF RebuildUploads, OpeningInv, OpeningShape
<1>2. CASE CountAgrees(o, Joined)
  <2>1. uploads' = [u \in Upload |-> IF u \in Joined THEN "says its request" ELSE "none"]
    BY <1>2 DEF RebuildUploads
  <2>2. Joined \subseteq Upload /\ Joined \subseteq Rows /\ Rows \subseteq Upload  BY DEF Joined, Rows
  <2>3. Rows' = Joined  BY <2>1, <2>2 DEF Rows
  <2>4. IsFiniteSet(Rows)  BY <2>2, RowsAreFinite, FS_Subset
  <2>5. ASSUME ~together PROVE Joined = Rows
    <3>1. opening[o].read = Rows  BY <1>1, <2>5 DEF OpeningInv, CountHolds
    <3>2. Cardinality(Joined) = Cardinality(Rows)  BY <1>2, <3>1 DEF CountAgrees
    <3> QED  BY <2>2, <2>4, <3>2, FS_Subset
  <2> QED  BY <1>1, <2>1, <2>3, <2>5
<1>3. CASE ~CountAgrees(o, Joined)
  <2>1. uploads' = uploads  BY <1>3 DEF RebuildUploads
  <2> QED  BY <1>1, <2>1 DEF Rows
<1> QED  BY <1>2, <1>3

LEMMA RebuildKeeps == ASSUME OpeningInv, NEW o \in Opener, RebuildUploads(o) PROVE OpeningInv'
<1>1. /\ opening[o].at = "rebuilding"
      /\ UNCHANGED <<keyColumn, keys, together>>
  BY DEF RebuildUploads
<1>2. CASE CountAgrees(o, Joined)
  <2>1. /\ columns' = columns \ {"uploads by item"}
        /\ opening' = [opening EXCEPT ![o] = [at |-> "session", read |-> {}]]
    BY <1>2 DEF RebuildUploads
  <2>2. /\ opening'[o].at = "session"
        /\ \A q \in Opener : q # o => opening'[q] = opening[q]
    BY <2>1 DEF OpeningInv, OpeningShape
  <2>3. OpeningShape'
    <3>1. opening' = [q \in Opener |-> IF q = o THEN [at |-> "session", read |-> {}] ELSE opening[q]]
      BY <2>1 DEF OpeningInv, OpeningShape
    <3>2. DOMAIN [at |-> "session", read |-> {}] = {"at", "read"}  OBVIOUS
    <3>3. \A q \in Opener : DOMAIN opening'[q] = {"at", "read"}
      BY <3>1, <3>2 DEF OpeningInv, OpeningShape
    <3>4. opening' = [q \in Opener |-> opening'[q]]  BY <3>1
    <3> QED  BY <1>1, <3>3, <3>4, RebuildCarries DEF OpeningInv, OpeningShape
  <2>4. Carriers' = Carriers  BY <1>1 DEF Carriers
  <2>5. KeysInHand'  BY <1>1, <2>1, <2>2, <2>4 DEF OpeningInv, KeysInHand
  <2>6. OneAtATime'
    <3>1. Busy' \subseteq Busy  BY <1>1, <2>2 DEF Busy
    <3> QED  BY <1>1, <3>1 DEF OpeningInv, OneAtATime
  <2>7. ServesRebuilt'  BY <2>1 DEF ServesRebuilt
  <2>8. CountHolds'
    <3> SUFFICES ASSUME ~together, NEW q \in Opener, opening'[q].at = "rebuilding" PROVE FALSE
      BY <1>1 DEF CountHolds
    <3>1. q # o /\ opening[q].at = "rebuilding"  BY <2>2
    <3> QED  BY <1>1, <3>1 DEF OpeningInv, OneAtATime, Busy
  <2> QED  BY <2>3, <2>5, <2>6, <2>7, <2>8 DEF OpeningInv
<1>3. CASE ~CountAgrees(o, Joined)
  <2>1. /\ opening' = [opening EXCEPT ![o] = [at |-> "closed", read |-> {}]]
        /\ UNCHANGED <<columns, uploads>>
    BY <1>3 DEF RebuildUploads, Closed
  <2> QED  BY <1>1, <2>1, OpenerGoesOn DEF PastRebuild
<1> QED  BY <1>2, <1>3

\* A document arrives at a server that is open, and so when nothing is counted.
LEMMA TakeUploadKeeps ==
  ASSUME OpeningInv, NEW o \in Opener, TakeUpload(o)
  PROVE  OpeningInv' /\ Rows \subseteq Rows'
<1>1. /\ opening[o].at = "open"
      /\ UNCHANGED <<columns, keyColumn, keys, opening, together>>
  BY DEF TakeUpload
<1>2. PICK u \in Upload, row \in {"says its request", "asked for by nobody"} :
        uploads[u] = "none" /\ uploads' = [uploads EXCEPT ![u] = row]
  BY DEF TakeUpload
<1>3. "uploads by item" \notin columns  BY <1>1 DEF OpeningInv, ServesRebuilt, PastRebuild
<1>4. uploads' = [v \in Upload |-> IF v = u THEN row ELSE uploads[v]]
  BY <1>2 DEF OpeningInv, OpeningShape
<1>5. OpeningShape'
  <2>1. uploads' = [v \in Upload |-> uploads'[v]]  BY <1>4
  <2> QED  BY <1>1, <2>1 DEF OpeningInv, OpeningShape
<1>6. Rows \subseteq Rows'  BY <1>4 DEF Rows
<1>7. CountHolds'  BY <1>1, <1>3 DEF OpeningInv, CountHolds
<1> QED
  BY <1>1, <1>5, <1>6, <1>7 DEF OpeningInv, KeysInHand, OneAtATime, ServesRebuilt, Carriers, Busy

LEMMA TablesStand ==
  ASSUME OpeningInv, UNCHANGED <<columns, keyColumn, keys, uploads, opening, together>>
  PROVE  OpeningInv'
BY DEF OpeningInv, OpeningShape, KeysInHand, OneAtATime, ServesRebuilt, CountHolds, Carriers, Busy, Rows

LEMMA OpeningStep == OpeningInv /\ [OpenNext]_openVars => OpeningInv'
<1> SUFFICES ASSUME OpeningInv, [OpenNext]_openVars PROVE OpeningInv'  OBVIOUS
<1>1. ASSUME NEW o \in Opener, Opens(o) \/ Ends(o) PROVE OpeningInv'
  BY <1>1, QuietStepsKeep, CarryKeyKeeps, DropKeeps, AdoptKeeps, RebuildKeeps DEF Opens
<1>2. ASSUME NEW o \in Opener, TakeUpload(o) PROVE OpeningInv'  BY <1>2, TakeUploadKeeps
<1>3. CASE WriteWithOldRelease  BY <1>3, TablesStand DEF WriteWithOldRelease
<1>4. CASE UNCHANGED openVars  BY <1>4, TablesStand DEF openVars
<1> QED  BY <1>1, <1>2, <1>3, <1>4 DEF OpenNext

LEMMA OpeningStarts == OpenInit => OpeningInv
<1> SUFFICES ASSUME OpenInit PROVE OpeningInv  OBVIOUS
<1>1. \A o \in Opener : opening[o].at = "closed"  BY DEF OpenInit, Closed
<1>2. OpeningShape
  <2>1. DOMAIN Closed = {"at", "read"}  BY DEF Closed
  <2>2. opening = [o \in Opener |-> Closed]  BY DEF OpenInit
  <2>3. \A o \in Opener : DOMAIN opening[o] = {"at", "read"}  BY <2>1, <2>2
  <2>4. \A k \in keys : DOMAIN k = {"n", "by", "practice"}
    <3>1. PICK p \in Person :
            keys = IF keyColumn # {} THEN {} ELSE {[n |-> 1, by |-> p, practice |-> NoPractice]}
      BY DEF OpenInit
    <3>2. PICK key : key = [n |-> 1, by |-> p, practice |-> NoPractice]  OBVIOUS
    <3>3. DOMAIN key = {"n", "by", "practice"}  BY <3>2
    <3> QED  BY <3>1, <3>2, <3>3
  <2>5. uploads = [u \in Upload |-> uploads[u]]  BY DEF OpenInit
  <2>6. opening = [o \in Opener |-> opening[o]]  BY <2>2
  <2> QED  BY <2>3, <2>4, <2>5, <2>6 DEF OpeningShape
<1> QED
  BY <1>1, <1>2 DEF OpeningInv, KeysInHand, OneAtATime, ServesRebuilt, CountHolds, Busy, PastRebuild

\* What one step may do to keys and rows.
LEMMA NothingGoes ==
  ASSUME OpeningInv, [OpenNext]_openVars
  PROVE  Keyed \subseteq Keyed' /\ (together' \/ Rows \subseteq Rows')
<1>0. ASSUME UNCHANGED <<keyColumn, keys, uploads>>
      PROVE  Keyed \subseteq Keyed' /\ Rows \subseteq Rows'
  BY <1>0 DEF Keyed, Rows
<1>1. ASSUME NEW o \in Opener, Opens(o) \/ Ends(o)
      PROVE  Keyed \subseteq Keyed' /\ (together' \/ Rows \subseteq Rows')
  <2>1. CASE CarryKey(o)
    <3>1. keys \subseteq keys' /\ UNCHANGED <<keyColumn, uploads>>  BY <2>1 DEF CarryKey
    <3> QED  BY <3>1 DEF Keyed, Rows
  <2>2. CASE DropKeyColumns(o)
    <3>1. keyColumn \subseteq Carriers
      <4>1. opening[o].at = "carrying keys" /\ opening[o].read = {} /\ "one key each" \in columns
        BY <2>2 DEF DropKeyColumns, WhenCarried
      <4> QED  BY <4>1 DEF OpeningInv, KeysInHand
    <3>2. UNCHANGED <<keys, uploads>>  BY <2>2 DEF DropKeyColumns
    <3> QED  BY <3>1, <3>2 DEF Keyed, Rows, Carriers
  <2>3. CASE Adopt(o)
    <3>1. UNCHANGED <<keyColumn, uploads>>  BY <2>3 DEF Adopt
    <3>2. Carriers' = Carriers  BY <2>3, AdoptedCarriers
    <3> QED  BY <3>1, <3>2 DEF Keyed, Rows, Carriers
  <2>4. CASE RebuildUploads(o)
    <3>1. UNCHANGED <<keyColumn, keys>>  BY <2>4 DEF RebuildUploads
    <3> QED  BY <2>4, <3>1, RebuildCarries DEF Keyed
  <2> QED
    BY <1>0, <1>1, <2>1, <2>2, <2>3, <2>4
    DEF Opens, Ends, ExecSchema, ReadKeyColumns, DropFails, AddColumns, ReadOrphans, RebuildInvites,
        CountUploads, DropSessionColumn, ReadUnwrapped, WrapForMakers, Sweep, rowVars
<1>2. ASSUME NEW o \in Opener, TakeUpload(o) PROVE Keyed \subseteq Keyed' /\ Rows \subseteq Rows'
  BY <1>2, TakeUploadKeeps DEF TakeUpload, Keyed
<1>3. CASE WriteWithOldRelease  BY <1>0, <1>3 DEF WriteWithOldRelease
<1>4. CASE UNCHANGED openVars  BY <1>0, <1>4 DEF openVars
<1> QED  BY <1>1, <1>2, <1>3, <1>4 DEF OpenNext

\* In every state of a database being opened: a key that was read and left an opener's hands has its
\* row, and rows that were counted stand until they are carried (src/db.js, migrate).
THEOREM OpeningInvariant == OpenSpec => []OpeningInv
<1> QED  BY OpeningStarts, OpeningStep, PTL DEF OpenSpec

\* For any numbers of people, documents, openers and crashes: no step of an opening loses a key, nor,
\* unless two openings ran at once, a document.
THEOREM OpeningsLoseNothing == OpenSpec => OpeningLosesNothing
<1>1. OpeningInv /\ [OpenNext]_openVars
        => [Keyed \subseteq Keyed' /\ (together' \/ Rows \subseteq Rows')]_openVars
  BY NothingGoes
<1> QED  BY <1>1, OpeningInvariant, PTL DEF OpenSpec, OpeningLosesNothing
=============================================================================
