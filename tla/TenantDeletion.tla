---------------------------- MODULE TenantDeletion ----------------------------
(***************************************************************************)
(* How a hosted practice is deleted, beside the daily backup and a restore *)
(* (src/src/tenancy/offboarding.js, restore-tombstones.js,                 *)
(* backup-status.js and the tools that run them).  One practice of the     *)
(* fleet is followed; of the others only what holds it up: an invitation   *)
(* of theirs that names one of its accounts.  Its sessions, links and      *)
(* invitations are left out: the registry's state overrides them.  Time is *)
(* in days, counted down where the code compares dates.                    *)
(***************************************************************************)
EXTENDS Integers, FiniteSets

CONSTANTS
    Retention,    \* --retention-days of the request
    HoldFor,      \* how long a retention hold lasts
    MaxAge,       \* how old a backup may be for a purge (26 hours)
    Keep,         \* --retention-days of the backups
    MaxFaults,    \* bound: crashes and failed backups
    MaxHands      \* bound: purges and restores run by hand

ASSUME DaysAssumption  == {Retention, HoldFor, MaxAge, Keep} \subseteq Nat
ASSUME BoundAssumption == {MaxFaults, MaxHands} \subseteq Nat

\* A purge needs a backup no older than MaxAge, so one made after the request
\* when the retention is longer than that: then the ledger a restore replays
\* names it.  --retention-days 0 or 1 is accepted and breaks this.
ASSUME RetentionAssumption == Retention > MaxAge

VARIABLES
    life,      \* tenant.lifecycle_state, "none" when there is no row
    tomb,      \* the practice's row of tenant_deletion
    files,     \* its directory: under tenants/, under .retired, or nowhere
    bound,     \* whether an account only it needs is named by another's invitation
    purge,     \* purge[p]: how far a run of completeTenantDeletion is
    backup,    \* how far hosted-backup.mjs is, and what it has copied
    repo,      \* the snapshots off site
    status,    \* the age of the last success in hosted-backup-status.json, or none
    lock,      \* who holds .hosted-operations.lock
    faults, hands,
    erased     \* ghost: whether a deletion was ever completed

registry == <<life, tomb, bound>>
offsite  == <<backup, repo, status>>
counts   == <<faults, hands>>
vars     == <<registry, files, purge, offsite, lock, counts, erased>>

-----------------------------------------------------------------------------
Purger   == {"maintenance", "operator"}
NoStatus == MaxAge + 1
NoTomb   == [state |-> "none", due |-> 0, hold |-> 0]
Idle     == [at |-> "idle", files |-> FALSE, life |-> "none", tomb |-> NoTomb]

Less(n)  == IF n = 0 THEN 0 ELSE n - 1
Sooner(t) == [t EXCEPT !.due = Less(@), !.hold = Less(@)]

Latest == CHOOSE s \in repo : s.latest

-----------------------------------------------------------------------------
\* requestTenantDeletion, by the owner or for a practice that never paid.
Request ==
    /\ life = "active"
    /\ tomb.state = "none"
    /\ life' = "requested"
    /\ tomb' = [state |-> "requested", due |-> Retention, hold |-> tomb.hold]
    /\ UNCHANGED <<bound, files, purge, offsite, lock, counts, erased>>

\* setTenantRetentionHold: on the practice's row and on its tombstone.
SetHold ==
    /\ life # "none"
    /\ tomb.state # "deleted"
    /\ tomb' = [tomb EXCEPT !.hold = HoldFor]
    /\ UNCHANGED <<life, bound, files, purge, offsite, lock, counts, erased>>

\* A member who left another practice is still named by its invitation, and
\* needed by none but this one; or that other practice goes, or takes them back.
Bind ==
    /\ life # "none"
    /\ bound' = ~bound
    /\ UNCHANGED <<life, tomb, files, purge, offsite, lock, counts, erased>>

-----------------------------------------------------------------------------
(* completeTenantDeletion.  hosted-maintenance.mjs holds the lock around    *)
(* finalize-deletions.mjs; offboard-tenant.mjs --action purge holds none.   *)
At(p, from, to) == purge[p] = from /\ purge' = [purge EXCEPT ![p] = to]

Due == tomb.state \in {"requested", "deleting"} /\ tomb.due = 0 /\ tomb.hold = 0

Begin(p) ==
    /\ IF p = "maintenance" THEN lock = "free" /\ lock' = p /\ UNCHANGED hands
                            ELSE hands < MaxHands /\ hands' = hands + 1 /\ UNCHANGED lock
    /\ status =< MaxAge
    /\ Due
    /\ At(p, "idle", "checked")
    /\ UNCHANGED <<registry, files, offsite, faults, erased>>

\* Mutant: the tombstone is left for the last transaction.
MarkTenantOnly(p) ==
    /\ At(p, "checked", "marked")
    /\ life' = IF life = "none" THEN "none" ELSE "deleting"
    /\ UNCHANGED <<tomb, bound, files, offsite, lock, counts, erased>>

\* Two updates, each a transaction of its own.
MarkTenant(p) ==
    /\ At(p, "checked", "marking")
    /\ life' = IF life = "none" THEN "none" ELSE "deleting"
    /\ UNCHANGED <<tomb, bound, files, offsite, lock, counts, erased>>

MarkTomb(p) ==
    /\ At(p, "marking", "marked")
    /\ tomb' = [tomb EXCEPT !.state = "deleting"]
    /\ UNCHANGED <<life, bound, files, offsite, lock, counts, erased>>

\* Mutant: a directory that is not under tenants/ is an error.
LookUnderTenants(p) ==
    /\ files = "live"
    /\ At(p, "marked", "found")
    /\ UNCHANGED <<registry, files, offsite, lock, counts, erased>>

\* The two directories are looked for; what is under tenants/ is moved.
Look(p) ==
    /\ At(p, "marked", IF files = "live" THEN "found" ELSE "moved")
    /\ UNCHANGED <<registry, files, offsite, lock, counts, erased>>

Move(p) ==
    /\ files = "live"
    /\ At(p, "found", "moved")
    /\ files' = "retired"
    /\ UNCHANGED <<registry, offsite, lock, counts, erased>>

RemoveTree(p) ==
    /\ At(p, "moved", "removed")
    /\ files' = IF files = "retired" THEN "none" ELSE files
    /\ UNCHANGED <<registry, offsite, lock, counts, erased>>

Release(p) == lock' = IF lock = p THEN "free" ELSE lock

\* The last transaction.  An account nobody else needs is deleted, which a
\* foreign key refuses when an invitation of another practice names it.
Finish(p) ==
    /\ ~bound
    /\ At(p, "removed", "idle")
    /\ Release(p)
    /\ life' = "none"
    /\ tomb' = [tomb EXCEPT !.state = "deleted"]
    /\ erased' = TRUE
    /\ UNCHANGED <<bound, files, offsite, counts>>

\* It throws: the foreign key, or the other run moved or removed first.
Refused(p) ==
    /\ \/ bound /\ At(p, "removed", "idle")
       \/ files # "live" /\ At(p, "found", "idle")
       \/ /\ At(p, "moved", "idle")
          /\ \E q \in Purger \ {p} : purge[q] \in {"moved", "removed"}
          /\ files # "retired"
    /\ Release(p)
    /\ UNCHANGED <<registry, files, offsite, counts, erased>>

-----------------------------------------------------------------------------
(* hosted-backup.mjs, once a day: the practices' directories are copied,    *)
(* the registry after them, the copy is sent, old snapshots are forgotten.  *)
CopyFiles ==
    /\ backup.at = "idle" /\ lock = "free"
    /\ \A s \in repo : s.age > 0
    /\ lock' = "backup"
    /\ backup' = [Idle EXCEPT !.at = "copied", !.files = (files = "live")]
    /\ UNCHANGED <<registry, files, purge, repo, status, counts, erased>>

CopyRegistry ==
    /\ backup.at = "copied"
    /\ backup' = [backup EXCEPT !.at = "listed", !.life = life, !.tomb = tomb]
    /\ UNCHANGED <<registry, files, purge, repo, status, lock, counts, erased>>

Send ==
    /\ backup.at = "listed"
    /\ repo' = {[s EXCEPT !.latest = FALSE] : s \in repo} \cup
           {[age |-> 0, latest |-> TRUE,
             files |-> backup.files, life |-> backup.life, tomb |-> backup.tomb]}
    /\ backup' = [backup EXCEPT !.at = "sent"]
    /\ UNCHANGED <<registry, files, purge, status, lock, counts, erased>>

\* restic forget --keep-within, unless a hold of the copied registry is in force.
Kept(s) == s.age =< Keep \/ backup.tomb.hold > 0

Succeed ==
    /\ backup.at = "sent"
    /\ repo' = {s \in repo : Kept(s)}
    /\ status' = 0
    /\ backup' = Idle
    /\ lock' = "free"
    /\ UNCHANGED <<registry, files, purge, counts, erased>>

\* Any step fails: the status says so.
Fail ==
    /\ backup.at # "idle"
    /\ faults < MaxFaults /\ faults' = faults + 1
    /\ status' = NoStatus
    /\ backup' = Idle
    /\ lock' = "free"
    /\ UNCHANGED <<registry, files, purge, repo, hands, erased>>

-----------------------------------------------------------------------------
\* The host goes down: what ran is gone, the lock file stays.
Crash ==
    /\ faults < MaxFaults /\ faults' = faults + 1
    /\ purge' = [p \in Purger |-> "idle"]
    /\ backup' = Idle
    /\ UNCHANGED <<registry, files, repo, status, lock, hands, erased>>

\* "inspect it before retrying": a lock nobody holds is removed by hand.
ClearLock ==
    /\ lock # "free"
    /\ lock \in Purger => purge[lock] = "idle"
    /\ lock = "backup" => backup.at = "idle"
    /\ lock' = "free"
    /\ UNCHANGED <<registry, files, purge, offsite, counts, erased>>

\* Mutant: the snapshot's own ledger is replayed.
ReplayedOwn(s) ==
    IF s.tomb.state = "none" \/ s.tomb.state = "requested"
    THEN [life |-> s.life, tomb |-> s.tomb, files |-> s.files]
    ELSE [life |-> "none", tomb |-> [s.tomb EXCEPT !.state = "deleted"], files |-> FALSE]

\* applyBackupDeletionTombstones on the registry of snapshot s: the newest
\* ledger's row replaces its own, as far as it has one.
Replayed(s) ==
    LET t == Latest.tomb IN
    IF t.state = "none" THEN [life |-> s.life, tomb |-> s.tomb, files |-> s.files]
    ELSE IF t.state = "requested"
    THEN [life |-> IF s.life = "none" THEN "none" ELSE "requested", tomb |-> t, files |-> s.files]
    ELSE IF t.due > 0 \/ t.hold > 0
    THEN [life  |-> IF s.life = "none" THEN "none" ELSE "deleting",
          tomb  |-> [t EXCEPT !.state = "deleting"], files |-> s.files]
    ELSE [life |-> "none", tomb |-> [t EXCEPT !.state = "deleted"], files |-> FALSE]

\* verifyFleetBackup: every practice the copied registry names has its directory.
Verifies(s) == s.life # "none" => s.files

\* restore-hosted.mjs makes a new data directory of a snapshot that verifies, all
\* of it or nothing; the service goes on there, without a backup status.
Restore ==
    /\ hands < MaxHands /\ hands' = hands + 1
    /\ \E s \in {t \in repo : Verifies(t)} :
          /\ life'  = Replayed(s).life
          /\ tomb'  = Replayed(s).tomb
          /\ files' = IF Replayed(s).files THEN "live" ELSE "none"
    /\ bound' \in BOOLEAN
    /\ purge' = [p \in Purger |-> "idle"]
    /\ backup' = Idle
    /\ status' = NoStatus
    /\ lock' = "free"
    /\ UNCHANGED <<repo, faults, erased>>

Aged(s) == [s EXCEPT !.age = IF @ > Keep THEN @ ELSE @ + 1, !.tomb = Sooner(@)]

\* A day passes.  A backup takes minutes: it ends on the day it began.
Tick ==
    /\ backup.at = "idle"
    /\ tomb' = Sooner(tomb)
    /\ repo' = {Aged(s) : s \in repo}
    /\ status' = IF status > MaxAge THEN status ELSE status + 1
    /\ UNCHANGED <<life, bound, files, purge, backup, lock, counts, erased>>

-----------------------------------------------------------------------------
Init ==
    /\ life = "active"
    /\ tomb = NoTomb
    /\ files = "live"
    /\ bound = FALSE
    /\ purge = [p \in Purger |-> "idle"]
    /\ backup = Idle
    /\ repo = {}
    /\ status = NoStatus
    /\ lock = "free"
    /\ faults = 0 /\ hands = 0
    /\ erased = FALSE

Purge(p) ==
    \/ Begin(p) \/ MarkTenant(p) \/ MarkTomb(p) \/ Look(p) \/ Move(p)
    \/ RemoveTree(p) \/ Finish(p) \/ Refused(p)

Backup == CopyFiles \/ CopyRegistry \/ Send \/ Succeed

Next ==
    \/ Request \/ SetHold \/ Bind
    \/ \E p \in Purger : Purge(p)
    \/ Backup \/ Fail
    \/ Crash \/ ClearLock \/ Restore \/ Tick

\* Days pass; the timers of the backup and of the maintenance fire every day,
\* so neither is passed over for ever by the other's lock or by a stale status;
\* a lock left by a crash is found.
Fairness ==
    /\ WF_vars(Tick) /\ WF_vars(ClearLock)
    /\ SF_vars(Backup)
    /\ SF_vars(Purge("maintenance"))
    /\ WF_vars(Purge("operator") /\ purge["operator"] # "idle")

Spec == Init /\ [][Next]_vars /\ Fairness

-----------------------------------------------------------------------------
Life == {"none", "active", "requested", "deleting"}
Tomb == [state: {"none", "requested", "deleting", "deleted"},
         due: 0..Retention, hold: 0..HoldFor]

TypeOK ==
    /\ life \in Life
    /\ tomb \in Tomb
    /\ files \in {"live", "retired", "none"}
    /\ bound \in BOOLEAN
    /\ purge \in [Purger -> {"idle", "checked", "marking", "marked", "found", "moved", "removed"}]
    /\ backup \in [at: {"idle", "copied", "listed", "sent"},
                   files: BOOLEAN, life: Life, tomb: Tomb]
    /\ repo \subseteq [age: 0..Keep + 1, latest: BOOLEAN,
                       files: BOOLEAN, life: Life, tomb: Tomb]
    /\ status \in 0..NoStatus
    /\ lock \in Purger \cup {"free", "backup"}
    /\ faults \in 0..MaxFaults /\ hands \in 0..MaxHands
    /\ erased \in BOOLEAN

\* Nothing of a practice is touched before its date has come and the deletion
\* is on record, whatever stops in between, and whatever is restored.
KeptUntilDue ==
    files # "live" => tomb.state \in {"deleting", "deleted"} /\ tomb.due = 0

\* A practice whose deletion was completed is never open again, whichever
\* snapshot is restored and whenever it was taken.
ErasedStaysErased == erased => life # "active"

\* A deletion asked for is carried out, through crashes and failed backups,
\* unless a hold is put on it, another practice's invitation names one of its
\* accounts, or a restore brings back a ledger that does not know of it.
CarriedOut ==
    tomb.state = "requested" ~> \/ tomb.state \in {"deleted", "none"}
                                \/ tomb.hold > 0 \/ bound

===============================================================================
