--------------------------- MODULE UploadPipeline ---------------------------
(***************************************************************************)
(* How an encrypted file becomes a document of one request: the upload     *)
(* handlers of the client's link and of the practice (acceptEnvelope), the *)
(* re-encryption pass that moves a document to a newer key, the download   *)
(* route, and the reconciliation tool that another process runs over the   *)
(* same database and the same blob directory.                              *)
(*                                                                         *)
(* SQLite calls are synchronous, so a handler is atomic between two        *)
(* awaits: every action below is the code from one await to the next.      *)
(* Bytes are counted in chunks, one 'data' event each.                     *)
(***************************************************************************)
EXTENDS Naturals, FiniteSets

CONSTANTS
  Upload,           \* attempts to send a file; each is one POST, never reused
  Pass,             \* posts of a re-encryption pass; each is one POST
  Reader,           \* downloads of a stored envelope
  Link,             \* access tokens of the request
  Practice,         \* the sender that needs no link: addFileForClient
  None,             \* no upload, no path, no sender
  MaxKey,           \* bound on the keys the practice makes
  MaxUploadBytes,   \* per-file limit
  MaxRequestBytes,  \* per-request byte limit
  MaxRequestFiles,  \* per-request file limit
  MaxStorageBytes   \* the tenant's storage quota

ASSUME SenderAssumption == Practice \notin Link /\ None \notin Link
ASSUME FileNameAssumption == Upload \intersect Pass = {} /\ None \notin Upload \union Pass
ASSUME FiniteAssumption == IsFiniteSet(Upload)
ASSUME BoundAssumption ==
  /\ MaxKey \in Nat \ {0}
  /\ MaxUploadBytes \in Nat \ {0}
  /\ MaxRequestBytes \in Nat
  /\ MaxRequestFiles \in Nat
  /\ MaxStorageBytes \in Nat

VARIABLES
  links,      \* state of each access_token row
  newest,     \* practice_key rows are 1..newest, in order of creation
  retired,    \* keys whose deleted_at is set
  pc,         \* where each upload attempt stands
  sender,     \* the link (or the practice) an attempt comes through
  claim,      \* the key its page was served with, sent as x-key-id
  got,        \* bytes spooled so far
  spent,      \* the request's bytes as read before the body was
  rows,       \* uploads that have a row in table upload
  size,       \* upload.size_bytes
  sealed,     \* upload.key_id
  stored,     \* upload.storage_path, named by the id in it
  reserved,   \* uploads that have a row in table upload_reservation
  held,       \* upload_reservation.reserved_bytes
  disk,       \* files in the blob directory
  agedFiles,  \* files whose mtime is a day old or more
  opening,    \* spool files that createWriteStream has not opened yet
  unlinking,  \* spool files a refusal is unlinking, with nobody waiting for it
  missed,     \* for the properties: spool files that outlive their unlink, which came
              \* before the open or died with the process
  agedHolds,  \* reservations created a day ago or more
  passPc,     \* where each re-encryption post stands
  moving,     \* the upload it replaces
  target,     \* the key it names
  previous,   \* the path it has to unlink
  readPc,     \* where each download stands
  reading,    \* the path it read from the row
  tool,       \* where the reconciliation run stands
  referenced, \* the paths the run read from table upload
  pending,    \* the reservations the run read
  candidates, \* the files it is going to remove
  stale       \* the reservations it is going to remove

linkVars == <<links>>
keyVars  == <<newest, retired>>
jobVars  == <<pc, sender, claim, got, spent>>
rowVars  == <<rows, size, sealed, stored>>
holdVars == <<reserved, held>>
diskVars == <<disk, agedFiles, opening, unlinking, missed>>
callVars == <<opening, unlinking, missed>>
passVars == <<passPc, moving, target, previous>>
readVars == <<readPc, reading>>
toolVars == <<tool, referenced, pending, candidates, stale>>
vars == <<linkVars, keyVars, jobVars, rowVars, holdVars, diskVars, agedHolds,
          passVars, readVars, toolVars>>

-----------------------------------------------------------------------------
(* Data. *)

Sender == Link \union {Practice}
Key    == 1..MaxKey
Owner  == Upload \union Pass
Path   == {"incoming", "bin"} \X Owner
Incoming(o) == <<"incoming", o>>
Bin(o)      == <<"bin", o>>

\* A handler that is on the server's stack; only a crash or its own steps end it.
Running == {"admitting", "spooling", "reading", "dropping",
            "releasing", "moving", "moved", "undoing"}
UploadState == Running \union
  {"idle", "page", "stored", "refused", "outOfSpace", "failed", "dead"}
PassRunning == {"admitting", "spooling", "checking", "dropping", "unlinking"}
PassState   == PassRunning \union {"idle", "replaced", "refused", "dead"}
ReadRunning == {"statting", "opening"}
ReadState   == ReadRunning \union {"idle", "served", "missing", "broken", "dead"}

Busy == \/ \E u \in Upload : pc[u] \in Running
        \/ \E p \in Pass : passPc[p] \in PassRunning
        \/ opening \union unlinking # {}

\* Bytes an amount per upload comes to, as the sum the SQL aggregates take.
Total(f) == Cardinality({un \in Upload \X (1 .. 2 * MaxUploadBytes) : un[2] <= f[un[1]]})
DocumentBytes == Total(size)
Charged == [u \in Upload |-> size[u] + held[u]]
LogicalBytes == Total(Charged)

LinkOpen(u) == sender[u] \in Link => links[sender[u]] = "open"

\* Mutant: the quota is read from table upload alone, without the reservations.
WithinStoredQuota(u, bytes) == sender[u] \in Link => DocumentBytes + bytes <= MaxStorageBytes

\* addFileForClient passes no maxStorageBytes, so only a link is held to the quota.
WithinQuota(u, bytes) == sender[u] \in Link => LogicalBytes + bytes <= MaxStorageBytes

\* Mutant: deleted_at is not looked at.
EveryKey == 1..newest

Live == (1..newest) \ retired
Current == CHOOSE k \in Live : \A other \in Live : other <= k

-----------------------------------------------------------------------------
Init ==
  /\ links = [l \in Link |-> "unissued"]
  /\ newest = 0
  /\ retired = {}
  /\ pc = [u \in Upload |-> "idle"]
  /\ sender = [u \in Upload |-> None]
  /\ claim = [u \in Upload |-> 0]
  /\ got = [u \in Upload |-> 0]
  /\ spent = [u \in Upload |-> 0]
  /\ rows = {}
  /\ size = [u \in Upload |-> 0]
  /\ sealed = [u \in Upload |-> 0]
  /\ stored = [u \in Upload |-> None]
  /\ reserved = {}
  /\ held = [u \in Upload |-> 0]
  /\ disk = {}
  /\ agedFiles = {}
  /\ opening = {}
  /\ unlinking = {}
  /\ missed = {}
  /\ agedHolds = {}
  /\ passPc = [p \in Pass |-> "idle"]
  /\ moving = [p \in Pass |-> None]
  /\ target = [p \in Pass |-> 0]
  /\ previous = [p \in Pass |-> None]
  /\ readPc = [r \in Reader |-> "idle"]
  /\ reading = [r \in Reader |-> None]
  /\ tool = "idle"
  /\ referenced = {}
  /\ pending = {}
  /\ candidates = {}
  /\ stale = {}

-----------------------------------------------------------------------------
(* The practice's side: links and keys. *)

IssueLink(l) ==
  /\ links[l] = "unissued"
  /\ links' = [links EXCEPT ![l] = "open"]
  /\ UNCHANGED <<keyVars, jobVars, rowVars, holdVars, diskVars, agedHolds, passVars, readVars, toolVars>>

\* Time reaches expires_at.
ExpireLink(l) ==
  /\ links[l] = "open"
  /\ links' = [links EXCEPT ![l] = "expired"]
  /\ UNCHANGED <<keyVars, jobVars, rowVars, holdVars, diskVars, agedHolds, passVars, readVars, toolVars>>

RevokeLink(l) ==
  /\ links[l] \in {"open", "expired"}
  /\ links' = [links EXCEPT ![l] = "revoked"]
  /\ UNCHANGED <<keyVars, jobVars, rowVars, holdVars, diskVars, agedHolds, passVars, readVars, toolVars>>

AddKey ==
  /\ newest < MaxKey
  /\ newest' = newest + 1
  /\ UNCHANGED <<retired, linkVars, jobVars, rowVars, holdVars, diskVars, agedHolds, passVars, readVars, toolVars>>

\* One transaction: not the current key, and no upload row names it.
RetireKey(k) ==
  /\ k \in Live
  /\ k # Current
  /\ \A u \in rows : sealed[u] # k
  /\ retired' = retired \union {k}
  /\ UNCHANGED <<newest, linkVars, jobVars, rowVars, holdVars, diskVars, agedHolds, passVars, readVars, toolVars>>

-----------------------------------------------------------------------------
(* spoolBody, as both kinds of body use it. *)

\* The stream is made, and its open has begun.
StartsSpool(f) == opening' = opening \union {f} /\ UNCHANGED <<unlinking, missed>>

OpenSpool(f) ==
  /\ f \in opening
  /\ opening' = opening \ {f}
  /\ disk' = disk \union {f}
  /\ UNCHANGED <<agedFiles, unlinking, missed, linkVars, keyVars, jobVars, rowVars, holdVars, agedHolds, passVars, readVars, toolVars>>

\* giveUp: a chunk refused, the connection gone, or a write or the open itself that failed.
\* The unlink is begun, and the error goes up without waiting for it.
GivesUp(f) ==
  /\ opening' \in {opening, opening \ {f}}
  /\ unlinking' = unlinking \union {f}
  /\ UNCHANGED missed

\* What comes of the unlink is nobody's concern: before the open it finds no file.
UnlinkSpool(f) ==
  /\ f \in unlinking
  /\ unlinking' = unlinking \ {f}
  /\ disk' = disk \ {f}
  /\ missed' = IF f \in opening THEN missed \union {f} ELSE missed
  /\ UNCHANGED <<agedFiles, opening, linkVars, keyVars, jobVars, rowVars, holdVars, agedHolds, passVars, readVars, toolVars>>

-----------------------------------------------------------------------------
(* One upload attempt. *)

Goto(u, state) == pc' = [pc EXCEPT ![u] = state]

\* Mutant: releaseStorageReservation forgotten.
KeepHold(u) == UNCHANGED holdVars

ReleaseHold(u) ==
  /\ reserved' = reserved \ {u}
  /\ held' = [held EXCEPT ![u] = 0]

\* A page with an upload form is served; the form carries the newest key.
OpenPage(u, s) ==
  /\ pc[u] = "idle"
  /\ newest > 0
  /\ s \in Link => links[s] = "open"
  /\ Goto(u, "page")
  /\ sender' = [sender EXCEPT ![u] = s]
  /\ claim' = [claim EXCEPT ![u] = newest]
  /\ UNCHANGED <<got, spent, linkVars, keyVars, rowVars, holdVars, diskVars, agedHolds, passVars, readVars, toolVars>>

\* What is decided before the first await. declared = 0 is a body without a
\* Content-Length; a declared one is believed only as far as this early refusal.
Admissible(u, declared) ==
  /\ LinkOpen(u)
  /\ Cardinality(rows) < MaxRequestFiles
  /\ DocumentBytes < MaxRequestBytes
  /\ declared <= MaxUploadBytes
  /\ declared > 0 => WithinQuota(u, declared)

Post(u, declared) ==
  /\ pc[u] = "page"
  /\ Goto(u, IF Admissible(u, declared) THEN "admitting" ELSE "refused")
  /\ spent' = [spent EXCEPT ![u] = DocumentBytes]
  /\ UNCHANGED <<sender, claim, got, linkVars, keyVars, rowVars, holdVars, diskVars, agedHolds, passVars, readVars, toolVars>>

\* After mkdir and statfs: enough free space, so a reservation and a spool file.
Admit(u) ==
  /\ pc[u] = "admitting"
  /\ Goto(u, "spooling")
  /\ reserved' = reserved \union {u}
  /\ StartsSpool(Incoming(u))
  /\ UNCHANGED <<sender, claim, got, spent, held, disk, agedFiles, linkVars, keyVars, rowVars, agedHolds, passVars, readVars, toolVars>>

\* Too little space, or an error of mkdir or statfs: nothing is made.
DiskLow(u) ==
  /\ pc[u] = "admitting"
  /\ Goto(u, "refused")
  /\ UNCHANGED <<sender, claim, got, spent, linkVars, keyVars, rowVars, holdVars, diskVars, agedHolds, passVars, readVars, toolVars>>

\* onChunk: the link is looked up and the bytes are reserved before they are written.
Chunk(u) ==
  /\ pc[u] = "spooling"
  /\ got[u] < MaxUploadBytes
  /\ LinkOpen(u)
  /\ u \in reserved
  /\ WithinQuota(u, 1)
  /\ got' = [got EXCEPT ![u] = @ + 1]
  /\ held' = [held EXCEPT ![u] = @ + 1]
  /\ UNCHANGED <<pc, sender, claim, spent, reserved, linkVars, keyVars, rowVars, diskVars, agedHolds, passVars, readVars, toolVars>>

\* spoolBody has rejected: the reservation goes and the sender is answered, with a refusal
\* or, for an error without a status, a 500. The spool file may still be there, or to come.
GiveUp(u, answer) ==
  /\ pc[u] = "spooling"
  /\ Goto(u, answer)
  /\ ReleaseHold(u)
  /\ GivesUp(Incoming(u))
  /\ UNCHANGED <<sender, claim, got, spent, disk, agedFiles, linkVars, keyVars, rowVars, agedHolds, passVars, readVars, toolVars>>

\* The body has ended and is written: empty, link and request-limit checks, up to the
\* header read.
FinishSpool(u) ==
  /\ pc[u] = "spooling"
  /\ Incoming(u) \notin opening
  /\ LET ok == /\ got[u] > 0
               /\ LinkOpen(u)
               /\ spent[u] + got[u] <= MaxRequestBytes
     IN  Goto(u, IF ok THEN "reading" ELSE "dropping")
  /\ UNCHANGED <<sender, claim, got, spent, linkVars, keyVars, rowVars, holdVars, diskVars, agedHolds, passVars, readVars, toolVars>>

\* The header is an envelope or not; the claimed key is one of the practice's,
\* retired or not.
CheckEnvelope(u, isEnvelope) ==
  /\ pc[u] = "reading"
  /\ Goto(u, IF isEnvelope /\ claim[u] \in 1..newest THEN "moving" ELSE "dropping")
  /\ UNCHANGED <<sender, claim, got, spent, linkVars, keyVars, rowVars, holdVars, diskVars, agedHolds, passVars, readVars, toolVars>>

DropSpool(u) ==
  /\ pc[u] = "dropping"
  /\ Goto(u, "releasing")
  /\ disk' = disk \ {Incoming(u)}
  /\ UNCHANGED <<sender, claim, got, spent, agedFiles, callVars, linkVars, keyVars, rowVars, holdVars, agedHolds, passVars, readVars, toolVars>>

Release(u) ==
  /\ pc[u] = "releasing"
  /\ Goto(u, "refused")
  /\ ReleaseHold(u)
  /\ UNCHANGED <<sender, claim, got, spent, linkVars, keyVars, rowVars, diskVars, agedHolds, passVars, readVars, toolVars>>

\* rename keeps the mtime.
Move(u) ==
  /\ pc[u] = "moving"
  /\ Incoming(u) \in disk
  /\ Goto(u, "moved")
  /\ disk' = (disk \ {Incoming(u)}) \union {Bin(u)}
  /\ agedFiles' = {IF f = Incoming(u) THEN Bin(u) ELSE f : f \in agedFiles}
  /\ UNCHANGED <<sender, claim, got, spent, callVars, linkVars, keyVars, rowVars, holdVars, agedHolds, passVars, readVars, toolVars>>

\* mkdir or rename fails: the reservation goes, the spool file stays. ENOSPC is
\* answered with a refusal, anything else with a 500.
MoveFails(u, answer) ==
  /\ pc[u] = "moving"
  /\ Goto(u, answer)
  /\ ReleaseHold(u)
  /\ UNCHANGED <<sender, claim, got, spent, linkVars, keyVars, rowVars, diskVars, agedHolds, passVars, readVars, toolVars>>

\* recordUpload, one transaction. A link closed since rolls it back.
Record(u) ==
  /\ pc[u] = "moved"
  /\ IF LinkOpen(u)
     THEN /\ Goto(u, "stored")
          /\ rows' = rows \union {u}
          /\ size' = [size EXCEPT ![u] = got[u]]
          /\ sealed' = [sealed EXCEPT ![u] = claim[u]]
          /\ stored' = [stored EXCEPT ![u] = u]
          /\ ReleaseHold(u)
     ELSE Goto(u, "undoing") /\ UNCHANGED <<rowVars, holdVars>>
  /\ UNCHANGED <<sender, claim, got, spent, linkVars, keyVars, diskVars, agedHolds, passVars, readVars, toolVars>>

\* An error nobody catches: of reading the header, of decoding the name of the key, of the
\* transaction. The file and the reservation both stay.
Throws(u) ==
  /\ pc[u] \in {"reading", "moved"}
  /\ Goto(u, "failed")
  /\ UNCHANGED <<sender, claim, got, spent, linkVars, keyVars, rowVars, holdVars, diskVars, agedHolds, passVars, readVars, toolVars>>

Undo(u) ==
  /\ pc[u] = "undoing"
  /\ Goto(u, "releasing")
  /\ disk' = disk \ {Bin(u)}
  /\ UNCHANGED <<sender, claim, got, spent, agedFiles, callVars, linkVars, keyVars, rowVars, holdVars, agedHolds, passVars, readVars, toolVars>>

HandlerStep(u) ==
  \/ \E declared \in 0 .. MaxUploadBytes + 1 : Post(u, declared)
  \/ Admit(u) \/ DiskLow(u)
  \/ Chunk(u) \/ \E answer \in {"refused", "failed"} : GiveUp(u, answer)
  \/ FinishSpool(u)
  \/ \E isEnvelope \in BOOLEAN : CheckEnvelope(u, isEnvelope)
  \/ DropSpool(u) \/ Release(u)
  \/ Move(u) \/ \E answer \in {"outOfSpace", "failed"} : MoveFails(u, answer)
  \/ Record(u) \/ Throws(u) \/ Undo(u)

-----------------------------------------------------------------------------
(* One post of the re-encryption pass: reencryptFile. *)

PassGoto(p, state) == passPc' = [passPc EXCEPT ![p] = state]

\* The document is looked up; the browser names the key it sealed the copy to.
StartPass(p, u, k) ==
  /\ passPc[p] = "idle"
  /\ u \in rows
  /\ k \in 1..newest
  /\ PassGoto(p, "admitting")
  /\ moving' = [moving EXCEPT ![p] = u]
  /\ target' = [target EXCEPT ![p] = k]
  /\ UNCHANGED <<previous, linkVars, keyVars, jobVars, rowVars, holdVars, diskVars, agedHolds, readVars, toolVars>>

\* After statfs: refused for space, or the copy is spooled under a name of its own.
AdmitPass(p) ==
  /\ passPc[p] = "admitting"
  /\ \/ /\ PassGoto(p, "refused")
        /\ UNCHANGED callVars
     \/ /\ PassGoto(p, "spooling")
        /\ StartsSpool(Bin(p))
  /\ UNCHANGED <<moving, target, previous, disk, agedFiles, linkVars, keyVars, jobVars, rowVars, holdVars, agedHolds, readVars, toolVars>>

\* The body ends and is written; an empty one is dropped.
FinishPassSpool(p) ==
  /\ passPc[p] = "spooling"
  /\ Bin(p) \notin opening
  /\ \E next \in {"checking", "dropping"} : PassGoto(p, next)
  /\ UNCHANGED <<moving, target, previous, linkVars, keyVars, jobVars, rowVars, holdVars, diskVars, agedHolds, readVars, toolVars>>

\* The body is refused or broken off: spoolBody rejects, and nothing catches it.
GiveUpPass(p) ==
  /\ passPc[p] = "spooling"
  /\ PassGoto(p, "refused")
  /\ GivesUp(Bin(p))
  /\ UNCHANGED <<moving, target, previous, disk, agedFiles, linkVars, keyVars, jobVars, rowVars, holdVars, agedHolds, readVars, toolVars>>

\* Mutant: the path to unlink is the one of the first upload, not the one in the row now.
ReplaceForgetsPath(p, bytes) ==
  /\ passPc[p] = "checking"
  /\ moving[p] \in rows
  /\ target[p] \in Live
  /\ sealed[moving[p]] # target[p]
  /\ PassGoto(p, "unlinking")
  /\ previous' = [previous EXCEPT ![p] = moving[p]]
  /\ stored' = [stored EXCEPT ![moving[p]] = p]
  /\ size' = [size EXCEPT ![moving[p]] = bytes]
  /\ sealed' = [sealed EXCEPT ![moving[p]] = target[p]]
  /\ UNCHANGED <<moving, target, rows, linkVars, keyVars, jobVars, holdVars, diskVars, agedHolds, readVars, toolVars>>

\* After the header read: not an envelope, or replaceUpload, one transaction. The copy
\* may be any size: nothing compares it with the original or with the quota.
ReplaceUpload(p, bytes) ==
  /\ passPc[p] = "checking"
  /\ moving[p] \in rows
  /\ target[p] \in Live
  /\ sealed[moving[p]] # target[p]
  /\ PassGoto(p, "unlinking")
  /\ previous' = [previous EXCEPT ![p] = stored[moving[p]]]
  /\ stored' = [stored EXCEPT ![moving[p]] = p]
  /\ size' = [size EXCEPT ![moving[p]] = bytes]
  /\ sealed' = [sealed EXCEPT ![moving[p]] = target[p]]
  /\ UNCHANGED <<moving, target, rows, linkVars, keyVars, jobVars, holdVars, diskVars, agedHolds, readVars, toolVars>>

\* Refused, or ended by an error nobody catches, which leaves the copy.
RefusePass(p) ==
  /\ passPc[p] = "checking"
  /\ \E next \in {"dropping", "dead"} : PassGoto(p, next)
  /\ UNCHANGED <<moving, target, previous, linkVars, keyVars, jobVars, rowVars, holdVars, diskVars, agedHolds, readVars, toolVars>>

\* Mutant: a refused pass removes the document's file instead of its own copy.
DropOriginal(p) ==
  /\ passPc[p] = "dropping"
  /\ PassGoto(p, "refused")
  /\ disk' = disk \ {Bin(stored[moving[p]])}
  /\ UNCHANGED <<moving, target, previous, agedFiles, callVars, linkVars, keyVars, jobVars, rowVars, holdVars, agedHolds, readVars, toolVars>>

DropCopy(p) ==
  /\ passPc[p] = "dropping"
  /\ PassGoto(p, "refused")
  /\ disk' = disk \ {Bin(p)}
  /\ UNCHANGED <<moving, target, previous, agedFiles, callVars, linkVars, keyVars, jobVars, rowVars, holdVars, agedHolds, readVars, toolVars>>

\* The old bytes go last, once the row no longer points at them.
UnlinkPrevious(p) ==
  /\ passPc[p] = "unlinking"
  /\ PassGoto(p, "replaced")
  /\ disk' = disk \ {Bin(previous[p])}
  /\ UNCHANGED <<moving, target, previous, agedFiles, callVars, linkVars, keyVars, jobVars, rowVars, holdVars, agedHolds, readVars, toolVars>>

PassStep(p) ==
  \/ AdmitPass(p) \/ FinishPassSpool(p) \/ GiveUpPass(p)
  \/ \E bytes \in 1..MaxUploadBytes : ReplaceUpload(p, bytes)
  \/ RefusePass(p) \/ DropCopy(p) \/ UnlinkPrevious(p)

-----------------------------------------------------------------------------
(* One download: serveEnvelope. *)

ReadGoto(r, state) == readPc' = [readPc EXCEPT ![r] = state]

StartRead(r, u) ==
  /\ readPc[r] = "idle"
  /\ u \in rows
  /\ ReadGoto(r, "statting")
  /\ reading' = [reading EXCEPT ![r] = stored[u]]
  /\ UNCHANGED <<linkVars, keyVars, jobVars, rowVars, holdVars, diskVars, agedHolds, passVars, toolVars>>

\* Found: the read stream is created and "file.opened" is recorded, with the open of
\* the file itself still to come. Not found: the page says the disk was changed.
StatFile(r) ==
  /\ readPc[r] = "statting"
  /\ ReadGoto(r, IF Bin(reading[r]) \in disk THEN "opening" ELSE "missing")
  /\ UNCHANGED <<reading, linkVars, keyVars, jobVars, rowVars, holdVars, diskVars, agedHolds, passVars, toolVars>>

StreamFile(r) ==
  /\ readPc[r] = "opening"
  /\ Bin(reading[r]) \in disk
  /\ ReadGoto(r, "served")
  /\ UNCHANGED <<reading, linkVars, keyVars, jobVars, rowVars, holdVars, diskVars, agedHolds, passVars, toolVars>>

-----------------------------------------------------------------------------
(* The process and the day. *)

\* Every handler on the stack is gone, and what it asked of the file system with it; what
\* is on disk and in the database stays.
HandlersDie ==
  /\ pc' = [u \in Upload |-> IF pc[u] \in Running THEN "dead" ELSE pc[u]]
  /\ passPc' = [p \in Pass |-> IF passPc[p] \in PassRunning THEN "dead" ELSE passPc[p]]
  /\ opening' = {}
  /\ unlinking' = {}
  /\ missed' = (missed \union unlinking) \intersect disk
  /\ UNCHANGED <<sender, claim, got, spent, moving, target, previous, disk, agedFiles, linkVars, keyVars, rowVars, holdVars, agedHolds, toolVars>>

Crash ==
  /\ Busy
  /\ HandlersDie
  /\ readPc' = [r \in Reader |-> IF readPc[r] \in ReadRunning THEN "dead" ELSE readPc[r]]
  /\ UNCHANGED reading

\* The stream's open fails after the stat found the file. Nothing listens for the
\* stream's error event, so it ends the process.
StreamBreaks(r) ==
  /\ readPc[r] = "opening"
  /\ Bin(reading[r]) \notin disk
  /\ HandlersDie
  /\ readPc' = [x \in Reader |-> IF x = r THEN "broken" ELSE IF readPc[x] \in ReadRunning THEN "dead" ELSE readPc[x]]
  /\ UNCHANGED reading

\* The age a run asks for, a day unless an operator says otherwise and never less than
\* an hour: longer than any handler lives (requestTimeout is five minutes) and than a
\* reconciliation run, so neither spans it.
DayPasses ==
  /\ ~Busy
  /\ tool = "idle"
  /\ <<agedFiles, agedHolds>> # <<disk, reserved>>
  /\ agedFiles' = disk
  /\ agedHolds' = reserved
  /\ UNCHANGED <<disk, callVars, linkVars, keyVars, jobVars, rowVars, holdVars, passVars, readVars, toolVars>>

-----------------------------------------------------------------------------
(* reconcileTenantUploads, in a process of its own: an operator may run it by  *)
(* hand with the server up, the nightly timer runs it with the server stopped. *)

\* Both tables are read before the first await.
ReadTables ==
  /\ tool = "idle"
  /\ tool' = "scanning"
  /\ referenced' = {Bin(stored[u]) : u \in rows}
  /\ pending' = reserved
  /\ UNCHANGED <<candidates, stale, linkVars, keyVars, jobVars, rowVars, holdVars, diskVars, agedHolds, passVars, readVars>>

OldFiles == disk \intersect agedFiles
\* Mutant: a reservation whose file remains is never stale.
EmptyHolds == {o \in pending \intersect agedHolds : {Incoming(o), Bin(o)} \intersect disk = {}}

StaleHolds == {o \in pending \intersect agedHolds :
                  {Incoming(o), Bin(o)} \intersect disk \subseteq agedFiles}

Orphans == {f \in OldFiles \ referenced : f[2] \in pending => f[2] \in StaleHolds}

\* The walk. Without --apply the run only reports.
ScanBlobs(apply) ==
  /\ tool = "scanning"
  /\ tool' = IF apply THEN "deleting" ELSE "idle"
  /\ candidates' = IF apply THEN Orphans ELSE {}
  /\ stale' = IF apply THEN StaleHolds ELSE {}
  /\ referenced' = {}
  /\ pending' = {}
  /\ UNCHANGED <<linkVars, keyVars, jobVars, rowVars, holdVars, diskVars, agedHolds, passVars, readVars>>

\* Every unlink is awaited. One that finds its file gone ends the run, and the stale
\* reservations stay for the next one.
UnlinkOrphan(f) ==
  /\ tool = "deleting"
  /\ f \in candidates
  /\ IF f \in disk
     THEN /\ disk' = disk \ {f}
          /\ missed' = missed \ {f}
          /\ candidates' = candidates \ {f}
          /\ UNCHANGED <<tool, stale>>
     ELSE /\ tool' = "idle"
          /\ candidates' = {}
          /\ stale' = {}
          /\ UNCHANGED <<disk, missed>>
  /\ UNCHANGED <<referenced, pending, agedFiles, opening, unlinking, linkVars, keyVars, jobVars, rowVars, holdVars, agedHolds, passVars, readVars>>

DropStaleHolds ==
  /\ tool = "deleting"
  /\ candidates = {}
  /\ tool' = "idle"
  /\ reserved' = reserved \ stale
  /\ held' = [u \in Upload |-> IF u \in stale THEN 0 ELSE held[u]]
  /\ stale' = {}
  /\ UNCHANGED <<candidates, referenced, pending, linkVars, keyVars, jobVars, rowVars, diskVars, agedHolds, passVars, readVars>>

\* The run is killed, or a file it listed is gone when it asks for its mtime.
ToolFails ==
  /\ tool # "idle"
  /\ tool' = "idle"
  /\ referenced' = {}
  /\ pending' = {}
  /\ candidates' = {}
  /\ stale' = {}
  /\ UNCHANGED <<linkVars, keyVars, jobVars, rowVars, holdVars, diskVars, agedHolds, passVars, readVars>>

ToolStep ==
  \/ ReadTables \/ ScanBlobs(TRUE)
  \/ \E f \in Path : UnlinkOrphan(f)
  \/ DropStaleHolds

-----------------------------------------------------------------------------
Practising ==
  \/ \E l \in Link : IssueLink(l) \/ ExpireLink(l) \/ RevokeLink(l)
  \/ AddKey
  \/ \E k \in Key : RetireKey(k)

Next ==
  \/ Practising
  \/ \E u \in Upload, s \in Sender : OpenPage(u, s)
  \/ \E u \in Upload : HandlerStep(u)
  \/ \E f \in Path : OpenSpool(f) \/ UnlinkSpool(f)
  \/ \E p \in Pass, u \in Upload, k \in Key : StartPass(p, u, k)
  \/ \E p \in Pass : PassStep(p)
  \/ \E r \in Reader, u \in Upload : StartRead(r, u)
  \/ \E r \in Reader : StatFile(r) \/ StreamFile(r) \/ StreamBreaks(r)
  \/ Crash
  \/ DayPasses
  \/ ToolStep \/ ScanBlobs(FALSE) \/ ToolFails

Spec == Init /\ [][Next]_vars

-----------------------------------------------------------------------------
(* Properties. *)

\* Files that take up disk and are no document.
Waste == {f \in disk : \A u \in rows : f # Bin(stored[u])}

TypeOK ==
  /\ links \in [Link -> {"unissued", "open", "expired", "revoked"}]
  /\ newest \in 0..MaxKey
  /\ retired \subseteq Key
  /\ pc \in [Upload -> UploadState]
  /\ sender \in [Upload -> Sender \union {None}]
  /\ claim \in [Upload -> 0..MaxKey]
  /\ got \in [Upload -> 0..MaxUploadBytes]
  /\ spent \in [Upload -> Nat]
  /\ rows \subseteq Upload
  /\ size \in [Upload -> 0..MaxUploadBytes]
  /\ sealed \in [Upload -> 0..MaxKey]
  /\ stored \in [Upload -> Owner \union {None}]
  /\ reserved \subseteq Upload
  /\ held \in [Upload -> Nat]
  /\ disk \subseteq Path
  /\ agedFiles \subseteq Path
  /\ opening \subseteq Path /\ unlinking \subseteq Path /\ missed \subseteq Path
  /\ agedHolds \subseteq Upload
  /\ passPc \in [Pass -> PassState]
  /\ moving \in [Pass -> Upload \union {None}]
  /\ target \in [Pass -> 0..MaxKey]
  /\ previous \in [Pass -> Owner \union {None}]
  /\ readPc \in [Reader -> ReadState]
  /\ reading \in [Reader -> Owner \union {None}]
  /\ tool \in {"idle", "scanning", "deleting"}
  /\ referenced \subseteq {"bin"} \X (Owner \union {None})
  /\ pending \subseteq Upload
  /\ candidates \subseteq Path
  /\ stale \subseteq Upload

(* A document the practice holds can always be read from disk: whatever a      *)
(* crash, a re-encryption pass or a reconciliation run removes, it is never    *)
(* the file an upload row points at.                                           *)
RowsHaveFiles == \A u \in rows : Bin(stored[u]) \in disk

(* A file that no row refers to is one a running handler still has to deal     *)
(* with, one that a crash or a failed call left, or a spool file whose unlink  *)
(* is on its way or came too early: uploads and passes that ended otherwise,   *)
(* however they raced, strand nothing.                                         *)
NothingStranded ==
  \A f \in Waste :
    \/ f[2] \in Upload /\ pc[f[2]] \in Running \union {"outOfSpace", "failed", "dead"}
    \/ f[2] \in Pass /\ passPc[f[2]] \in {"spooling", "checking", "dropping", "dead"}
    \/ f \in unlinking \union missed
    \/ \E q \in Pass : previous[q] = f[2] /\ passPc[q] \in {"unlinking", "dead"}

(* A download that finds no file is one that lost a race with a re-encryption  *)
(* pass: no row points at the file it looked for any more.                     *)
MissesOnlyMovedFiles ==
  \A r \in Reader : readPc[r] \in {"missing", "broken"} => \A u \in rows : stored[u] # reading[r]

(* Until the handler moves or drops it, an accepted body stays where the       *)
(* handler left it, with the reservation that accounts for its bytes: nothing  *)
(* else, in particular no reconciliation run, takes either away.               *)
SpoolIsHeld ==
  \A u \in Upload :
    /\ pc[u] = "spooling" => Incoming(u) \in disk \union opening
    /\ pc[u] \in {"reading", "moving"} => Incoming(u) \in disk
    /\ pc[u] = "moved" => Bin(u) \in disk
    /\ pc[u] \in {"spooling", "reading", "moving", "moved"} => u \in reserved /\ held[u] = got[u]

(* An upload that was answered with a refusal has no row, no reservation and   *)
(* no stored file, and a spool file only while its unlink is on its way or     *)
(* because that unlink came before the file did, or died with the process:     *)
(* every way acceptEnvelope has to refuse undoes what the ways before it made. *)
RefusalsAreUndone ==
  \A u \in Upload : pc[u] = "refused" =>
    /\ u \notin rows
    /\ u \notin reserved
    /\ Bin(u) \notin disk
    /\ Incoming(u) \in disk => Incoming(u) \in unlinking \union missed

(* No step takes away a document that could be opened: not retiring a key      *)
(* while a pass is moving files to it, not the pass itself.                    *)
NothingBecomesUnopenable ==
  [][\A u \in rows : sealed[u] \notin retired => u \in rows' /\ sealed'[u] \notin retired']_vars

(* Uploads through a link, however many run at once, never take the practice   *)
(* past its quota, accepted bytes and bytes still arriving together.           *)
LinksWithinQuota ==
  [][\A u \in Upload :
       HandlerStep(u) /\ sender[u] \in Link /\ LogicalBytes' > LogicalBytes
         => LogicalBytes' <= MaxStorageBytes]_vars

(* An upload is recorded past the request's limit only when what the request   *)
(* holds has grown since its handler read the total, before the body came: the *)
(* comparison with the total read then lets nothing else past.                 *)
LimitPassedOnlyUnknowing ==
  [][\A u \in Upload :
       u \in rows' \ rows /\ DocumentBytes' > MaxRequestBytes => DocumentBytes > spent[u]]_vars

-----------------------------------------------------------------------------
(* The promise to the sender, and how this state shows it. *)

Answer == [u \in Upload |->
  CASE pc[u] = "stored"                     -> "accepted"
    [] pc[u] \in {"refused", "outOfSpace"}  -> "refused"
    [] pc[u] \in {"failed", "dead"}         -> "unknown"
    [] OTHER                                -> "none"]
Kept == {u \in rows : Bin(stored[u]) \in disk}

Custody == INSTANCE DocumentCustody WITH answer <- Answer, kept <- Kept

(* An accepted upload is a document from then on, a refused one never is, and  *)
(* neither re-encryption, nor a crash, nor a reconciliation run changes that.  *)
KeepsCustody == Custody!Spec

-----------------------------------------------------------------------------
(* The inductive invariant: which files and reservations can exist while an    *)
(* upload or a pass stands where it stands.                                    *)

Finished     == {"refused", "stored", "outOfSpace", "failed", "dead"}
PassFinished == {"replaced", "refused", "dead"}

\* The key that the next page is served with is not a retired one.
KeysOrdered == retired \subseteq 1..newest /\ newest \notin retired

RowsAreStored == \A u \in Upload : u \in rows <=> pc[u] = "stored"

\* An upload is charged for its row or for its reservation, never for both.
ChargedOnce ==
  \A u \in Upload :
    /\ pc[u] \in {"idle", "page", "admitting"} => got[u] = 0
    /\ u \notin rows => size[u] = 0
    /\ u \notin reserved => held[u] = 0
    /\ u \in reserved => pc[u] \in {"spooling", "reading", "dropping", "releasing",
                                    "moving", "moved", "undoing", "failed", "dead"}

FilesInPlace ==
  /\ \A u \in Upload :
       /\ Incoming(u) \in disk => \/ pc[u] \in {"spooling", "reading", "dropping", "moving",
                                                "outOfSpace", "failed", "dead"}
                                  \/ pc[u] = "refused" /\ Incoming(u) \in unlinking \union missed
       /\ Bin(u) \in disk => pc[u] \in {"moved", "undoing", "stored", "failed", "dead"}
  /\ \A p \in Pass :
       /\ Incoming(p) \notin disk
       /\ Bin(p) \in disk => passPc[p] \notin {"idle", "admitting"}
       /\ passPc[p] = "spooling" => Bin(p) \in disk \union opening
       /\ passPc[p] = "checking" => Bin(p) \in disk

\* The open and the unlink of a spool file that nobody waits for.
CallsInPlace ==
  /\ opening \intersect disk = {}
  /\ \A u \in Upload :
       /\ Bin(u) \notin opening \union unlinking \union missed
       /\ Incoming(u) \in opening => pc[u] \in {"spooling", "refused", "failed"}
       /\ Incoming(u) \in unlinking => pc[u] \in {"refused", "failed"}
       /\ pc[u] = "refused" /\ Incoming(u) \in opening => Incoming(u) \in unlinking \union missed
  /\ \A p \in Pass :
       /\ Incoming(p) \notin opening
       /\ Bin(p) \in opening => passPc[p] \in {"spooling", "refused"}
       /\ Bin(p) \in unlinking => passPc[p] = "refused"
       /\ passPc[p] = "refused" /\ Bin(p) \in opening => Bin(p) \in unlinking \union missed

\* A row points at its own first file or at the copy of a pass that moved it.
RowsPointAtTheirOwn ==
  \A u \in rows :
    \/ stored[u] = u
    \/ /\ stored[u] \in Pass
       /\ moving[stored[u]] = u
       /\ passPc[stored[u]] \in {"unlinking", "replaced", "dead"}

\* What a pass is about to unlink is a file some row has left.
PreviousIsLeft ==
  \A p \in Pass : passPc[p] = "unlinking" =>
    /\ \/ previous[p] \in Upload /\ pc[previous[p]] = "stored"
       \/ previous[p] \in Pass /\ passPc[previous[p]] \in {"unlinking", "replaced", "dead"}
    /\ \A u \in rows : stored[u] # previous[p]

\* A day-old file or reservation belongs to no handler.
AgedIsFinished ==
  /\ \A u \in Upload :
       (Incoming(u) \in agedFiles \/ Bin(u) \in agedFiles \/ u \in agedHolds) => pc[u] \in Finished
  /\ \A p \in Pass : Bin(p) \in agedFiles => passPc[p] \in PassFinished

\* The run's snapshot is good enough for the files it may touch.
SnapshotIsSound ==
  /\ tool = "scanning" =>
       \A u \in rows : Bin(stored[u]) \in referenced \/ Bin(stored[u]) \notin agedFiles
  /\ tool = "deleting" =>
       /\ candidates \subseteq agedFiles
       /\ \A u \in rows : Bin(stored[u]) \notin candidates
       /\ stale \subseteq agedHolds

IInv ==
  /\ TypeOK
  /\ KeysOrdered
  /\ RowsAreStored
  /\ ChargedOnce
  /\ SpoolIsHeld
  /\ FilesInPlace
  /\ CallsInPlace
  /\ RowsHaveFiles
  /\ RowsPointAtTheirOwn
  /\ PreviousIsLeft
  /\ AgedIsFinished
  /\ SnapshotIsSound

\* A download looks for a file that some row has pointed at.
ReadersKnowRows ==
  \A r \in Reader : readPc[r] # "idle" =>
    \/ reading[r] \in Upload /\ pc[reading[r]] = "stored"
    \/ reading[r] \in Pass /\ passPc[reading[r]] \in {"unlinking", "replaced", "dead"}

\* Inductive relative to IInv.
StrayInv == NothingStranded /\ ReadersKnowRows /\ MissesOnlyMovedFiles

\* A body that was let past the comparison still fits the total its handler read.
FitsWhatWasRead ==
  \A u \in Upload : pc[u] \in {"reading", "moving", "moved"} => spent[u] + got[u] <= MaxRequestBytes

-----------------------------------------------------------------------------
(* Liveness. The file system answers, handlers that wait and none, and the     *)
(* request timeout ends a body that stops; the day passes; and of the runs     *)
(* with --apply that the nightly timer keeps starting, not every one is killed *)
(* at the same place.                                                          *)

Proceed(u) == HandlerStep(u) /\ pc[u] \in Running /\ ~Chunk(u)

Fairness ==
  /\ \A u \in Upload : WF_vars(Proceed(u))
  /\ \A p \in Pass : WF_vars(PassStep(p))
  /\ WF_vars(\E f \in Path : OpenSpool(f) \/ UnlinkSpool(f))
  /\ \A r \in Reader : WF_vars(StatFile(r) \/ StreamFile(r) \/ StreamBreaks(r))
  /\ SF_vars(DayPasses)
  /\ WF_vars(ReadTables)
  /\ SF_vars(ScanBlobs(TRUE))
  /\ SF_vars(\E f \in Path : UnlinkOrphan(f))
  /\ SF_vars(DropStaleHolds)

FairSpec == Spec /\ Fairness

(* A file that no row refers to and a reservation that no handler works under  *)
(* are both gone in the end, whatever crash or failure left them.              *)
LeftoversReclaimed == []<>(Waste = {} /\ reserved = {})
=============================================================================
