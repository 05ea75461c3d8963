---------------------------- MODULE PracticeCopies ----------------------------
(***************************************************************************)
(* Copies of one practice made while its server runs: the backup           *)
(* (src/tools/backup-lib.mjs, backup.mjs, and the fleet's, with a digest   *)
(* of every file), the owner's export (src/src/tenancy/practice-export.js) *)
(* and its restore.  Of the live practice there is what moves files and    *)
(* rows: an upload, and the pass that seals a document to another key.     *)
(* A file is named by the document it was made for and a number: 0 is the  *)
(* upload's own `<row id>.bin`, the rest are names the pass minted.        *)
(***************************************************************************)
EXTENDS Integers, FiniteSets

CONSTANTS
    Document,     \* documents that may arrive
    Copy,         \* runs of the tools
    Kinds,        \* which of "backup", "fleet" and "export" they may be
    MaxMoves,     \* bound: times a document is sealed anew
    MaxLosses     \* bound: files lost from copies afterwards

ASSUME CopyBounds == MaxMoves \in Nat /\ MaxLosses \in Nat
ASSUME DocumentsAssumption == IsFiniteSet(Document)

VARIABLES
    path,       \* path[u]: which of u's files its row names, Spool before it has a row
    files,      \* what is under blobs/
    growing,    \* of those, the ones still being written
    copy,       \* copy[c]: what run c has read and written
    losses

live == <<path, files, growing>>
copiesVars == <<live, copy, losses>>

Spool           == -1            \* `<id>.incoming`
AnyFile         == Document \X (Spool .. MaxMoves)
Recorded(names) == {u \in Document : names[u] # Spool}
Named(names)    == {<<u, names[u]>> : u \in Recorded(names)}

Fresh == [at |-> "idle", kind |-> "none", held |-> {}, rows |-> [u \in Document |-> Spool],
          todo |-> {}, took |-> {}, here |-> {}, torn |-> {}, manifest |-> "none"]

Reading == {"open", "snapped", "copying"}
Running == Reading \cup {"stripping"}

\* Mutant: BEGIN instead of BEGIN IMMEDIATE.
NobodyWaits == TRUE

\* An export holds the writer lock from before its snapshot until its last copy.
Unlocked == \A c \in Copy : ~(copy[c].kind = "export" /\ copy[c].at \in Reading)

-----------------------------------------------------------------------------
(* The live practice. *)

Arrive(u) ==
    /\ path[u] = Spool
    /\ \A n \in Spool .. MaxMoves : <<u, n>> \notin files
    /\ files' = files \cup {<<u, Spool>>}
    /\ growing' = growing \cup {<<u, Spool>>}
    /\ UNCHANGED <<path, copy, losses>>

Place(u) ==
    /\ <<u, Spool>> \in files
    /\ files' = (files \ {<<u, Spool>>}) \cup {<<u, 0>>}
    /\ growing' = growing \ {<<u, Spool>>}
    /\ UNCHANGED <<path, copy, losses>>

Record(u) ==
    /\ Unlocked
    /\ path[u] = Spool /\ <<u, 0>> \in files
    /\ path' = [path EXCEPT ![u] = 0]
    /\ UNCHANGED <<files, growing, copy, losses>>

\* reencryptFile: a file of its own, the row moved, the old file unlinked.
Reseal(u) ==
    /\ path[u] \in 0 .. MaxMoves - 1
    /\ <<u, path[u] + 1>> \notin files
    /\ files' = files \cup {<<u, path[u] + 1>>}
    /\ growing' = growing \cup {<<u, path[u] + 1>>}
    /\ UNCHANGED <<path, copy, losses>>

Replace(u) ==
    /\ Unlocked
    /\ <<u, path[u] + 1>> \in growing /\ path[u] # Spool
    /\ growing' = growing \ {<<u, path[u] + 1>>}
    /\ path' = [path EXCEPT ![u] = @ + 1]
    /\ UNCHANGED <<files, copy, losses>>

Unlink(u) ==
    /\ \E n \in 0 .. path[u] - 1 :
          <<u, n>> \in files /\ files' = files \ {<<u, n>>}
    /\ UNCHANGED <<path, growing, copy, losses>>

-----------------------------------------------------------------------------
(* takeBackup, alone or inside createPracticeExport. *)

GoesOn(c, from, new) == copy[c].at = from /\ copy' = [copy EXCEPT ![c] = new]

\* The export takes the lock and reads which files the rows name.
Start(c, kind) ==
    /\ GoesOn(c, "idle", [Fresh EXCEPT !.at = "open", !.kind = kind, !.held = Named(path)])
    /\ kind = "export" => Unlocked
    /\ UNCHANGED <<live, losses>>

\* VACUUM INTO: every row there is, at one moment.
VacuumInto(c) ==
    /\ GoesOn(c, "open", [copy[c] EXCEPT !.at = "snapped", !.rows = path])
    /\ UNCHANGED <<live, losses>>

List(c) ==
    /\ GoesOn(c, "snapped", [copy[c] EXCEPT !.at = "copying",
               !.todo = IF copy[c].kind = "export" THEN files \cap copy[c].held ELSE files])
    /\ UNCHANGED <<live, losses>>

\* lstat, copyFile and, for a fleet, a digest of the source: a file that grew
\* in between has another digest than its copy, one that is gone ends the run.
CopyFile(c) ==
    /\ \E f \in copy[c].todo :
          LET next == [copy[c] EXCEPT !.todo = @ \ {f}, !.took = @ \cup {f}, !.here = @ \cup {f}] IN
          \/ f \in files /\ GoesOn(c, "copying", next)
          \/ f \in growing /\ GoesOn(c, "copying", [next EXCEPT !.torn = @ \cup {f}])
          \/ f \notin files /\ GoesOn(c, "copying", [copy[c] EXCEPT !.at = "failed"])
    /\ UNCHANGED <<live, losses>>

\* The manifest is the last thing written.  An export goes on: it counts what
\* was copied, releases the lock, and empties its database of live secrets.
Describe(c) ==
    /\ copy[c].todo = {}
    /\ GoesOn(c, "copying", [copy[c] EXCEPT !.manifest = "backup",
           !.at = IF copy[c].kind # "export" THEN "made"
                  ELSE IF Cardinality(copy[c].took) = Cardinality(copy[c].held) THEN "stripping"
                  ELSE "failed"])
    /\ UNCHANGED <<live, losses>>

Seal(c) ==
    /\ GoesOn(c, "stripping", [copy[c] EXCEPT !.at = "made", !.manifest = "export"])
    /\ UNCHANGED <<live, losses>>

Crash(c) ==
    /\ copy[c].at \in Running
    /\ GoesOn(c, copy[c].at, [copy[c] EXCEPT !.at = "failed"])
    /\ UNCHANGED <<live, losses>>

\* What happens to a copy on its way to wherever it is kept.
Lose(c) ==
    /\ losses < MaxLosses /\ losses' = losses + 1
    /\ copy[c].at \in {"made", "failed"}
    /\ \E f \in copy[c].here : GoesOn(c, copy[c].at, [copy[c] EXCEPT !.here = @ \ {f}])
    /\ UNCHANGED live

-----------------------------------------------------------------------------
(* What the verifiers accept. *)

\* Mutant: a description and the digests are enough.
WellDescribed(k) ==
    k.manifest = "backup" /\ (k.kind = "fleet" => k.took \subseteq k.here /\ k.torn = {})

\* verifyBackup: the last two segments of every row's path are in the copy,
\* and where the manifest lists digests every listed file is there with its own.
BackupVerifies(k) ==
    /\ k.manifest = "backup"
    /\ Named(k.rows) \subseteq k.here
    /\ k.kind = "fleet" => k.took \subseteq k.here /\ k.torn = {}

\* verifyPracticeExport: every file that is declared and no other, and for each
\* row the file `<request>/<row id>.bin`, which the row must also name.
ExportVerifies(k) ==
    /\ k.manifest = "export" /\ k.took = k.here
    /\ \A u \in Recorded(k.rows) : <<u, 0>> \in k.here /\ k.rows[u] = 0

\* restorePracticeExport: the rows are pointed at `<request>/<row id>.bin`.
Restore(c) ==
    /\ ExportVerifies(copy[c])
    /\ GoesOn(c, "made", [copy[c] EXCEPT !.at = "restored",
           !.rows = [u \in Document |-> IF @[u] = Spool THEN Spool ELSE 0]])
    /\ UNCHANGED <<live, losses>>

-----------------------------------------------------------------------------
CopiesInit ==
    /\ path = [u \in Document |-> Spool]
    /\ files = {} /\ growing = {}
    /\ copy = [c \in Copy |-> Fresh]
    /\ losses = 0

CopiesNext ==
    \/ \E u \in Document :
          Arrive(u) \/ Place(u) \/ Record(u) \/ Reseal(u) \/ Replace(u) \/ Unlink(u)
    \/ \E c \in Copy :
          \/ \E kind \in Kinds : Start(c, kind)
          \/ VacuumInto(c) \/ List(c) \/ CopyFile(c) \/ Describe(c) \/ Seal(c)
          \/ Crash(c) \/ Lose(c) \/ Restore(c)

CopiesSpec == CopiesInit /\ [][CopiesNext]_copiesVars

-----------------------------------------------------------------------------
CopiesTypeOK ==
    /\ path \in [Document -> Spool .. MaxMoves]
    /\ growing \subseteq files /\ files \subseteq AnyFile
    /\ copy \in [Copy -> [at       : Running \cup {"idle", "made", "failed", "restored"},
                          kind     : Kinds \cup {"none"},
                          rows     : [Document -> Spool .. MaxMoves],
                          held     : SUBSET AnyFile, todo : SUBSET AnyFile,
                          took     : SUBSET AnyFile, here : SUBSET AnyFile,
                          torn     : SUBSET AnyFile,
                          manifest : {"none", "backup", "export"}]]
    /\ losses \in 0 .. MaxLosses

Intact(k) == Named(k.rows) \subseteq k.here \ k.torn

\* A copy the verifier accepts has every document its database names, complete,
\* whatever was uploaded or sealed anew while it was made, wherever the run was
\* cut short, and whatever has gone from the copy since.
VerifiedIsWhole ==
    \A c \in Copy : BackupVerifies(copy[c]) => Intact(copy[c])

\* An export has every document of the practice at one moment: nothing the
\* server did meanwhile is in its rows and not among its files.
ExportIsWhole ==
    \A c \in Copy : copy[c].at = "made" /\ copy[c].kind = "export"
        => Named(copy[c].rows) = copy[c].took /\ copy[c].torn = {}

===============================================================================
