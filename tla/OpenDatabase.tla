---------------------------- MODULE OpenDatabase ----------------------------
(***************************************************************************)
(* Opening a practice's database (src/db.js): the schema, the migrations      *)
(* that bring an older database up to it, and the sweep.  The server opens    *)
(* it, and so does every operator's tool, so two openings may interleave;     *)
(* each statement outside a transaction is a step, a transaction is one step, *)
(* and the process may end between any two.  An older release, put back for   *)
(* a while, goes on writing rows the way it did.                              *)
(* Columns that carry nothing but a default are one: practice_id stands for   *)
(* the loop that adds them.                                                   *)
(***************************************************************************)
EXTENDS Naturals, FiniteSets

CONSTANTS
  Person,       \* rows of practitioner
  Client,
  Upload,       \* rows of upload
  Opener,       \* processes that open the database
  MaxPractices, \* bound on the practices made
  MaxKeys,      \* bound on the rows of practice_key
  MaxCrashes

ASSUME OpenBounds == MaxPractices \in Nat /\ MaxKeys \in Nat /\ MaxCrashes \in Nat
ASSUME RowsAreFinite == IsFiniteSet(Person) /\ IsFiniteSet(Upload)

Practice == 1 .. MaxPractices
NoPractice == 0

VARIABLES
  columns,      \* what the tables look like
  practiceOf,   \* practitioner.practice_id
  keyColumn,    \* practitioners whose one key is in columns of their own
  keys,         \* practice_key
  wrappings,    \* key_wrapping
  clients,      \* client: who made it, its practice, and whether a put-back release wrote it
  uploads,      \* upload: each is none, by its item, says its request, or nobody asked for it
  opening,      \* each opener: its step and what it has read
  practices,    \* practices made so far
  crashes,
  together,     \* two openings were past the same check at once
  opened        \* an opening has completed

rowVars == <<practiceOf, keyColumn, keys, wrappings, clients, uploads, practices>>
openVars == <<columns, practiceOf, keyColumn, keys, wrappings, clients, uploads,
              opening, practices, crashes, together, opened>>

Closed == [at |-> "closed", read |-> {}]

\* A database of a release before practices: with the first one's key in columns, or with a history
\* of keys; somebody's clients and documents in it.
OpenInit ==
  /\ keyColumn \in SUBSET Person
  /\ columns = {"invites hold a key", "uploads by item", "sessions have a practice"}
               \union (IF keyColumn = {} THEN {} ELSE {"one key each"})
  /\ practiceOf = [p \in Person |-> NoPractice]
  /\ \E p \in Person :
       keys = IF keyColumn # {} THEN {} ELSE {[n |-> 1, by |-> p, practice |-> NoPractice]}
  /\ wrappings = {}
  /\ \E by \in [Client -> Person] :
       clients = [c \in Client |-> [by |-> by[c], practice |-> NoPractice, late |-> FALSE]]
  /\ uploads \in [Upload -> {"none", "by its item"}]
  /\ opening = [o \in Opener |-> Closed]
  /\ practices = 0 /\ crashes = 0 /\ together = FALSE /\ opened = FALSE

Step(o, from, to) ==
  /\ opening[o].at = from
  /\ opening' = [opening EXCEPT ![o] = [at |-> to, read |-> {}]]

Reads(o, from, to, rows) ==
  /\ opening[o].at = from
  /\ opening' = [opening EXCEPT ![o] = [at |-> to, read |-> rows]]

Busy == {o \in Opener : opening[o].at \notin {"closed", "open"}}

-----------------------------------------------------------------------------
(* The steps of an opening, in their order. *)

\* CREATE TABLE IF NOT EXISTS: nothing an older table has is touched.
ExecSchema(o) ==
  /\ Step(o, "closed", "keys")
  /\ together' = (together \/ Busy # {})
  /\ UNCHANGED <<columns, rowVars, crashes, opened>>

\* Whether the key columns are there, and what is in them.
ReadKeyColumns(o) ==
  /\ IF "one key each" \in columns THEN Reads(o, "keys", "carrying keys", keyColumn)
                                   ELSE Step(o, "keys", "columns")
  /\ UNCHANGED <<columns, rowVars, crashes, together, opened>>

\* One row of practice_key, in no transaction.
CarryKey(o) ==
  /\ opening[o].at = "carrying keys" /\ opening[o].read # {}
  /\ Cardinality(keys) < MaxKeys
  /\ \E p \in opening[o].read :
       /\ keys' = keys \union {[n |-> Cardinality(keys) + 1, by |-> p, practice |-> NoPractice]}
       /\ opening' = [opening EXCEPT ![o].read = @ \ {p}]
  /\ UNCHANGED <<columns, practiceOf, keyColumn, wrappings, clients, uploads, practices,
                 crashes, together, opened>>

\* Mutant: the columns go first, and their values with them.
WhenRead(o) == opening[o].at = "carrying keys"

\* Every key that was read has been carried.
WhenCarried(o) == opening[o].at = "carrying keys" /\ opening[o].read = {}

DropKeyColumns(o) ==
  /\ WhenCarried(o)
  /\ "one key each" \in columns
  /\ columns' = columns \ {"one key each"} /\ keyColumn' = {}
  /\ opening' = [opening EXCEPT ![o] = [at |-> "columns", read |-> {}]]
  /\ UNCHANGED <<practiceOf, keys, wrappings, clients, uploads, practices, crashes, together, opened>>

\* A second opener finds the columns gone: its statement fails, and so does its opening.
DropFails(o) ==
  /\ WhenCarried(o) /\ "one key each" \notin columns
  /\ opening' = [opening EXCEPT ![o] = Closed]
  /\ UNCHANGED <<columns, rowVars, crashes, together, opened>>

AddColumns(o) ==
  /\ Step(o, "columns", "tenancy")
  /\ columns' = columns \union {"practice_id"}
  /\ UNCHANGED <<rowVars, crashes, together, opened>>

Orphans == {p \in Person : practiceOf[p] = NoPractice}

\* They are read before the transaction begins; none, and it never does.
ReadOrphans(o) ==
  /\ IF Orphans = {} THEN Step(o, "tenancy", "invites") ELSE Reads(o, "tenancy", "adopting", Orphans)
  /\ UNCHANGED <<columns, rowVars, crashes, together, opened>>

\* WHERE practice_id IS NULL.
Unadopted(practice) == practice = NoPractice

\* A practice for each of them, and everything they made: one transaction.
Adopt(o) ==
  /\ opening[o].at = "adopting"
  /\ practices + Cardinality(opening[o].read) <= MaxPractices
  /\ \E new \in [opening[o].read -> practices + 1 .. practices + Cardinality(opening[o].read)] :
       /\ \A p, q \in opening[o].read : p # q => new[p] # new[q]
       /\ LET now == [p \in Person |-> IF p \in opening[o].read THEN new[p] ELSE practiceOf[p]] IN
          /\ practiceOf' = now
          /\ keys' = {IF Unadopted(k.practice) THEN [k EXCEPT !.practice = now[k.by]] ELSE k : k \in keys}
          /\ clients' = [c \in Client |-> IF Unadopted(clients[c].practice)
                                          THEN [clients[c] EXCEPT !.practice = now[clients[c].by]]
                                          ELSE clients[c]]
  /\ practices' = practices + Cardinality(opening[o].read)
  /\ opening' = [opening EXCEPT ![o] = [at |-> "invites", read |-> {}]]
  /\ UNCHANGED <<columns, keyColumn, wrappings, uploads, crashes, together, opened>>

\* The table is built again and the rows copied, in one transaction.
RebuildInvites(o) ==
  /\ Step(o, "invites", "uploads")
  /\ columns' = columns \ {"invites hold a key"}
  /\ UNCHANGED <<rowVars, crashes, together, opened>>

Rows == {u \in Upload : uploads[u] # "none"}

\* The column is looked for and the rows are counted before the transaction.
CountUploads(o) ==
  /\ IF "uploads by item" \in columns THEN Reads(o, "uploads", "rebuilding", Rows)
                                      ELSE Step(o, "uploads", "session")
  /\ UNCHANGED <<columns, rowVars, crashes, together, opened>>

\* The rebuild stops where it would carry other than what was there.
CountAgrees(o, carried) == Cardinality(carried) = Cardinality(opening[o].read)

\* What the join with its item finds.
Joined == {u \in Rows : uploads[u] # "asked for by nobody"}

RebuildUploads(o) ==
  /\ opening[o].at = "rebuilding"
  /\ IF CountAgrees(o, Joined)
     THEN /\ uploads' = [u \in Upload |-> IF u \in Joined THEN "says its request" ELSE "none"]
          /\ columns' = columns \ {"uploads by item"}
          /\ opening' = [opening EXCEPT ![o] = [at |-> "session", read |-> {}]]
     ELSE opening' = [opening EXCEPT ![o] = Closed] /\ UNCHANGED <<uploads, columns>>
  /\ UNCHANGED <<practiceOf, keyColumn, keys, wrappings, clients, practices, crashes, together, opened>>

DropSessionColumn(o) ==
  /\ Step(o, "session", "wrappings")
  /\ columns' = columns \ {"sessions have a practice"}
  /\ UNCHANGED <<rowVars, crashes, together, opened>>

Unwrapped == {k.n : k \in {x \in keys : ~\E w \in wrappings : w.key = x.n /\ w.member = x.by}}

\* Keys whose maker has no copy are read before the transaction.
ReadUnwrapped(o) ==
  /\ IF Unwrapped = {} THEN Step(o, "wrappings", "sweep") ELSE Reads(o, "wrappings", "wrapping", Unwrapped)
  /\ UNCHANGED <<columns, rowVars, crashes, together, opened>>

WrapForMakers(o) ==
  /\ opening[o].at = "wrapping"
  /\ wrappings' = wrappings \union {[key |-> k.n, member |-> k.by] : k \in {x \in keys : x.n \in opening[o].read}}
  /\ opening' = [opening EXCEPT ![o] = [at |-> "sweep", read |-> {}]]
  /\ UNCHANGED <<columns, practiceOf, keyColumn, keys, clients, uploads, practices,
                 crashes, together, opened>>

\* Indexes, and the rows that are only live state.
Sweep(o) ==
  /\ Step(o, "sweep", "open")
  /\ opened' = TRUE
  /\ UNCHANGED <<columns, rowVars, crashes, together>>

Opens(o) ==
  \/ ExecSchema(o) \/ ReadKeyColumns(o) \/ CarryKey(o) \/ DropKeyColumns(o) \/ DropFails(o)
  \/ AddColumns(o) \/ ReadOrphans(o) \/ Adopt(o) \/ RebuildInvites(o)
  \/ CountUploads(o) \/ RebuildUploads(o) \/ DropSessionColumn(o)
  \/ ReadUnwrapped(o) \/ WrapForMakers(o) \/ Sweep(o)

-----------------------------------------------------------------------------
(* Around an opening. *)

\* A process ends: at any step by a crash, or when it is done.
Ends(o) ==
  /\ opening[o].at # "closed"
  /\ \/ opening[o].at = "open" /\ UNCHANGED crashes
     \/ opening[o].at # "open" /\ crashes < MaxCrashes /\ crashes' = crashes + 1
  /\ opening' = [opening EXCEPT ![o] = Closed]
  /\ UNCHANGED <<columns, rowVars, together, opened>>

\* The server takes a document, which may answer nothing on the list.
TakeUpload(o) ==
  /\ opening[o].at = "open"
  /\ \E u \in Upload, row \in {"says its request", "asked for by nobody"} :
       uploads[u] = "none" /\ uploads' = [uploads EXCEPT ![u] = row]
  /\ UNCHANGED <<columns, practiceOf, keyColumn, keys, wrappings, clients, practices,
                 opening, crashes, together, opened>>

\* The release from before practices, put back on the database it wrote: its clients have none.
WriteWithOldRelease ==
  /\ opened /\ \A o \in Opener : opening[o].at = "closed"
  /\ \E c \in Client, p \in Person :
       /\ ~clients[c].late
       /\ clients' = [clients EXCEPT ![c] = [by |-> p, practice |-> NoPractice, late |-> TRUE]]
  /\ UNCHANGED <<columns, practiceOf, keyColumn, keys, wrappings, uploads, practices,
                 opening, crashes, together, opened>>

OpenNext ==
  \/ \E o \in Opener : Opens(o) \/ Ends(o) \/ TakeUpload(o)
  \/ WriteWithOldRelease

OpenSpec == OpenInit /\ [][OpenNext]_openVars

-----------------------------------------------------------------------------
OpenTypeOK ==
  /\ columns \subseteq {"one key each", "practice_id", "invites hold a key", "uploads by item",
                        "sessions have a practice"}
  /\ practiceOf \in [Person -> Practice \union {NoPractice}]
  /\ keyColumn \subseteq Person
  /\ keys \subseteq [n : 1 .. MaxKeys, by : Person, practice : Practice \union {NoPractice}]
  /\ wrappings \subseteq [key : 1 .. MaxKeys, member : Person]
  /\ clients \in [Client -> [by : Person, practice : Practice \union {NoPractice}, late : BOOLEAN]]
  /\ uploads \in [Upload -> {"none", "by its item", "says its request", "asked for by nobody"}]
  /\ practices \in 0 .. MaxPractices /\ crashes \in 0 .. MaxCrashes
  /\ together \in BOOLEAN /\ opened \in BOOLEAN

Keyed == keyColumn \union {k.by : k \in keys}

\* No step of any opening loses a key, wherever it crashed and whoever else is opening; nor a document,
\* if no two brought the database up at once: one that counted the rows before another's rebuild can
\* drop a document that came after it and answers no item.
OpeningLosesNothing == [][Keyed \subseteq Keyed' /\ (together' \/ Rows \subseteq Rows')]_openVars
=============================================================================
