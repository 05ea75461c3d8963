---------------------------- MODULE PracticePage ----------------------------
(***************************************************************************)
(* The practice's pages that open documents: saving everything as one        *)
(* archive (web/download.js, web/zip.js and the names from                   *)
(* src/board-views.js) and moving files onto the current key                 *)
(* (web/reencrypt.js), with the envelopes both handle                        *)
(* (web/tickmark-crypto.js).                                                 *)
(* Each page keeps the keys it was loaded with, and awaits between reading   *)
(* an envelope and acting on it; other pages move files meanwhile.           *)
(* Cryptography is symbolic: an envelope opens with its key or not at all.   *)
(* A broken re-seal is the fault the pass guards against: it makes an        *)
(* envelope that opens to something else.  A client may have sent bytes that *)
(* only begin like an envelope: the route can tell no more.                  *)
(***************************************************************************)
EXTENDS Naturals, Sequences, SequencesExt, FiniteSetsExt

CONSTANTS
  Upload,       \* the files of one request
  Stem,         \* the name each would have in the archive: a sequence, its folder first
  Folded,       \* what case-folding makes of the parts of a name it changes
  DataLen,      \* the length of each document
  Mover,        \* pages that move files onto the current key
  MaxKey,       \* bound on the keys: 1 .. MaxKey
  Phrase,       \* passphrases
  MayBeRubbish, \* uploads that may be no envelopes behind their first bytes
  Word16,       \* what a two-byte field of the archive counts to
  Word32,       \* and a four-byte field
  Garbled       \* what a broken re-seal opens to

ASSUME KeysAssumption == MaxKey \in Nat \ {0} /\ Word16 \in Nat \ {0} /\ Word32 \in Nat \ {0}
ASSUME GarbledAssumption == Garbled \notin Upload
ASSUME LengthAssumption == DataLen \in [Upload -> Nat] /\ MayBeRubbish \subseteq Upload
ASSUME NamesAssumption == IsFiniteSet(Upload) /\ Stem \in [Upload -> Seq(STRING)]
\* Digits have no case, and different numbers different digits.
ASSUME DigitsAssumption ==
  \A m, n \in 2 .. Cardinality(Upload) + 2 :
    /\ ToString(m) \in STRING /\ ToString(m) \notin DOMAIN Folded
    /\ ToString(m) = ToString(n) => m = n

Key == 1 .. MaxKey
NoKey == 0

-----------------------------------------------------------------------------
(* Envelopes and key records. *)

EncryptFile(k, document) == [magic |-> "TKME", key |-> k, doc |-> document]
ReadEnvelope(e) == e.magic = "TKME"
DecryptEnvelope(k, e) == IF ReadEnvelope(e) /\ e.key = k THEN {e.doc} ELSE {}
\* Each key in turn: a wrong one fails rather than answering.
DecryptWithKeys(keys, e) == UNION {DecryptEnvelope(k, e) : k \in keys}

WrapPkcs8(k, phrase) == [kind |-> "pbkdf2", key |-> k, phrase |-> phrase]
UnwrapPracticeKey(record, phrase) ==
  IF record.kind = "pbkdf2" /\ record.phrase = phrase THEN {record.key} ELSE {}

-----------------------------------------------------------------------------
(* The names of an archive, and the archive. *)

FoldName(name) == [i \in DOMAIN name |-> IF name[i] \in DOMAIN Folded THEN Folded[name[i]] ELSE name[i]]

\* Mutant: names are compared as they are written.
SameSpelling(name, taken) == name \in {t : t \in taken}

\* taken.has(name.toLowerCase())
Taken(name, taken) == FoldName(name) \in {FoldName(t) : t \in taken}

\* The stem, or the stem with the first number from 2 that makes it new.
AddName(names, u) ==
  LET taken == Range(names)
      numbered(n) == Append(Stem[u], ToString(n))
      free == {n \in 2 .. Len(names) + 2 : ~Taken(numbered(n), taken)} IN
  Append(names, IF ~Taken(Stem[u], taken) THEN Stem[u] ELSE numbered(Min(free)))

\* File by file, each name is taken for the next (addFile).
ArchiveNames(files) ==
  LET named[i \in 0 .. Len(files)] == IF i = 0 THEN <<>> ELSE AddName(named[i - 1], files[i]) IN
  named[Len(files)]

\* A name is as long as its parts.
LocalSize(entry) == 30 + Len(entry.name) + DataLen[entry.doc]
CentralSize(entry) == 46 + Len(entry.name)

\* offset += size: where each of some things begins, and where the last of them ends.
Offsets(from, sizes) ==
  LET offset[i \in 1 .. Len(sizes) + 1] == IF i = 1 THEN from ELSE offset[i - 1] + sizes[i - 1] IN
  offset

LocalOffsets(entries) == Offsets(0, [i \in DOMAIN entries |-> LocalSize(entries[i])])
DirectoryOffset(entries) == LocalOffsets(entries)[Len(entries) + 1]
CentralOffsets(entries) ==
  Offsets(DirectoryOffset(entries), [i \in DOMAIN entries |-> CentralSize(entries[i])])

\* Local headers with their bytes, the central directory, the record of its end; fields keep
\* their width, positions in the array do not have one.
ZipArchive(entries) ==
  LET local == LocalOffsets(entries)
      central == CentralOffsets(entries) IN
  {[at |-> local[i], sig |-> "local", name |-> entries[i].name, doc |-> entries[i].doc]
     : i \in DOMAIN entries}
  \union
  {[at |-> central[i], sig |-> "central", name |-> entries[i].name, offset |-> local[i] % Word32]
     : i \in DOMAIN entries}
  \union
  {[at |-> central[Len(entries) + 1], sig |-> "end",
    count |-> Len(entries) % Word16, directory |-> DirectoryOffset(entries) % Word32]}

Fits(entries) ==
  /\ Len(entries) < Word16
  /\ DirectoryOffset(entries) < Word32

\* What an unzipper makes of it: from the end to the directory, from there to each file.
Unzip(archive) ==
  LET end == CHOOSE r \in archive : r.sig = "end"
      starts[i \in 1 .. end.count] ==
        IF i = 1 THEN end.directory
        ELSE starts[i - 1] + 46 + (LET here == {r \in archive : r.at = starts[i - 1] /\ r.sig = "central"}
                                   IN IF here = {} THEN 0 ELSE Len((CHOOSE r \in here : TRUE).name))
      listed == {r \in archive : r.sig = "central" /\ \E i \in 1 .. end.count : r.at = starts[i]} IN
  {[name |-> found[1].name, doc |-> found[2].doc] :
     found \in {p \in listed \X {r \in archive : r.sig = "local"} :
                     p[2].at = p[1].offset /\ p[2].name = p[1].name}}

-----------------------------------------------------------------------------
VARIABLES
  rows,      \* of each upload: the key its row names, and its envelope
  records,   \* practice_key: the wrapped private halves that are live
  current,   \* the key new files are sealed to
  shown,     \* the files the saving page lists, in its order
  tabKeys,   \* the private keys the saving page has opened
  tab,       \* the saving page: what it is doing
  mover      \* each moving page

practicePageVars == <<rows, records, current, shown, tabKeys, tab, mover>>

\* The files of the documents that are not withdrawn, and those nobody asked for, that
\* had come when the page was drawn; which those are is left open.
Listing == {files \in UNION {[1 .. n -> Upload] : n \in 1 .. Cardinality(Upload)} : IsInjective(files)}
NoTab == [at |-> "idle", todo |-> <<>>, entries |-> <<>>, archive |-> {}]
NotMoving == [at |-> "idle", from |-> NoKey, to |-> NoKey, file |-> {}, sealed |-> {}]

PracticePageInit ==
  /\ \E rubbish \in SUBSET MayBeRubbish :
       rows = [u \in Upload |-> [key |-> 1, envelope |->
                                  EncryptFile(IF u \in rubbish THEN NoKey ELSE 1, u)]]
  /\ \E p \in Phrase : records = {WrapPkcs8(1, p)}
  /\ current = 1
  /\ shown = <<>> /\ tabKeys = {} /\ tab = NoTab
  /\ mover = [m \in Mover |-> NotMoving]

Rotate ==
  /\ current < MaxKey
  /\ current' = current + 1
  /\ \E p \in Phrase : records' = records \union {WrapPkcs8(current + 1, p)}
  /\ UNCHANGED <<rows, shown, tabKeys, tab, mover>>

\* A retired key's copies go; a row may not name it.
Retire(k) ==
  /\ k # current /\ \A u \in Upload : rows[u].key # k
  /\ \E r \in records : r.key = k /\ records' = records \ {r}
  /\ UNCHANGED <<rows, current, shown, tabKeys, tab, mover>>

-----------------------------------------------------------------------------
(* Saving everything. *)

\* Every key the passphrase opens; one that opens none leaves the page locked.
Unlock ==
  /\ tab.at = "idle" /\ tabKeys = {}
  /\ \E p \in Phrase : tabKeys' = UNION {UnwrapPracticeKey(r, p) : r \in records}
  /\ UNCHANGED <<rows, records, current, shown, tab, mover>>

\* The list was made when the page was drawn, and is not read again.
SaveAll ==
  /\ tab.at = "idle" /\ tabKeys # {}
  /\ shown' \in Listing
  /\ tab' = [NoTab EXCEPT !.at = "fetching", !.todo = shown']
  /\ UNCHANGED <<rows, records, current, tabKeys, mover>>

Nothing == tab' = [NoTab EXCEPT !.at = "nothing packed"]

\* One file that does not open, and nothing is packed.
CannotOpen == Nothing

\* One envelope is fetched, whatever key it is sealed to by now, and opened.
OpenNext ==
  /\ tab.at = "fetching" /\ tab.todo # <<>>
  /\ LET u == Head(tab.todo)
         plain == DecryptWithKeys(tabKeys, rows[u].envelope)
         name == ArchiveNames(shown)[Len(shown) - Len(tab.todo) + 1] IN
       IF plain = {} THEN CannotOpen
       ELSE tab' = [tab EXCEPT !.todo = Tail(@),
                      !.entries = Append(@, [name |-> name, doc |-> CHOOSE d \in plain : TRUE])]
  /\ UNCHANGED <<rows, records, current, shown, tabKeys, mover>>

\* The server refuses, or the connection fails.
FetchFails ==
  /\ tab.at = "fetching" /\ tab.todo # <<>>
  /\ Nothing
  /\ UNCHANGED <<rows, records, current, shown, tabKeys, mover>>

PackAndSave ==
  /\ tab.at = "fetching" /\ tab.todo = <<>>
  /\ tab' = [tab EXCEPT !.at = "saved", !.archive = ZipArchive(tab.entries)]
  /\ UNCHANGED <<rows, records, current, shown, tabKeys, mover>>

\* The page is loaded again, and the keys it held are gone.
CloseTab ==
  /\ tab.at \in {"saved", "nothing packed"}
  /\ tab' = NoTab /\ tabKeys' = {} /\ shown' = <<>>
  /\ UNCHANGED <<rows, records, current, mover>>

-----------------------------------------------------------------------------
(* Moving the files of a key onto the current one. *)

Opens(k, phrase) == \E r \in records : UnwrapPracticeKey(r, phrase) = {k}

\* The passphrase opens the key to leave, and it or the second one the current key; the page goes
\* on with the current key it was loaded with.
StartMoving(m, k) ==
  /\ mover[m] = NotMoving /\ k # current
  /\ \E phrase, alsoTyped \in Phrase :
       Opens(k, phrase) /\ (Opens(current, phrase) \/ Opens(current, alsoTyped))
  /\ mover' = [mover EXCEPT ![m] = [NotMoving EXCEPT !.at = "asking", !.from = k, !.to = current]]
  /\ UNCHANGED <<rows, records, current, shown, tabKeys, tab>>

\* The page takes the first; which that is, is left open.
Pending(k) == {u \in Upload : rows[u].key = k}

Stop(m) == mover' = [mover EXCEPT ![m] = NotMoving]

\* What is left is asked every time; the pass ends when nothing is.
AskWhatIsLeft(m) ==
  /\ mover[m].at = "asking"
  /\ \/ Pending(mover[m].from) = {} /\ Stop(m)
     \/ \E u \in Pending(mover[m].from) :
          mover' = [mover EXCEPT ![m].at = "fetching", ![m].file = {u}]
  /\ UNCHANGED <<rows, records, current, shown, tabKeys, tab>>

\* Mutant: the round trip is not looked at.
ItSealed(k, sealed, plain) == TRUE

\* The new envelope opens, with the key it was sealed to, to the same document.
RoundTrips(k, sealed, plain) == DecryptEnvelope(k, sealed) = plain

\* The envelope is fetched, opened, sealed again and opened again; anything wrong stops the pass.
Reseal(m) ==
  /\ mover[m].at = "fetching"
  /\ \E u \in mover[m].file :
       LET plain == DecryptEnvelope(mover[m].from, rows[u].envelope) IN
         IF plain = {} THEN Stop(m)
         ELSE \E made \in plain \union {Garbled} :
                LET sealed == EncryptFile(mover[m].to, made) IN
                  IF RoundTrips(mover[m].to, sealed, plain)
                  THEN mover' = [mover EXCEPT ![m].at = "posting", ![m].sealed = {sealed}]
                  ELSE Stop(m)
  /\ UNCHANGED <<rows, records, current, shown, tabKeys, tab>>

Live(k) == \E r \in records : r.key = k

\* Mutant: the update matches no row, and nobody looks.
MovedNowhere(u, k, sealed) == rows' = rows

MovedTo(u, k, sealed) == rows' = [rows EXCEPT ![u] = [key |-> k, envelope |-> sealed]]

\* The route: an envelope, to a live key, that is not the one the row names already.
Post(m) ==
  /\ mover[m].at = "posting"
  /\ \E u \in mover[m].file, sealed \in mover[m].sealed :
       IF ReadEnvelope(sealed) /\ Live(mover[m].to) /\ rows[u].key # mover[m].to
       THEN /\ MovedTo(u, mover[m].to, sealed)
            /\ mover' = [mover EXCEPT ![m].at = "asking", ![m].file = {}, ![m].sealed = {}]
       ELSE Stop(m) /\ UNCHANGED rows
  /\ UNCHANGED <<records, current, shown, tabKeys, tab>>

\* A request of the pass fails, or the tab is closed.
MoverEnds(m) ==
  /\ mover[m] # NotMoving
  /\ Stop(m)
  /\ UNCHANGED <<rows, records, current, shown, tabKeys, tab>>

Moves(m) == AskWhatIsLeft(m) \/ Reseal(m) \/ Post(m)

PracticePageNext ==
  \/ Rotate \/ \E k \in Key : Retire(k)
  \/ Unlock \/ SaveAll \/ OpenNext \/ FetchFails \/ PackAndSave \/ CloseTab
  \/ \E m \in Mover : \/ \E k \in Key : StartMoving(m, k)
                      \/ Moves(m) \/ MoverEnds(m)

PracticePageFairness == \A m \in Mover : WF_practicePageVars(Moves(m))

PracticePageSpec ==
  PracticePageInit /\ [][PracticePageNext]_practicePageVars /\ PracticePageFairness

-----------------------------------------------------------------------------
PracticePageTypeOK ==
  /\ rows \in [Upload -> [key : Key, envelope : [magic : {"TKME"}, key : Key \union {NoKey},
                                                 doc : Upload \union {Garbled}]]]
  /\ records \subseteq [kind : {"pbkdf2"}, key : Key, phrase : Phrase]
  /\ current \in Key /\ tabKeys \subseteq Key
  /\ shown \in Listing \union {<<>>}
  /\ tab.at \in {"idle", "fetching", "saved", "nothing packed"}
  /\ \A m \in Mover : mover[m].at \in {"idle", "asking", "fetching", "posting"}

\* An archive that is saved gives back, to whoever unpacks it, every file its page listed
\* once and no other, each under a name no other has however it is cased, and each with its
\* own document; as long as the sizes fit the fields (archiveFiles, which passes over the
\* files of documents that were withdrawn).
ArchiveIsWhole ==
  (tab.at = "saved" /\ Fits(tab.entries)) =>
    LET found == Unzip(tab.archive) IN
      /\ {e.doc : e \in found} = Range(shown)
      /\ Cardinality(found) = Len(shown)
      /\ \A e, f \in found : e.doc # f.doc => FoldName(e.name) # FoldName(f.name)

\* Whatever pages move files at once, with whatever seal goes wrong, a document that opened opens
\* still: to itself, with the key its row names, and that key is kept.
MovedFilesOpen ==
  \A u \in Upload :
    rows[u].envelope.key # NoKey =>
      rows[u].envelope = EncryptFile(rows[u].key, u) /\ Live(rows[u].key)

\* A pass ends, though it asks anew each time and others move files under it.
PassesEnd == \A m \in Mover : mover[m] # NotMoving ~> mover[m] = NotMoving
=============================================================================
