----------------------------- MODULE ClientPage -----------------------------
(***************************************************************************)
(* The client's page while documents are chosen and sent (web/upload.js,    *)
(* web/preflight.js), against the route that takes them.                    *)
(* Choosing files starts a check that reads them, one await after another,  *)
(* so two checks may be under way; pressing send encrypts and posts the     *)
(* files one by one; an answer may be lost, and a reload ends whatever the  *)
(* page was doing but not a request the server already has.                 *)
(* A file stands for its name; sizes are in units of which an envelope adds *)
(* Overhead (web/tickmark-crypto.js: the header and the tag).               *)
(***************************************************************************)
EXTENDS Naturals, Sequences, FiniteSets

CONSTANTS
  File,
  SizeOf,       \* the size of each file, as the browser knows it
  Reader,       \* calls of validate()
  Press,        \* presses of the send button
  Overhead,     \* what sealing adds
  MaxBytes,     \* the limit of a file, the same number on the page and at the route
  Visits,       \* bound on the times the page is loaded
  MaxPicks,     \* bound on the times files are picked
  MaxRows       \* bound on the rows a file comes to have

ASSUME SizeAssumption == /\ SizeOf \in [File -> Nat \ {0}]
                         /\ MaxBytes \in Nat /\ Overhead \in Nat \ {0} /\ Visits \in Nat
                         /\ MaxRows \in Nat /\ MaxPicks \in Nat
ASSUME FilesAreFinite == IsFiniteSet(File)

\* What a person picks: one file, or two in an order.
Picks == {<<>>} \union {<<f>> : f \in File}
                \union {p \in File \X File : p[1] # p[2]}
Chosen(p) == {p[i] : i \in DOMAIN p}
Oversized(p) == {f \in Chosen(p) : SizeOf[f] > MaxBytes}

VARIABLES
  picked,       \* fileInput.files
  picks,        \* how often it was set
  dead,         \* sendButton.disabled
  said,         \* the status line of a check: what was picked when it began, and what it mentions
  reader,       \* each validate()
  press,        \* each submit handler
  wire,         \* requests the server has or has answered
  stored,       \* how many rows of `upload` each file has
  alreadySent,  \* what the page was given when it loaded: names with sizes
  visit,
  claimed       \* for the properties: files of batches after which the page reloaded

pageVars == <<picked, picks, dead, said, reader, press, alreadySent, visit, claimed>>
clientPageVars == <<picked, picks, dead, said, reader, press, wire, stored, alreadySent, visit, claimed>>

Quiet == [about |-> <<>>, twins |-> {}, kind |-> "nothing"]
NotChecking == [at |-> "idle", files |-> <<>>, todo |-> <<>>, twins |-> {}]
NotSending == [at |-> "idle", files |-> <<>>, todo |-> <<>>]

\* A row keeps the size of the envelope, and the page is given the row's size.
AlreadySent(rows) == {[name |-> f, bytes |-> SizeOf[f] + Overhead] : f \in {g \in File : rows[g] > 0}}

\* duplicateOf: the same name and the same size.
DuplicateOf(f) == \E s \in alreadySent : s.name = f /\ s.bytes = SizeOf[f]

ClientPageInit ==
  /\ picked = <<>> /\ picks = 0 /\ dead = FALSE /\ said = Quiet
  /\ reader = [c \in Reader |-> NotChecking]
  /\ press = [p \in Press |-> NotSending]
  /\ wire = {} /\ stored = [f \in File |-> 0]
  /\ alreadySent = {} /\ visit = 1 /\ claimed = {}

-----------------------------------------------------------------------------
(* Choosing. *)

\* The end of validate(): the button and the message, whatever is picked by now.
Concludes(files, twins, kind) ==
  /\ dead' = (Oversized(files) # {})
  /\ said' = [about |-> files, twins |-> twins, kind |-> kind]

\* A change or a drop: validate() runs until it first awaits a file's ends.
Pick(c, p) ==
  /\ reader[c] = NotChecking
  /\ picks < MaxPicks /\ picks' = picks + 1
  /\ picked' = p
  /\ LET read == SelectSeq(p, LAMBDA f : SizeOf[f] <= MaxBytes) IN
       IF read = <<>>
       THEN /\ IF p = <<>> THEN dead' = FALSE /\ said' = Quiet ELSE Concludes(p, {}, "check")
            /\ UNCHANGED reader
       ELSE /\ reader' = [reader EXCEPT ![c] = [at |-> "reading", files |-> p, todo |-> read,
                                              twins |-> {}]]
            /\ UNCHANGED <<dead, said>>
  /\ UNCHANGED <<press, wire, stored, alreadySent, visit, claimed>>

\* The ends of one file have been read, and it is judged.
ReadEnds(c) ==
  /\ reader[c].at = "reading"
  /\ LET f == Head(reader[c].todo)
         twins == reader[c].twins \union (IF DuplicateOf(f) THEN {f} ELSE {}) IN
       IF Len(reader[c].todo) = 1
       THEN /\ Concludes(reader[c].files, twins, "check")
            /\ reader' = [reader EXCEPT ![c] = NotChecking]
       ELSE /\ reader' = [reader EXCEPT ![c].todo = Tail(@), ![c].twins = twins]
            /\ UNCHANGED <<dead, said>>
  /\ UNCHANGED <<picked, picks, press, wire, stored, alreadySent, visit, claimed>>

\* A file that cannot be read ends the check early, and stops nobody.
CannotRead(c) ==
  /\ reader[c].at = "reading"
  /\ Concludes(reader[c].files, reader[c].twins, "cut short")
  /\ reader' = [reader EXCEPT ![c] = NotChecking]
  /\ UNCHANGED <<picked, picks, press, wire, stored, alreadySent, visit, claimed>>

-----------------------------------------------------------------------------
(* Sending. *)

\* What the submit handler itself refuses to send.
Refuses(p) == Oversized(p)

\* What a batch says of itself replaces what a check said; its words are not kept.
Speaks == said' = Quiet

\* The button is not disabled while a batch is going.
Submit(p) ==
  /\ press[p] = NotSending /\ ~dead /\ picked # <<>>
  /\ IF Refuses(picked) # {}
     THEN Speaks /\ UNCHANGED press
     ELSE /\ press' = [press EXCEPT ![p] = [at |-> "sealing", files |-> picked, todo |-> picked]]
          /\ Speaks
  /\ UNCHANGED <<picked, picks, dead, reader, wire, stored, alreadySent, visit, claimed>>

Stops(p) ==
  /\ press' = [press EXCEPT ![p] = NotSending]
  /\ Speaks
  /\ UNCHANGED <<picked, picks, dead, reader, stored, alreadySent, visit, claimed>>

\* The file is read and sealed, and the envelope posted.
SendFile(p) ==
  /\ press[p].at = "sealing"
  /\ press' = [press EXCEPT ![p].at = "sending"]
  /\ wire' = wire \union {[press |-> p, file |-> Head(press[p].todo), answer |-> "none", visit |-> visit]}
  /\ Speaks
  /\ UNCHANGED <<picked, picks, dead, reader, stored, alreadySent, visit, claimed>>

\* The file has changed on the disk since it was picked.
CannotSeal(p) ==
  /\ press[p].at = "sealing"
  /\ Stops(p)
  /\ UNCHANGED wire

Mine(p, w) == w.press = p /\ w.visit = visit

\* Mutant: any answer is a success.
AnyAnswer(w) == w.answer # "none"

\* response.ok.
Succeeded(w) == w.answer = "stored"

Load == /\ picked' = <<>> /\ dead' = FALSE /\ said' = Quiet
        /\ reader' = [c \in Reader |-> NotChecking]
        /\ press' = [q \in Press |-> NotSending]
        /\ alreadySent' = AlreadySent(stored) /\ visit' = visit + 1

\* The page is told: the next file, or the page is loaded again.
Told(p) ==
  /\ press[p].at = "sending"
  /\ \E w \in wire :
       /\ Mine(p, w) /\ w.answer # "none" /\ Succeeded(w)
       /\ wire' = wire \ {w}
       /\ IF Len(press[p].todo) > 1
          THEN /\ press' = [press EXCEPT ![p].todo = Tail(@), ![p].at = "sealing"]
               /\ Speaks
               /\ UNCHANGED <<picked, picks, dead, reader, alreadySent, visit, claimed>>
          ELSE /\ visit < Visits
               /\ Load /\ UNCHANGED picks
               /\ claimed' = claimed \union Chosen(press[p].files)
  /\ UNCHANGED stored

\* The page is told no, and the batch stops where it is.
ToldNo(p) ==
  /\ press[p].at = "sending"
  /\ \E w \in wire : /\ Mine(p, w) /\ w.answer # "none" /\ ~Succeeded(w)
                     /\ wire' = wire \ {w}
                     /\ Stops(p)

\* The connection fails, before or after the server acted.
Lost(p) ==
  /\ press[p].at = "sending"
  /\ Stops(p)
  /\ wire' = {[w EXCEPT !.visit = IF Mine(p, w) THEN 0 ELSE @] : w \in wire}

Reload ==
  /\ visit < Visits
  /\ Load
  /\ UNCHANGED <<picks, wire, stored, claimed>>

\* The route: the length that is declared is the envelope's.
Take(w) ==
  /\ w \in wire /\ w.answer = "none"
  /\ \E answer \in {"stored", "refused"} :
       /\ answer = "stored" => SizeOf[w.file] + Overhead <= MaxBytes /\ stored[w.file] < MaxRows
       /\ wire' = (wire \ {w}) \union {a \in {[w EXCEPT !.answer = answer]} : a.visit = visit}
       /\ stored' = IF answer = "stored" THEN [stored EXCEPT ![w.file] = @ + 1] ELSE stored
  /\ UNCHANGED pageVars

ClientPageNext ==
  \/ \E c \in Reader : \/ \E p \in Picks : Pick(c, p)
                      \/ ReadEnds(c) \/ CannotRead(c)
  \/ \E p \in Press : Submit(p) \/ SendFile(p) \/ CannotSeal(p) \/ Told(p) \/ ToldNo(p) \/ Lost(p)
  \/ Reload
  \/ \E w \in wire : Take(w)

ClientPageSpec == ClientPageInit /\ [][ClientPageNext]_clientPageVars

-----------------------------------------------------------------------------
ClientPageTypeOK ==
  /\ picked \in Picks /\ picks \in 0 .. MaxPicks /\ dead \in BOOLEAN
  /\ said \in [about : Picks, twins : SUBSET File, kind : STRING]
  /\ reader \in [Reader -> [at : {"idle", "reading"}, files : Picks, todo : Seq(File), twins : SUBSET File]]
  /\ press \in [Press -> [at : {"idle", "sealing", "sending"}, files : Picks, todo : Seq(File)]]
  /\ wire \subseteq [press : Press, file : File, answer : {"none", "stored", "refused"}, visit : 0 .. Visits]
  /\ stored \in [File -> 0 .. MaxRows]
  /\ alreadySent \subseteq [name : File, bytes : Nat]
  /\ visit \in 1 .. Visits /\ claimed \subseteq File

\* When the page comes back by itself, every file of the batch is at the practice, whatever else
\* was pressed, picked or answered meanwhile.
ReloadMeansStored == \A f \in claimed : stored[f] > 0
=============================================================================
