-------------------------- MODULE RequestChecklist --------------------------
(***************************************************************************)
(* The checklist of a request: the documents a practice asks for, the      *)
(* files that answer them, what the practice says of each (checked, needs  *)
(* attention, withdrawn) and what the client says when they cannot send    *)
(* one. Practice and client act from pages that were drawn earlier, and a  *)
(* handler that reads a body uses what it read before the body arrived.    *)
(*                                                                         *)
(* How a body is received and stored is UploadPipeline's; here a post      *)
(* begins, and ends as a recorded answer or as a refusal.                  *)
(***************************************************************************)
EXTENDS Naturals, FiniteSets

CONSTANTS
  Request,   \* requests, each raised at most once
  Item,      \* request_item rows
  Label,     \* what a document is called
  Fold,      \* a label in lower case, a function
  Note,      \* notes on an item; one of them is NoNote
  NoNote,
  Post,      \* posts through the client's page or on the client's behalf
  Form,      \* open "add documents" forms
  Page,      \* open request pages of the practice
  None       \* no request, no item

ASSUME NoneAssumption == None \notin Request \union Item
ASSUME FoldAssumption == DOMAIN Fold = Label
ASSUME NoteAssumption == NoNote \in Note
ASSUME FiniteAssumption == IsFiniteSet(Item)

Says  == {"dont-have", "later"}
Maybe == Says \union {"nothing"}
Event == {"items.added", "item.edited", "item.withdrawn", "item.restored", "item.needs-attention",
          "item.attention-cleared", "item.checked", "item.check-undone", "item.check-cleared",
          "item.client-said", "item.client-said-cleared", "upload.received"}
PostState == {"idle", "saying", "sending", "bringing", "done", "refused"}

VARIABLES
  raised,     \* rows of table request
  closed,     \* those whose closed_at is set
  link,       \* the one link of each request
  owner,      \* request_item.request_id
  label,      \* request_item.label
  note,       \* request_item.note
  position,   \* request_item.position
  withdrawn,  \* items whose withdrawn_at is set
  flagged,    \* items whose attention_at is set
  reviewed,   \* items whose reviewed_at is set
  says,       \* request_item.client_says
  answers,    \* upload.request_item_id, for the posts that became a row
  covered,    \* the files an item had when it was last checked
  post,       \* where each post stands
  about,      \* the item it is about
  saw,        \* client_says of that item as read before the body was
  adding,     \* the request an open form adds to
  shown,      \* the files a page of the practice shows
  offered,    \* the items it offers to check
  recorded    \* the events the last step wrote to the history

requestVars == <<raised, closed, link>>
wordVars == <<owner, label, note, position>>
markVars == <<withdrawn, flagged, reviewed, says, covered>>
postVars == <<post, about, saw>>
pageVars == <<shown, offered>>
vars == <<requestVars, wordVars, markVars, answers, postVars, adding, pageVars, recorded>>

-----------------------------------------------------------------------------
(* Reading the tables. *)

ItemsOf(r) == {i \in Item : owner[i] = r}
Live(r)    == ItemsOf(r) \ withdrawn
Asked      == {i \in Item : owner[i] # None}
Files(i)   == {p \in Post : answers[p] = i}
Received   == {i \in Asked : Files(i) # {}}
Folds(r)   == {Fold[label[i]] : i \in ItemsOf(r)}

\* Nothing has arrived, or what arrived is of no use.
Outstanding == {i \in Asked : i \notin Received \/ i \in flagged}

ToCheck    == Received \ reviewed
ClientSaid == {i \in Asked : says[i] # "nothing"}

\* stateOf, over the counts that progressRows takes of the live items.
State(r) ==
  LET items       == Cardinality(Live(r))
      toCheck     == Cardinality(Live(r) \intersect ToCheck)
      clientSaid  == Cardinality(Live(r) \intersect ClientSaid)
      outstanding == Cardinality(Live(r) \intersect Outstanding)
  IN  IF items = 0 THEN "ready"
      ELSE IF toCheck > 0 THEN "to-check"
      ELSE IF clientSaid > 0 THEN "answered"
      ELSE IF outstanding > 0 THEN "waiting"
      ELSE "ready"

-----------------------------------------------------------------------------
Init ==
  /\ raised = {}
  /\ closed = {}
  /\ link = [r \in Request |-> "none"]
  /\ owner = [i \in Item |-> None]
  /\ label = [i \in Item |-> None]
  /\ note = [i \in Item |-> NoNote]
  /\ position = [i \in Item |-> 0]
  /\ withdrawn = {}
  /\ flagged = {}
  /\ reviewed = {}
  /\ says = [i \in Item |-> "nothing"]
  /\ answers = [p \in Post |-> None]
  /\ covered = [i \in Item |-> {}]
  /\ post = [p \in Post |-> "idle"]
  /\ about = [p \in Post |-> None]
  /\ saw = [p \in Post |-> "nothing"]
  /\ adding = [f \in Form |-> None]
  /\ shown = [v \in Page |-> {}]
  /\ offered = [v \in Page |-> {}]
  /\ recorded = {}

-----------------------------------------------------------------------------
(* The words of the list. *)

\* What parseItems makes of a textarea: no two lines alike but for case.
Lines == {ls \in SUBSET Label : \A a, b \in ls : Fold[a] = Fold[b] => a = b}

Rank(i, items) == Cardinality({j \in items : position[j] < position[i]})

\* Mutant: positions are counted over the items still asked for.
PlaceAmongLive(r, rows) ==
  /\ DOMAIN rows \subseteq Item \ Asked
  /\ owner' = [i \in Item |-> IF i \in DOMAIN rows THEN r ELSE owner[i]]
  /\ label' = [i \in Item |-> IF i \in DOMAIN rows THEN rows[i].label ELSE label[i]]
  /\ note' = [i \in Item |-> IF i \in DOMAIN rows THEN rows[i].note ELSE note[i]]
  /\ position' = [i \in Item |->
       IF i \in DOMAIN rows THEN Cardinality(Live(r)) + rows[i].at ELSE position[i]]

\* addItem for some new rows in turn: each gets the number of items before it.
Place(r, rows) ==
  /\ DOMAIN rows \subseteq Item \ Asked
  /\ owner' = [i \in Item |-> IF i \in DOMAIN rows THEN r ELSE owner[i]]
  /\ label' = [i \in Item |-> IF i \in DOMAIN rows THEN rows[i].label ELSE label[i]]
  /\ note' = [i \in Item |-> IF i \in DOMAIN rows THEN rows[i].note ELSE note[i]]
  /\ position' = [i \in Item |->
       IF i \in DOMAIN rows THEN Cardinality(ItemsOf(r)) + rows[i].at ELSE position[i]]

\* New rows for a set of labels, one for each, in any order and without notes.
RowsFor(labels) ==
  LET n == Cardinality(labels)
      row == [label : labels, note : {NoNote}, at : 0 .. n - 1]
  IN  {rows \in UNION {[ids -> row] : ids \in {s \in SUBSET (Item \ Asked) : Cardinality(s) = n}} :
         \A i, j \in DOMAIN rows :
           i # j => rows[i].label # rows[j].label /\ rows[i].at # rows[j].at}

\* New rows that repeat some items with their notes, in their order.
CopiesOf(items) ==
  {[i \in DOMAIN from |-> [label |-> label[from[i]], note |-> note[from[i]], at |-> Rank(from[i], items)]] :
     from \in {f \in UNION {[ids -> items] : ids \in {s \in SUBSET (Item \ Asked) : Cardinality(s) = Cardinality(items)}} :
                 \A i, j \in DOMAIN f : i # j => f[i] # f[j]}}

Silent == recorded' = {}
Tell(kind, i) == recorded' = {<<kind, i>>}

\* createRequest: the request and its items, one transaction.
CreateRequest(r) ==
  /\ r \notin raised
  /\ raised' = raised \union {r}
  /\ \E labels \in Lines \ {{}} : \E rows \in RowsFor(labels) : Place(r, rows)
  /\ Silent
  /\ UNCHANGED <<closed, link, markVars, answers, postVars, adding, pageVars>>

\* The same request again, its withdrawn items left out.
ReRaise(r, source) ==
  /\ r \notin raised
  /\ source \in raised
  /\ raised' = raised \union {r}
  /\ \E rows \in CopiesOf(Live(source)) : Place(r, rows)
  /\ Silent
  /\ UNCHANGED <<closed, link, markVars, answers, postVars, adding, pageVars>>

\* addItemsPage up to its await: a closed request is refused here, and only here.
StartAdding(f, r) ==
  /\ adding[f] = None
  /\ r \in raised \ closed
  /\ adding' = [adding EXCEPT ![f] = r]
  /\ Silent
  /\ UNCHANGED <<requestVars, wordVars, markVars, answers, postVars, pageVars>>

\* Mutant: labels are compared as they are typed.
FreshAsTyped(r, lines) == {l \in lines : \A i \in ItemsOf(r) : label[i] # l}

\* A line already on the request, withdrawn or not, is skipped.
Fresh(r, lines) == {l \in lines : Fold[l] \notin Folds(r)}

AddItems(f) ==
  /\ adding[f] # None
  /\ \E lines \in Lines : \E rows \in RowsFor(Fresh(adding[f], lines)) : Place(adding[f], rows)
  /\ adding' = [adding EXCEPT ![f] = None]
  /\ recorded' = {<<"items.added", i>> : i \in {j \in Item : owner'[j] # owner[j]}}
  /\ UNCHANGED <<requestVars, markVars, answers, postVars, pageVars>>

\* The row read by itemIn has no note, so the note typed is compared with none at all.
\* The form shows the words and the note as they are.
Relabel(i, l, n) ==
  /\ i \in Asked
  /\ l # label[i] \/ n # NoNote
  /\ label' = [label EXCEPT ![i] = l]
  /\ note' = [note EXCEPT ![i] = n]
  /\ Tell("item.edited", i)
  /\ UNCHANGED <<requestVars, owner, position, markVars, answers, postVars, adding, pageVars>>

-----------------------------------------------------------------------------
(* The request and its link. *)

CloseRequest(r) ==
  /\ r \in raised \ closed
  /\ closed' = closed \union {r}
  /\ Silent
  /\ UNCHANGED <<raised, link, wordVars, markVars, answers, postVars, adding, pageVars>>

ReopenRequest(r) ==
  /\ r \in closed
  /\ closed' = closed \ {r}
  /\ Silent
  /\ UNCHANGED <<raised, link, wordVars, markVars, answers, postVars, adding, pageVars>>

IssueLink(r) ==
  /\ r \in raised
  /\ link[r] = "none"
  /\ link' = [link EXCEPT ![r] = "open"]
  /\ Silent
  /\ UNCHANGED <<raised, closed, wordVars, markVars, answers, postVars, adding, pageVars>>

\* The link is revoked or expires.
LinkEnds(r) ==
  /\ link[r] = "open"
  /\ link' = [link EXCEPT ![r] = "ended"]
  /\ Silent
  /\ UNCHANGED <<raised, closed, wordVars, markVars, answers, postVars, adding, pageVars>>

-----------------------------------------------------------------------------
(* What the practice says of one document. *)

Withdraw(i) ==
  /\ i \in Asked \ withdrawn
  /\ withdrawn' = withdrawn \union {i}
  /\ Tell("item.withdrawn", i)
  /\ UNCHANGED <<requestVars, wordVars, flagged, reviewed, says, covered, answers, postVars, adding, pageVars>>

Restore(i) ==
  /\ i \in withdrawn
  /\ withdrawn' = withdrawn \ {i}
  /\ Tell("item.restored", i)
  /\ UNCHANGED <<requestVars, wordVars, flagged, reviewed, says, covered, answers, postVars, adding, pageVars>>

NeedsAttention(i) ==
  /\ i \in Asked
  /\ flagged' = flagged \union {i}
  /\ Tell("item.needs-attention", i)
  /\ UNCHANGED <<requestVars, wordVars, withdrawn, reviewed, says, covered, answers, postVars, adding, pageVars>>

ClearAttention(i) ==
  /\ i \in flagged
  /\ flagged' = flagged \ {i}
  /\ Tell("item.attention-cleared", i)
  /\ UNCHANGED <<requestVars, wordVars, withdrawn, reviewed, says, covered, answers, postVars, adding, pageVars>>

\* viewRequest: the page shows the files there are and, unless the request is closed,
\* offers to check what has arrived.
View(v, r) ==
  /\ r \in raised
  /\ shown' = [shown EXCEPT ![v] = {p \in Post : answers[p] \in Live(r)}]
  /\ offered' = [offered EXCEPT ![v] = (IF r \in closed THEN {} ELSE Live(r)) \intersect ToCheck]
  /\ Silent
  /\ UNCHANGED <<requestVars, wordVars, markVars, answers, postVars, adding>>

\* Mutant: an item without a file can be checked.
CheckAnything(items) ==
  /\ items # {}
  /\ reviewed' = reviewed \union items
  /\ covered' = [i \in Item |-> IF i \in items THEN Files(i) ELSE covered[i]]
  /\ recorded' = {<<"item.checked", i>> : i \in items}
  /\ UNCHANGED <<requestVars, wordVars, withdrawn, flagged, says, answers, postVars, adding, pageVars>>

\* setItemReviewed(true) for each of some items: only what has arrived and is not checked.
Review(items) ==
  /\ items \intersect ToCheck # {}
  /\ reviewed' = reviewed \union (items \intersect ToCheck)
  /\ covered' = [i \in Item |-> IF i \in items \intersect ToCheck THEN Files(i) ELSE covered[i]]
  /\ recorded' = {<<"item.checked", i>> : i \in items \intersect ToCheck}
  /\ UNCHANGED <<requestVars, wordVars, withdrawn, flagged, says, answers, postVars, adding, pageVars>>

\* The button beside an item. Anybody may also post to its address without a page.
Check(v, i) == i \in offered[v] /\ Review({i})

\* "Mark all as checked": every live item that has arrived, whatever the page shows.
CheckAll(v, r) == offered[v] \intersect ItemsOf(r) # {} /\ Review(Live(r))

Uncheck(i) ==
  /\ i \in reviewed
  /\ reviewed' = reviewed \ {i}
  /\ Tell("item.check-undone", i)
  /\ UNCHANGED <<requestVars, wordVars, withdrawn, flagged, says, covered, answers, postVars, adding, pageVars>>

-----------------------------------------------------------------------------
(* What comes in. *)

\* The handler returns, and what it read is gone with it.
Finish(p, state) ==
  /\ post' = [post EXCEPT ![p] = state]
  /\ about' = [about EXCEPT ![p] = None]
  /\ saw' = [saw EXCEPT ![p] = "nothing"]

\* clientSays up to its await: the item's row is read.
StartSaying(p, i) ==
  /\ post[p] = "idle"
  /\ i \in Asked
  /\ link[owner[i]] = "open"
  /\ post' = [post EXCEPT ![p] = "saying"]
  /\ about' = [about EXCEPT ![p] = i]
  /\ saw' = [saw EXCEPT ![p] = says[i]]
  /\ Silent
  /\ UNCHANGED <<requestVars, wordVars, markVars, answers, adding, pageVars>>

\* The same words again take them back; "same" is judged by the row read before.
FinishSaying(p, words) ==
  /\ post[p] = "saying"
  /\ Finish(p, "done")
  /\ LET i   == about[p]
         new == IF saw[p] = words THEN "nothing" ELSE words
     IN  IF new = says[i]
         THEN Silent /\ UNCHANGED says
         ELSE /\ says' = [says EXCEPT ![i] = new]
              /\ Tell(IF new = "nothing" THEN "item.client-said-cleared" ELSE "item.client-said", i)
  /\ UNCHANGED <<requestVars, wordVars, withdrawn, flagged, reviewed, covered, answers, adding, pageVars>>

\* receiveUpload up to its await: the practice must still be asking.
StartSending(p, i) ==
  /\ post[p] = "idle"
  /\ i \in Asked \ withdrawn
  /\ link[owner[i]] = "open"
  /\ post' = [post EXCEPT ![p] = "sending"]
  /\ about' = [about EXCEPT ![p] = i]
  /\ Silent
  /\ UNCHANGED <<requestVars, wordVars, markVars, answers, saw, adding, pageVars>>

\* addFileForClient up to its await: any item of the request.
StartAddingFile(p, i) ==
  /\ post[p] = "idle"
  /\ i \in Asked
  /\ post' = [post EXCEPT ![p] = "bringing"]
  /\ about' = [about EXCEPT ![p] = i]
  /\ Silent
  /\ UNCHANGED <<requestVars, wordVars, markVars, answers, saw, adding, pageVars>>

\* The body was refused, or the connection went.
Refuse(p) ==
  /\ post[p] \in {"saying", "sending", "bringing"}
  /\ Finish(p, "refused")
  /\ Silent
  /\ UNCHANGED <<requestVars, wordVars, markVars, answers, adding, pageVars>>

\* Mutant: an answer leaves the check standing.
RecordAndKeepCheck(p) ==
  /\ post[p] \in {"sending", "bringing"}
  /\ post[p] = "sending" => link[owner[about[p]]] = "open"
  /\ Finish(p, "done")
  /\ answers' = [answers EXCEPT ![p] = about[p]]
  /\ says' = [says EXCEPT ![about[p]] = "nothing"]
  /\ recorded' = {<<"upload.received", about[p]>>}
  /\ UNCHANGED <<requestVars, wordVars, withdrawn, flagged, reviewed, covered, adding, pageVars>>

\* recordUpload: a post through a link needs it to be open still. The answer takes back
\* the check and the client's words, and one event tells of either.
RecordAnswer(p) ==
  /\ post[p] \in {"sending", "bringing"}
  /\ post[p] = "sending" => link[owner[about[p]]] = "open"
  /\ Finish(p, "done")
  /\ answers' = [answers EXCEPT ![p] = about[p]]
  /\ reviewed' = reviewed \ {about[p]}
  /\ says' = [says EXCEPT ![about[p]] = "nothing"]
  /\ recorded' = {<<"upload.received", about[p]>>} \union
       (IF about[p] \in reviewed \union ClientSaid THEN {<<"item.check-cleared", about[p]>>} ELSE {})
  /\ UNCHANGED <<requestVars, wordVars, withdrawn, flagged, covered, adding, pageVars>>

-----------------------------------------------------------------------------
ListStep ==
  \/ \E r \in Request : CreateRequest(r) \/ \E source \in Request : ReRaise(r, source)
  \/ \E f \in Form : AddItems(f) \/ \E r \in Request : StartAdding(f, r)
  \/ \E i \in Item, l \in Label, n \in Note : Relabel(i, l, n)

PracticeStep ==
  \/ \E r \in Request : CloseRequest(r) \/ ReopenRequest(r) \/ IssueLink(r) \/ LinkEnds(r)
  \/ \E i \in Item : Withdraw(i) \/ Restore(i) \/ NeedsAttention(i) \/ ClearAttention(i) \/ Uncheck(i)
  \/ \E v \in Page, r \in Request : View(v, r) \/ CheckAll(v, r)
  \/ \E v \in Page, i \in Item : Check(v, i)

PostStep ==
  \/ \E p \in Post, i \in Item : StartSaying(p, i) \/ StartSending(p, i) \/ StartAddingFile(p, i)
  \/ \E p \in Post, words \in Says : FinishSaying(p, words)
  \/ \E p \in Post : Refuse(p) \/ RecordAnswer(p)

Next == ListStep \/ PracticeStep \/ PostStep

Spec == Init /\ [][Next]_vars

-----------------------------------------------------------------------------
(* Properties. *)

TypeOK ==
  /\ raised \subseteq Request /\ closed \subseteq Request
  /\ link \in [Request -> {"none", "open", "ended"}]
  /\ owner \in [Item -> Request \union {None}]
  /\ label \in [Item -> Label \union {None}]
  /\ note \in [Item -> Note]
  /\ position \in [Item -> Nat]
  /\ withdrawn \subseteq Item /\ flagged \subseteq Item /\ reviewed \subseteq Item
  /\ says \in [Item -> Maybe]
  /\ answers \in [Post -> Item \union {None}]
  /\ covered \in [Item -> SUBSET Post]
  /\ post \in [Post -> PostState]
  /\ about \in [Post -> Item \union {None}]
  /\ saw \in [Post -> Maybe]
  /\ adding \in [Form -> Request \union {None}]
  /\ shown \in [Page -> SUBSET Post]
  /\ offered \in [Page -> SUBSET Item]
  /\ recorded \subseteq Event \X Item

(* "Checked" is about the files that are there: an item that is marked as      *)
(* checked has files, and every one of them was there when it was checked.     *)
CheckedCoversFiles == \A i \in reviewed : Files(i) # {} /\ Files(i) = covered[i]

(* The items of a request are numbered without gaps or repetition, in spite of *)
(* lists that grow while items are withdrawn and restored.                     *)
PositionsCount ==
  \A r \in Request : {position[i] : i \in ItemsOf(r)} = 0 .. Cardinality(ItemsOf(r)) - 1

(* A request is called ready when, and only when, each document still asked    *)
(* for has arrived, has been checked with all its files, is not flagged, and   *)
(* the client has nothing to say about it.                                     *)
ReadyMeansDone ==
  \A r \in raised : State(r) = "ready" <=>
    \A i \in Live(r) :
      Files(i) # {} /\ i \in reviewed /\ Files(i) = covered[i] /\ i \notin flagged /\ says[i] = "nothing"

NoLabelTwiceOn(r) == \A i, j \in ItemsOf(r) : Fold[label[i]] = Fold[label[j]] => i = j

(* Adding to a list that has no document twice gives one that has none twice,  *)
(* whatever was added while the form was open.                                 *)
AddingRepeatsNothing ==
  [][\A f \in Form, r \in Request :
       adding[f] = r /\ adding'[f] = None /\ NoLabelTwiceOn(r) /\ AddItems(f) => NoLabelTwiceOn(r)']_vars

(* The history tells of every check given and of every check that went.        *)
HistoryTellsOfChecks ==
  [][\A i \in Item :
       /\ <<"item.checked", i>> \in recorded' <=> i \in reviewed' \ reviewed
       /\ i \in reviewed \ reviewed' =>
            {<<"item.check-undone", i>>, <<"item.check-cleared", i>>} \intersect recorded' # {}]_vars

\* Rows name items and requests that exist, and so do the marks and the handlers.
ListIsClosed ==
  /\ \A i \in Item : owner[i] # None => owner[i] \in raised /\ label[i] \in Label
  /\ withdrawn \union flagged \union reviewed \subseteq Asked
  /\ \A v \in Page : offered[v] \subseteq Asked
  /\ \A p \in Post :
       /\ answers[p] # None => answers[p] \in Asked /\ post[p] = "done"
       /\ post[p] \in {"saying", "sending", "bringing"} => about[p] \in Asked
  /\ \A f \in Form : adding[f] # None => adding[f] \in raised

\* The inductive invariant.
ListInv == TypeOK /\ ListIsClosed /\ CheckedCoversFiles /\ PositionsCount

=============================================================================
