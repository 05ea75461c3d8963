------------------------------- MODULE Chasing -------------------------------
(***************************************************************************)
(* What a practice sends: the chase of everyone who owes something          *)
(* (src/chase-views.js), the ask of everyone (src/bulk-ask-views.js), a      *)
(* reminder or an opening sent by hand (src/request-actions.js), and the    *)
(* notice that tells the practice of a client's change (src/notices.js).    *)
(* All of them read the table `event`, await the mail relay, and then       *)
(* write to it.  Several may be under way, the relay may take a letter and  *)
(* not say so, and the process may end between any two steps.               *)
(* A client may have several requests; the code keeps its books by request. *)
(* Time is counted in parts of a day.  The events of a failure or a text    *)
(* are not kept: nothing reads them.                                        *)
(***************************************************************************)
EXTENDS Naturals, FiniteSets

CONSTANTS
  Client,
  Request,
  Run,           \* handlers that send something, each once
  None,
  Cadences,      \* the cadences a practice may set, in days
  PartsOfDay,    \* instants of a day
  MaxClock,
  MaxActs        \* what the practice and its clients do meanwhile

ASSUME TimeAssumption == PartsOfDay \in Nat \ {0} /\ MaxClock \in Nat /\ MaxActs \in Nat
ASSUME CadenceAssumption == Cadences \subseteq 0 .. 365
ASSUME FiniteAssumption == IsFiniteSet(Request)

Clock == 0 .. MaxClock
Day(t) == t \div PartsOfDay

ByHand  == {"reminder", "opening"}
Kinds   == {"chase", "ask", "notice"} \union ByHand
Contact == {"reminder.sent", "request.contacted"}
Events  == [kind : Contact \union {"request.sent", "notice.sent"},
            request : Request, at : Clock, by : Run \union {None}]
Letters == [by : Run \union {None}, request : Request, at : Clock, known : BOOLEAN]
Going   == {"sending", "mailing", "taken"}
Outcome == {"sent", "failed", "not-attempted", "held", "no-address"}

ASSUME NoneAssumption == None \notin Request \union Run \union Kinds \union Outcome

VARIABLES
  clock,
  status,     \* of each request: not made, open, closed
  clientOf,   \* request.client_id, from the start and for good
  owed,       \* requests with a document outstanding
  mailable,   \* clients with an email address
  cadence,    \* practice.cadence_days
  links,      \* access_token: the handlers that issued each request a link
  history,    \* the rows of `event` that something reads; `by` is for the properties
  run,        \* what each handler is doing
  letters,    \* what the relay has taken, and whether it said so; calls, by None
  acts

practiceVars == <<status, owed, mailable, cadence>>
vars == <<clock, clientOf, practiceVars, links, history, run, letters, acts>>

Unsaid == [r \in Request |-> None]
Idle == [kind |-> None, at |-> "idle", todo |-> {}, now |-> None, outcome |-> Unsaid,
         seen |-> {}, every |-> CHOOSE d \in Cadences : TRUE]

Init ==
  /\ clock = 0
  /\ status \in [Request -> {"none", "open"}]
  /\ owed = {r \in Request : status[r] = "open"}
  /\ clientOf \in [Request -> Client]
  /\ mailable = Client
  /\ cadence \in Cadences
  /\ links = [r \in Request |-> {}]
  /\ history = {}
  /\ run = [x \in Run |-> Idle]
  /\ letters = {}
  /\ acts = 0

Open == {r \in Request : status[r] = "open"}
Made == {r \in Request : status[r] # "none"}
Reachable == {r \in Request : clientOf[r] \in mailable}

RecordEvent(kind, r, by) ==
  history' = history \union {[kind |-> kind, request |-> r, at |-> clock, by |-> by]}

Starts(x, kind, at, todo, outcome) ==
  /\ run[x] = Idle
  /\ run' = [run EXCEPT ![x] =
       [kind |-> kind, at |-> at, todo |-> todo, now |-> None, outcome |-> outcome,
        seen |-> {l \in letters : l.known}, every |-> cadence]]

Acts == acts < MaxActs /\ acts' = acts + 1

\* Every loop ends with the process, and no report is ever read.
Ended == [x \in Run |-> IF run[x].at \in Going
                        THEN [run[x] EXCEPT !.at = "over", !.todo = {}, !.now = None]
                        ELSE run[x]]

-----------------------------------------------------------------------------
(* The chase. *)

ChaseList == Open \intersect owed

\* The latest contact of this request, not of its client, is nearer than the cadence; a
\* cadence of 0 holds nobody. An ask or an opening is no contact.
HeldBackBy(r) ==
  \E e \in history : /\ e.request = r
                     /\ e.kind \in Contact
                     /\ clock - e.at < cadence * PartsOfDay

\* chaseSplits: no address comes before the cadence.
ChaseSplits(r) ==
  CASE r \notin ChaseList -> None
    [] r \in ChaseList \ Reachable -> "no-address"
    [] r \in ChaseList \intersect Reachable /\ HeldBackBy(r) -> "held"
    [] OTHER -> None

SendAllReminders(x) ==
  /\ ChaseList # {}
  /\ Starts(x, "chase", "sending",
            {r \in ChaseList : ChaseSplits(r) = None}, [r \in Request |-> ChaseSplits(r)])
  /\ UNCHANGED <<clock, clientOf, practiceVars, links, history, letters, acts>>

\* The link is in the database before anything carries it.
IssueToken(x, r) == links' = [links EXCEPT ![r] = @ \union {x}]

\* sendOneReminder, as far as its await.  A text to the client's phone, where there is
\* one, goes first; whatever comes of it, the letter is tried.
SendOneReminder(x) ==
  /\ run[x].kind = "chase" /\ run[x].at = "sending"
  /\ \E r \in run[x].todo :
       /\ IssueToken(x, r)
       /\ run' = [run EXCEPT ![x].at = "mailing", ![x].now = r, ![x].todo = @ \ {r}]
  /\ UNCHANGED <<clock, clientOf, practiceVars, history, letters, acts>>

\* The loop stops when its time is up, and says whom it did not reach.
OverBudget(x) ==
  /\ run[x].at = "sending" /\ run[x].todo # {}
  /\ \E r \in Request : run[x].outcome[r] \in {"sent", "failed"}
  /\ run' = [run EXCEPT ![x].at = "over", ![x].todo = {},
       ![x].outcome = [r \in Request |-> IF r \in run[x].todo THEN "not-attempted" ELSE @[r]]]
  /\ UNCHANGED <<clock, clientOf, practiceVars, links, history, letters, acts>>

Report(x) ==
  /\ run[x].at = "sending" /\ run[x].todo = {}
  /\ run' = [run EXCEPT ![x].at = "over"]
  /\ UNCHANGED <<clock, clientOf, practiceVars, links, history, letters, acts>>

-----------------------------------------------------------------------------
(* The ask of everyone: every request and its link first, then the letters. *)

\* One new request for each client that was ticked.
Ticked == {asked \in SUBSET (Reachable \ Made) :
             asked # {} /\ \A r, q \in asked : clientOf[r] = clientOf[q] => r = q}

AskEveryone(x) ==
  \E asked \in Ticked :
    /\ Starts(x, "ask", "sending", asked, Unsaid)
    /\ status' = [r \in Request |-> IF r \in asked THEN "open" ELSE status[r]]
    /\ owed' = owed \union asked
    /\ links' = [r \in Request |-> IF r \in asked THEN links[r] \union {x} ELSE links[r]]
    /\ UNCHANGED <<clock, clientOf, mailable, cadence, history, letters, acts>>

\* Each request is a transaction of its own and so is its link: a process that ends here
\* leaves some of them, the last perhaps with no link.
AskCutShort(x) ==
  \E asked \in Ticked : \E linked \in SUBSET asked :
    /\ Cardinality(asked \ linked) <= 1
    /\ run[x] = Idle
    /\ run' = [Ended EXCEPT ![x].at = "over"]
    /\ status' = [r \in Request |-> IF r \in asked THEN "open" ELSE status[r]]
    /\ owed' = owed \union asked
    /\ links' = [r \in Request |-> IF r \in linked THEN links[r] \union {x} ELSE links[r]]
    /\ UNCHANGED <<clock, clientOf, mailable, cadence, history, letters, acts>>

SendOneOpening(x) ==
  /\ run[x].kind = "ask" /\ run[x].at = "sending"
  /\ \E r \in run[x].todo :
       run' = [run EXCEPT ![x].at = "mailing", ![x].now = r, ![x].todo = @ \ {r}]
  /\ UNCHANGED <<clock, clientOf, practiceVars, links, history, letters, acts>>

-----------------------------------------------------------------------------
(* One letter by hand.  Its draft carries a link of its own, and stays in the browser   *)
(* until somebody sends it.                                                             *)

Draft(x, r, kind) ==
  /\ r \in Made
  /\ kind = "reminder" => r \in owed
  /\ Starts(x, kind, "drafted", {r}, Unsaid)
  /\ IssueToken(x, r)
  /\ UNCHANGED <<clock, clientOf, practiceVars, history, letters, acts>>

\* sendReminder, sendOpening: neither asks how long ago the last contact was.
SendDraft(x) ==
  /\ run[x].at = "drafted"
  /\ run[x].todo \subseteq Reachable
  /\ \E r \in run[x].todo :
       run' = [run EXCEPT ![x].at = "mailing", ![x].now = r, ![x].todo = {}]
  /\ UNCHANGED <<clock, clientOf, practiceVars, links, history, letters, acts>>

-----------------------------------------------------------------------------
(* The notice to the practice, after the client's change is kept and answered. *)

\* Mutant: a notice is remembered for a part of a day.
ToldJustNow(r) == \E e \in history : e.kind = "notice.sent" /\ e.request = r /\ e.at = clock

\* lastNoticeAt fell on the practice's own today.
ToldToday(r) ==
  \E e \in history : e.kind = "notice.sent" /\ e.request = r /\ Day(e.at) = Day(clock)

\* A client sends what is owed or says something.  With mail and notices on, the practice
\* is told once a day.
ClientChanges(r) ==
  /\ r \in Open
  /\ owed' \in {owed, owed \ {r}}
  /\ \/ ~ToldToday(r) /\ \E x \in Run : Starts(x, "notice", "sending", {r}, Unsaid)
        /\ UNCHANGED acts
     \/ UNCHANGED run /\ Acts
  /\ UNCHANGED <<clock, clientOf, status, mailable, cadence, links, history, letters>>

NotifyPractice(x) ==
  /\ run[x].kind = "notice" /\ run[x].at = "sending"
  /\ \E r \in run[x].todo :
       run' = [run EXCEPT ![x].at = "mailing", ![x].now = r, ![x].todo = {}]
  /\ UNCHANGED <<clock, clientOf, practiceVars, links, history, letters, acts>>

-----------------------------------------------------------------------------
(* The relay, and what each handler makes of its answer. *)

Sent == [k \in Kinds |-> CASE k \in {"chase", "reminder"} -> "reminder.sent"
                            [] k \in {"ask", "opening"}   -> "request.sent"
                            [] k = "notice"               -> "notice.sent"]

After(x) == IF run[x].kind \in {"chase", "ask"} THEN "sending" ELSE "over"

\* The runs that write to many have a report.
Tells(x, what) == IF run[x].kind \in {"chase", "ask"}
                  THEN [run[x].outcome EXCEPT ![run[x].now] = what] ELSE Unsaid

RelayTakes(x) ==
  /\ run[x].at = "mailing"
  /\ letters' = letters \union {[by |-> x, request |-> run[x].now, at |-> clock, known |-> FALSE]}
  /\ run' = [run EXCEPT ![x].at = "taken"]
  /\ UNCHANGED <<clock, clientOf, practiceVars, links, history, acts>>

Answered(x) ==
  letters' = {[l EXCEPT !.known = @ \/ (l.by = x /\ l.request = run[x].now)] : l \in letters}

\* Mutant: the letter is recorded when it is handed over.
RecordAsHanded(x) ==
  /\ run[x].at \in {"mailing", "taken"}
  /\ RecordEvent(Sent[run[x].kind], run[x].now, x)
  /\ run' = [run EXCEPT ![x].at = After(x), ![x].now = None, ![x].outcome = Tells(x, "sent")]
  /\ Answered(x)
  /\ UNCHANGED <<clock, clientOf, practiceVars, links, acts>>

\* Mutant: a reminder of the chase is not recorded.
RecordByHandAlone(x) ==
  /\ run[x].at = "taken"
  /\ IF run[x].kind = "chase" THEN UNCHANGED history
     ELSE RecordEvent(Sent[run[x].kind], run[x].now, x)
  /\ run' = [run EXCEPT ![x].at = After(x), ![x].now = None, ![x].outcome = Tells(x, "sent")]
  /\ Answered(x)
  /\ UNCHANGED <<clock, clientOf, practiceVars, links, acts>>

\* The relay's answer arrives: the event is written, and the report will say "sent".
RecordSent(x) ==
  /\ run[x].at = "taken"
  /\ RecordEvent(Sent[run[x].kind], run[x].now, x)
  /\ run' = [run EXCEPT ![x].at = After(x), ![x].now = None, ![x].outcome = Tells(x, "sent")]
  /\ Answered(x)
  /\ UNCHANGED <<clock, clientOf, practiceVars, links, acts>>

\* The relay refuses, or is silent until the handler gives up: perhaps after it took the
\* letter.  A failure stops nobody else's letter; one by hand may be sent again, as another.
Fails(x) ==
  /\ run[x].at \in {"mailing", "taken"}
  /\ run' = [run EXCEPT ![x].at = After(x), ![x].now = None, ![x].outcome = Tells(x, "failed")]
  /\ UNCHANGED <<clock, clientOf, practiceVars, links, history, letters, acts>>

Continue(x) ==
  \/ SendOneReminder(x) \/ SendOneOpening(x) \/ NotifyPractice(x)
  \/ OverBudget(x) \/ Report(x)
  \/ RelayTakes(x) \/ RecordSent(x) \/ Fails(x)

Crash ==
  /\ run' = Ended /\ run' # run
  /\ UNCHANGED <<clock, clientOf, practiceVars, links, history, letters, acts>>

-----------------------------------------------------------------------------
(* The practice meanwhile. *)

\* A call, a letter by post: the practice writes it down.
LogContact(r) ==
  /\ r \in Made
  /\ RecordEvent("request.contacted", r, None)
  /\ letters' = letters \union {[by |-> None, request |-> r, at |-> clock, known |-> TRUE]}
  /\ Acts
  /\ UNCHANGED <<clock, clientOf, practiceVars, links, run>>

SetCadence(days) ==
  /\ cadence' = days
  /\ Acts
  /\ UNCHANGED <<clock, clientOf, status, owed, mailable, links, history, run, letters>>

\* saveClient: an address is given or taken away.
SaveAddress(c) ==
  /\ mailable' = IF c \in mailable THEN mailable \ {c} ELSE mailable \union {c}
  /\ Acts
  /\ UNCHANGED <<clock, clientOf, status, owed, cadence, links, history, run, letters>>

CloseOrReopen(r) ==
  /\ r \in Made
  /\ status' = [status EXCEPT ![r] = IF @ = "open" THEN "closed" ELSE "open"]
  /\ Acts
  /\ UNCHANGED <<clock, clientOf, owed, mailable, cadence, links, history, run, letters>>

AskAgain(r) ==
  /\ r \in Made /\ r \notin owed
  /\ owed' = owed \union {r}
  /\ Acts
  /\ UNCHANGED <<clock, clientOf, status, mailable, cadence, links, history, run, letters>>

Tick ==
  /\ clock < MaxClock
  /\ clock' = clock + 1
  /\ UNCHANGED <<clientOf, practiceVars, links, history, run, letters, acts>>

Next ==
  \/ \E x \in Run :
       \/ SendAllReminders(x) \/ AskEveryone(x) \/ AskCutShort(x)
       \/ SendDraft(x) \/ Continue(x)
       \/ \E r \in Request, kind \in ByHand : Draft(x, r, kind)
  \/ \E r \in Request : \/ LogContact(r) \/ ClientChanges(r)
                         \/ CloseOrReopen(r) \/ AskAgain(r)
  \/ \E c \in Client : SaveAddress(c)
  \/ \E days \in Cadences : SetCadence(days)
  \/ Crash \/ Tick

Spec == Init /\ [][Next]_vars

-----------------------------------------------------------------------------
TypeOK ==
  /\ clock \in Clock /\ acts \in 0 .. MaxActs
  /\ status \in [Request -> {"none", "open", "closed"}]
  /\ clientOf \in [Request -> Client]
  /\ owed \subseteq Made /\ mailable \subseteq Client
  /\ cadence \in Cadences
  /\ links \in [Request -> SUBSET Run]
  /\ history \subseteq Events /\ letters \subseteq Letters
  /\ run \in [Run -> [kind : Kinds \union {None},
                      at : Going \union {"idle", "drafted", "over"},
                      todo : SUBSET Request, now : Request \union {None},
                      outcome : [Request -> Outcome \union {None}],
                      seen : SUBSET Letters, every : Cadences]]

Wrote(x, r) == \E l \in letters : l.by = x /\ l.request = r
By(l, kind) == l.by # None /\ run[l.by].kind = kind

\* "The failure this feature exists to prevent is a 'sent' that was not": an event that says
\* sent, and a report that says so, has a letter the relay took; one reported as held back,
\* not reached or without an address was not written to.  sendOneReminder, sendAllReminders,
\* sendOneOpening, sendReminder, notifyPracticeOfChange.
SaidIsSent ==
  /\ \A e \in history : Wrote(e.by, e.request)
  /\ \A x \in Run, r \in Request :
       CASE run[x].outcome[r] = "sent" -> Wrote(x, r)
         [] run[x].outcome[r] \in {"not-attempted", "held", "no-address"} -> ~Wrote(x, r)
         [] OTHER -> TRUE

\* "Any number of days holds a repeat back", for one request: a letter of the chase nearer
\* than the cadence to an earlier reminder or call about that request was listed while that
\* one was still on its way, or the relay's answer to it never came.  chaseSplits against
\* recordEvent.
TooSoonOnlyUnknowing ==
  \A b \in letters : By(b, "chase") =>
    \A a \in run[b.by].seen :
      /\ a.request = b.request
      /\ a.by = None \/ By(a, "chase") \/ By(a, "reminder")
      => b.at - a.at >= run[b.by].every * PartsOfDay

\* "Once per request per day": two notices of one request on one day were on their way at
\* once, or the relay's answer to the first never came.  notifyPracticeOfChange.
OneNoticeADay ==
  \A b \in letters : By(b, "notice") =>
    \A a \in run[b.by].seen :
      a.request = b.request /\ By(a, "notice") => Day(a.at) # Day(b.at)
=============================================================================
