----------------------------- MODULE MailSession -----------------------------
(***************************************************************************)
(* One letter handed to a mail relay: sendMail of src/mailer.js with its     *)
(* SmtpSession, and a relay that may refuse, fall silent or hang up at any   *)
(* line.  The client writes a line, reads a reply of one or more lines, and  *)
(* goes on only with the code the step wants.  Lines arrive on their own     *)
(* while the client awaits something else; a break is remembered until the   *)
(* next reply is asked for.                                                  *)
(* The relay is external: it answers what it was asked, in order.            *)
(***************************************************************************)
EXTENDS Naturals, Sequences

CONSTANTS
  MaxLines,     \* the most lines of a reply
  Offers        \* what a relay may offer in its greeting, as sets of words

ASSUME LinesAssumption == MaxLines \in Nat \ {0}
ASSUME OffersAssumption == Offers \subseteq SUBSET {"STARTTLS", "PLAIN", "LOGIN"}

\* parseSmtpUrl, mailerFromEnvironment: the scheme, credentials or none, the explicit flag.
Configs == [implicitTls : BOOLEAN, user : BOOLEAN, insecure : BOOLEAN]

VARIABLES
  config,
  step,       \* what the client awaits: the step of sendMail
  waiting,    \* readReply's lines so far, <<>> when nobody waits for one
  asked,      \* a readReply is pending
  failure,    \* the session was broken
  lines,      \* whole lines that nobody has asked for yet
  socket,     \* none, plain, secure or destroyed
  greeting,   \* what the last EHLO offered
  outcome,    \* of sendMail: none, sent, failed, handled
  relay,      \* the relay: its offers, the step it last answered, and what it took
  answers     \* lines on their way

mailVars == <<config, step, waiting, asked, failure, lines, socket, greeting, outcome,
              relay, answers>>

Line(of, code, last) == [of |-> of, code |-> code, last |-> last]

MailInit ==
  /\ config \in Configs
  /\ step = "called" /\ waiting = <<>> /\ asked = FALSE /\ failure = FALSE
  /\ lines = <<>> /\ socket = "none" /\ greeting = {} /\ outcome = "none"
  /\ \E offers \in Offers : relay = [offers |-> offers, heard |-> "none", took |-> 0, gone |-> FALSE]
  /\ answers = <<>>

Over == outcome # "none"

\* The finally block: the handlers are removed and the socket destroyed.
Closes == socket' = "destroyed" /\ asked' = FALSE /\ waiting' = <<>>

GivesUp == outcome' = "failed" /\ step' = "over" /\ Closes

-----------------------------------------------------------------------------
(* The connection. *)

\* A deployment may take the letter itself.
Handled ==
  /\ step = "called" /\ ~Over
  /\ outcome' = "handled" /\ step' = "over"
  /\ UNCHANGED <<config, waiting, asked, failure, lines, socket, greeting, relay, answers>>

\* The relay speaks first, once somebody is there.
OpenSocket ==
  /\ step = "called" /\ ~Over
  /\ socket' = IF config.implicitTls THEN "secure" ELSE "plain"
  /\ step' = "greeting" /\ asked' = TRUE
  /\ relay' = [relay EXCEPT !.heard = "greeting"]
  /\ UNCHANGED <<config, waiting, failure, lines, greeting, outcome, answers>>

CannotConnect ==
  /\ step = "called" /\ ~Over
  /\ GivesUp
  /\ UNCHANGED <<config, failure, lines, greeting, relay, answers>>

\* send(line), then a reply is asked for: a broken session has none to give.
Asks(s) ==
  /\ step' = s
  /\ relay' = [relay EXCEPT !.heard = s]
  /\ asked' = TRUE

-----------------------------------------------------------------------------
(* Replies. *)

\* Mutant: any line ends a reply.
AnyLine(line) == TRUE

\* `250 x` ends a reply and `250-x` goes on.
EndsReply(line) == line.last

Complete == asked /\ waiting # <<>> /\ EndsReply(waiting[Len(waiting)])
Reply == waiting[Len(waiting)]

DataArrives ==
  /\ answers # <<>> /\ socket \in {"plain", "secure"}
  /\ lines' = Append(lines, Head(answers)) /\ answers' = Tail(answers)
  /\ UNCHANGED <<config, step, waiting, asked, failure, socket, greeting, outcome, relay>>

\* settle(): a line goes to the reply that is waited for.
Settle ==
  /\ asked /\ lines # <<>> /\ ~Complete
  /\ waiting' = Append(waiting, Head(lines)) /\ lines' = Tail(lines)
  /\ UNCHANGED <<config, step, asked, failure, socket, greeting, outcome, relay, answers>>

\* Mutant: the timer stays with the socket that TLS took over.
TimerLeftBehind == socket = "plain"

\* attach() gives whichever socket the session has its timer and its handlers.
Watched == socket \in {"plain", "secure"}

\* break(): silence, an error or a close.
Break ==
  /\ Watched /\ ~Over /\ ~failure
  /\ failure' = TRUE
  /\ relay' = [relay EXCEPT !.gone = TRUE]
  /\ UNCHANGED <<config, step, waiting, asked, lines, socket, greeting, outcome, answers>>

Wanted(s) ==
  CASE s \in {"greeting", "starttls"} -> "220"
    [] s \in {"ehlo", "ehlo again", "mail", "body", "rcpt"} -> "250"
    [] s \in {"auth", "password"} -> "235"
    [] s \in {"login", "user"} -> "334"
    [] s = "data" -> "354"
    [] s = "quit" -> "221"
    [] OTHER -> "none"

\* expect(): the code is among those the step wants.
Expected(s, code) == code = Wanted(s)

\* A reply that does not come, or not the one wanted; what is lost after QUIT is nothing.
Fail ==
  /\ ~Over /\ asked
  /\ \/ failure /\ ~Complete
     \/ Complete /\ ~Expected(step, Reply.code)
  /\ IF step = "quit" THEN outcome' = "sent" /\ step' = "over" /\ Closes ELSE GivesUp
  /\ UNCHANGED <<config, failure, lines, greeting, relay, answers>>

-----------------------------------------------------------------------------
(* The conversation. *)

\* Without TLS, credentials go only where the operator said so.
MayAuthenticate == ~config.user \/ config.insecure \/ socket = "secure"

\* What sendMail does once the relay has said what it offers.
AfterHello(offers) ==
  IF socket = "plain" /\ "STARTTLS" \in offers /\ step = "ehlo" THEN "starttls"
  ELSE IF ~MayAuthenticate THEN "refuse"
  ELSE IF ~config.user THEN "mail"
  ELSE IF "PLAIN" \in offers THEN "auth"
  ELSE IF "LOGIN" \in offers THEN "login"
  ELSE "refuse"

After ==
  [greeting |-> "ehlo", auth |-> "mail", login |-> "user", user |-> "password",
   password |-> "mail", mail |-> "rcpt", rcpt |-> "data", data |-> "body", body |-> "quit"]

\* The reply is the one wanted, and the next line is sent.
Proceed ==
  /\ ~Over /\ Complete /\ Expected(step, Reply.code)
  /\ LET offers == relay.offers
         hello == step \in {"ehlo", "ehlo again"}
         next == IF hello THEN AfterHello(offers) ELSE IF step = "quit" THEN "over" ELSE After[step] IN
     /\ step # "starttls"
     /\ greeting' = IF hello THEN offers ELSE greeting
     /\ CASE next = "refuse" -> GivesUp /\ UNCHANGED relay
          [] next = "over" -> /\ outcome' = "sent" /\ step' = "over" /\ Closes
                              /\ UNCHANGED relay
          [] OTHER -> /\ Asks(next) /\ waiting' = <<>>
                      /\ UNCHANGED <<outcome, socket>>
  /\ UNCHANGED <<config, failure, lines, answers>>

\* upgrade() and attach(): the session goes on over TLS, and asks again what is offered.
Upgrade ==
  /\ ~Over /\ step = "starttls" /\ Complete /\ Expected(step, Reply.code)
  /\ socket' = "secure" /\ waiting' = <<>> /\ Asks("ehlo again")
  /\ UNCHANGED <<config, failure, lines, greeting, outcome, answers>>

UpgradeFails ==
  /\ ~Over /\ step = "starttls" /\ Complete /\ Expected(step, Reply.code)
  /\ GivesUp
  /\ UNCHANGED <<config, failure, lines, greeting, relay, answers>>

-----------------------------------------------------------------------------
(* The relay. *)

Lines(s, code, n) == [i \in 1 .. n |-> Line(s, code, i = n)]

\* It does what it was asked and says so, in some lines.
Answers ==
  /\ relay.heard # "none" /\ ~relay.gone
  /\ \E code \in {Wanted(relay.heard), "refused", "deferred"}, n \in 1 .. MaxLines :
       /\ answers' = answers \o Lines(relay.heard, code, n)
       /\ relay' = [relay EXCEPT !.heard = "none",
                      !.took = @ + IF relay.heard = "body" /\ code = "250" THEN 1 ELSE 0]
  /\ UNCHANGED <<config, step, waiting, asked, failure, lines, socket, greeting, outcome>>

\* It has taken the letter, and the answer never leaves.
TakesAndGoes ==
  /\ relay.heard = "body" /\ ~relay.gone
  /\ relay' = [relay EXCEPT !.heard = "none", !.took = @ + 1, !.gone = TRUE]
  /\ UNCHANGED <<config, step, waiting, asked, failure, lines, socket, greeting, outcome, answers>>

Client == OpenSocket \/ DataArrives \/ Settle \/ Fail \/ Proceed \/ Upgrade
MailNext == Client \/ Handled \/ CannotConnect \/ Break \/ UpgradeFails \/ Answers \/ TakesAndGoes

\* The event loop runs the client; a silence sets off the socket's timer.
MailFairness == WF_mailVars(Client) /\ WF_mailVars(Break \/ Answers)

MailSpec == MailInit /\ [][MailNext]_mailVars /\ MailFairness

-----------------------------------------------------------------------------
Steps == {"called", "greeting", "ehlo", "starttls", "ehlo again", "auth", "login", "user",
          "password", "mail", "rcpt", "data", "body", "quit", "over"}
MailTypeOK ==
  /\ greeting \subseteq {"STARTTLS", "PLAIN", "LOGIN"}
  /\ config \in Configs /\ step \in Steps /\ asked \in BOOLEAN /\ failure \in BOOLEAN
  /\ socket \in {"none", "plain", "secure", "destroyed"}
  /\ outcome \in {"none", "sent", "failed", "handled"}
  /\ relay.took \in 0 .. 1 /\ relay.heard \in Steps \union {"none"}

\* A letter is said to be sent when the relay took it, once, and the reply to each line was the
\* relay's answer to that line, however its answers are cut into lines.
SentIsTaken ==
  /\ outcome = "sent" => relay.took = 1
  /\ \A i \in DOMAIN waiting : waiting[i].of = step

\* A password goes over an unencrypted connection only to a relay that has nothing better to
\* offer, and where the operator allowed it (sendMail's refusal before AUTH).
PasswordsAreCovered ==
  step \in {"auth", "login", "user", "password"} =>
    socket = "secure" \/ (config.insecure /\ "STARTTLS" \notin relay.offers)

\* Every letter's sending ends, and leaves no socket behind.
SendingEnds == <>[](Over /\ socket \in {"none", "destroyed"} /\ ~asked)
=============================================================================
