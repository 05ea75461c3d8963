----------------------------- MODULE MCFairParts -----------------------------
(* Three parts whose work must end, each explored by itself: the practice's      *)
(* pages, a letter on its way to a relay, and an invitation being accepted.      *)
EXTENDS PracticePage, MailSession, HostedInvite, TLC

VARIABLE part

\* Two names that differ in their case, and one that the second would be given.
MCUploads == SetToSeq(Upload)
MCStem == [u \in Upload |-> IF u = MCUploads[1] THEN <<"Bank", "scan">>
                            ELSE IF u = MCUploads[2] THEN <<"Bank", "SCAN">>
                            ELSE <<"Bank", "scan", "2">>]
MCFolded == [x \in {"SCAN"} |-> "scan"]

\* An empty document among others.
MCLen == [u \in Upload |-> IF u = MCUploads[1] THEN 0 ELSE 7]

\* The page lists the files in one order, and at most one is missing from it.
MCShown == shown = <<>> \/ \E gone \in SUBSET Upload :
                             Cardinality(gone) <= 1 /\ shown = SetToSeq(Upload \ gone)

\* One address has an account and another none; what comes of one address that is
\* invited comes of any.
OneHasAnAccount ==
    [e \in Emails |-> IF e = CHOOSE f \in Emails : TRUE THEN NoOne ELSE CHOOSE p \in Passwords : TRUE]

\* A part that is not explored has one initial state.
FairInit ==
    /\ part \in {"practice", "mail", "invites"} /\ PracticePageInit /\ MailInit /\ Init
    /\ part # "practice" => /\ \A u \in Upload : rows[u].envelope.key # NoKey
                           /\ records = {WrapPkcs8(1, CHOOSE phrase \in Phrase : TRUE)}
    /\ part # "mail" => /\ config = CHOOSE c \in Configs : TRUE
                       /\ relay.offers = CHOOSE offers \in Offers : TRUE
    /\ account = OneHasAnAccount

FairNext ==
    /\ \/ part = "practice" /\ PracticePageNext /\ MCShown' /\ UNCHANGED <<mailVars, vars>>
       \/ part = "mail"     /\ MailNext         /\ UNCHANGED <<practicePageVars, vars>>
       \/ part = "invites"  /\ Next             /\ UNCHANGED <<practicePageVars, mailVars>>
    /\ UNCHANGED part

\* The letter's own fairness is asked for where there is one.
FairSpec ==
    /\ FairInit /\ [][FairNext]_<<practicePageVars, mailVars, vars, part>>
    /\ PracticePageFairness /\ Fairness
    /\ WF_mailVars(part = "mail" /\ Client) /\ WF_mailVars(part = "mail" /\ (Break \/ Answers))

\* Every letter's sending ends, and leaves no socket behind.
LettersEnd == part = "mail" => SendingEnds
=============================================================================
