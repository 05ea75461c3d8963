-------------------------------- MODULE SignIn --------------------------------
(***************************************************************************)
(* One person's account: signing up, the password, the second factor, the  *)
(* reset link, and the sessions all of them make and end                   *)
(* (src/src/signin-views.js, account-views.js, auth.js, ratelimit.js and   *)
(* the links of store.js).  A handler runs to its next await in one step:  *)
(* the body of the request, or scrypt, which is off the thread.  Passwords *)
(* and codes are right or wrong; the address does not change.              *)
(***************************************************************************)
EXTENDS Integers, Sequences, FiniteSets

CONSTANTS
    Session,      \* rows of table session
    Challenge,    \* rows of table login_challenge
    Flight,       \* requests that wait for a body or a hash
    Bucket,       \* the limiter's keys that are counted
    None,
    Limit,        \* createAttemptLimiter's limit
    MaxAttempts,  \* MAX_CODE_ATTEMPTS
    MaxEras,      \* bound: changes of password and removals
    MaxSignups,   \* bound: sign-up links open at once
    MaxResets     \* bound: reset links

ASSUME NoneAssumption   == None \notin Session \cup Challenge
ASSUME LimitAssumption  == {Limit, MaxAttempts} \subseteq Nat \ {0}
ASSUME BoundAssumption  == {MaxEras, MaxSignups, MaxResets} \subseteq Nat
ASSUME FlightAssumption == IsFiniteSet(Flight) /\ Flight # {}

VARIABLES
    standing,   \* the row of table practitioner: none, a member, or removed
    era,        \* counts the passwords set and the removals
    factor,     \* twoFactorState
    session,    \* session[s]: live, and (ghosts) the era it was made in and
                \* whether its proof was of an earlier one
    challenge,  \* challenge[c]: open, attempts, and (ghosts) era and wrong guesses
    signups,    \* how many rows of table signup_token are open
    resets,     \* table password_reset: which of its links are still open
    failures,   \* failures[b]: the recent failures of a limiter's key
    flight      \* flight[f]: what the request awaits and what it read before

account == <<standing, era>>
links   == <<signups, resets>>
vars    == <<account, factor, session, challenge, links, failures, flight>>

-----------------------------------------------------------------------------
NoSession   == [live |-> FALSE, made |-> 0, late |-> FALSE]
NoChallenge == [open |-> FALSE, attempts |-> 0, from |-> 0, guesses |-> 0]
NoFlight    == [op |-> "none", tok |-> None, from |-> 0, ok |-> FALSE]

Setters  == {"reset", "operator", "check", "change"}
Referred == {flight[f].tok : f \in Flight}

\* createSession, with a token nobody else has.
createSession(proof, made) ==
    \E s \in Session \ Referred :
        /\ ~session[s].live
        /\ session' = [session EXCEPT
               ![s] = [live |-> TRUE, made |-> made, late |-> proof # made]]

endAllSessions == session' = [s \in Session |-> NoSession]

\* endAllSessionsExcept: the session that stays is one of the new password.
endAllSessionsExcept(keep) ==
    session' = [s \in Session |->
        IF s = keep /\ session[s].live
        THEN [session[s] EXCEPT !.made = era', !.late = FALSE]
        ELSE NoSession]

\* Mutant: one failure more than the limit is let through.
blockedAfter(b) == b \in Bucket /\ failures[b] > Limit

blockedFor(b) == b \in Bucket /\ failures[b] >= Limit
failed(b)     == failures' = [failures EXCEPT ![b] = IF b \in Bucket THEN @ + 1 ELSE @]
succeeded(b)  == failures' = [failures EXCEPT ![b] = 0]

\* sessionFor: the session a signed-in request shows.
SignedIn(s) == session[s].live /\ standing = "member"

Starts(f, op, tok, ok) ==
    /\ flight[f] = NoFlight
    /\ flight' = [flight EXCEPT ![f] = [NoFlight EXCEPT !.op = op, !.tok = tok, !.ok = ok]]

Ends(f, op) ==
    /\ flight[f].op = op
    /\ flight' = [flight EXCEPT ![f] = NoFlight]

\* Whether the bound leaves room for one more, those on their way counted.
Room    == era + Cardinality({f \in Flight : flight[f].op \in Setters}) < MaxEras
NextEra == era' = era + 1

-----------------------------------------------------------------------------
(* Signing up. *)

\* signUp and resend: a link is mailed whether or not the address is taken.
\* A link sent again needs one that is still open.
SignUp(again) ==
    /\ signups < MaxSignups
    /\ ~blockedFor("signup") /\ failed("signup")
    /\ again => signups > 0
    /\ signups' = signups + 1
    /\ UNCHANGED <<account, factor, session, challenge, resets, flight>>

\* verifyAccount and claimSignup.
VerifyAccount ==
    /\ signups > 0
    /\ signups' = signups - 1
    /\ IF standing = "none"
       THEN /\ Room
            /\ standing' = "member"
            /\ NextEra
            /\ createSession(era', era')
       ELSE UNCHANGED <<account, session>>
    /\ UNCHANGED <<factor, challenge, resets, failures, flight>>

-----------------------------------------------------------------------------
(* Signing in. *)

\* signIn as far as the hash: the limiter and the row are read.
Knock(f) ==
    /\ ~blockedFor("password")
    /\ flight[f] = NoFlight
    /\ \E right \in BOOLEAN :
          flight' = [flight EXCEPT ![f] =
              [op   |-> IF standing = "removed" THEN "removed" ELSE "password",
               tok  |-> None,
               from |-> era,
               ok   |-> right /\ standing # "none"]]
    /\ UNCHANGED <<account, factor, session, challenge, links, failures>>

\* The row read before the hash was a removed member's: told so, if it is right.
TurnAway(f) ==
    /\ Ends(f, "removed")
    /\ IF flight[f].ok THEN succeeded("password") ELSE failed("password")
    /\ UNCHANGED <<account, factor, session, challenge, links>>

\* The rest of signIn, for a row that was not; the second factor is asked now.
CheckPassword(f) ==
    /\ Ends(f, "password")
    /\ IF ~flight[f].ok
       THEN /\ failed("password")
            /\ UNCHANGED <<session, challenge>>
       ELSE /\ succeeded("password")
            /\ IF factor = "on"
               THEN /\ \E c \in Challenge \ Referred :
                          /\ ~challenge[c].open
                          /\ challenge' = [challenge EXCEPT
                                 ![c] = [NoChallenge EXCEPT !.open = TRUE, !.from = flight[f].from]]
                    /\ UNCHANGED session
               ELSE createSession(flight[f].from, era) /\ UNCHANGED challenge
    /\ UNCHANGED <<account, factor, links>>

\* signInCode as far as the body.
SendCode(f, c) ==
    /\ challenge[c].open
    /\ ~blockedFor("code")
    /\ Starts(f, "code", c, TRUE)
    /\ UNCHANGED <<account, factor, session, challenge, links, failures>>

\* The row is deleted; what was known of it goes with the last request about it.
EndChallenge(c) ==
    challenge' = [challenge EXCEPT ![c] =
        IF \E f \in Flight : flight'[f].tok = c THEN [@ EXCEPT !.open = FALSE] ELSE NoChallenge]

\* The rest of signInCode, which does not ask again whether the challenge is
\* there: the factor was turned off meanwhile, ...
CodeNotNeeded(f) ==
    /\ Ends(f, "code")
    /\ factor # "on"
    /\ EndChallenge(flight[f].tok)
    /\ createSession(challenge[flight[f].tok].from, era)
    /\ UNCHANGED <<account, factor, links, failures>>

\* ... or the code is the authenticator's and not the last one accepted, or
\* an unused recovery code, which is spent, ...
CodeRight(f) ==
    /\ Ends(f, "code")
    /\ factor = "on"
    /\ succeeded("code")
    /\ EndChallenge(flight[f].tok)
    /\ createSession(challenge[flight[f].tok].from, era)
    /\ UNCHANGED <<account, factor, links>>

\* spendAttemptOn: the attempt is counted on the row, if there is one.
spendAttemptOn(c) == ~challenge[c].open \/ challenge[c].attempts + 1 >= MaxAttempts

\* ... or it is wrong.
CodeWrong(f) ==
    LET c == flight[f].tok IN
    /\ Ends(f, "code")
    /\ factor = "on"
    /\ failed("code")
    /\ challenge' = [challenge EXCEPT ![c] =
           [open     |-> @.open /\ ~spendAttemptOn(c),
            attempts |-> IF @.open THEN @.attempts + 1 ELSE @.attempts,
            from     |-> @.from,
            guesses  |-> @.guesses + 1]]
    /\ UNCHANGED <<account, factor, session, links>>

-----------------------------------------------------------------------------
(* A lost password. *)

\* forgot, and resend for a reset: also for a removed member.
Forgot ==
    /\ standing # "none"
    /\ Len(resets) < MaxResets
    /\ ~blockedFor("forgot") /\ failed("forgot")
    /\ resets' = Append(resets, TRUE)
    /\ UNCHANGED <<account, factor, session, challenge, signups, flight>>

ResetOpen(l) == resets[l] /\ standing = "member"

\* reset as far as the hash: the body is there and the link is open.
AskReset(f, l) ==
    /\ ResetOpen(l)
    /\ Room
    /\ Starts(f, "reset", l, TRUE)
    /\ UNCHANGED <<account, factor, session, challenge, links, failures>>

\* Mutant: whoever set a new password is signed in with it.
ResetSignsIn(f) ==
    LET l == flight[f].tok IN
    /\ Ends(f, "reset")
    /\ ResetOpen(l)
    /\ resets' = [resets EXCEPT ![l] = FALSE]
    /\ NextEra
    /\ \E n \in Session :
          session' = [s \in Session |-> [NoSession EXCEPT !.live = (s = n), !.made = era']]
    /\ UNCHANGED <<standing, factor, challenge, signups, failures>>

\* claimPasswordReset asks again, in its transaction; then every session ends.
Reset(f) ==
    LET l == flight[f].tok IN
    /\ Ends(f, "reset")
    /\ IF ResetOpen(l)
       THEN /\ resets' = [resets EXCEPT ![l] = FALSE]
            /\ NextEra
            /\ endAllSessions
       ELSE UNCHANGED <<resets, era, session>>
    /\ UNCHANGED <<standing, factor, challenge, signups, failures>>

\* tools/reset-password.mjs finds the account, then hashes, then sets.
OperatorAsks(f) ==
    /\ standing # "none"
    /\ Room
    /\ Starts(f, "operator", None, TRUE)
    /\ UNCHANGED <<account, factor, session, challenge, links, failures>>

OperatorSets(f) ==
    /\ Ends(f, "operator")
    /\ NextEra
    /\ endAllSessions
    /\ UNCHANGED <<standing, factor, challenge, links, failures>>

-----------------------------------------------------------------------------
(* The account's own pages. *)

\* changeOwnPassword as far as the check of the current password, ...
AskChange(f, s) ==
    /\ SignedIn(s)
    /\ Room
    /\ ~blockedFor("credential")
    /\ \E right \in BOOLEAN : Starts(f, "check", s, right)
    /\ UNCHANGED <<account, factor, session, challenge, links, failures>>

\* ... from there to the hash of the new one, ...
CheckCurrent(f) ==
    /\ flight[f].op = "check"
    /\ IF flight[f].ok
       THEN flight' = [flight EXCEPT ![f].op = "change"] /\ succeeded("credential")
       ELSE flight' = [flight EXCEPT ![f] = NoFlight]    /\ failed("credential")
    /\ UNCHANGED <<account, factor, session, challenge, links>>

\* Mutant: a session that is gone meanwhile ends no other.
ChangePasswordAlone(f) ==
    /\ Ends(f, "change")
    /\ NextEra
    /\ IF session[flight[f].tok].live
       THEN endAllSessionsExcept(flight[f].tok)
       ELSE UNCHANGED session
    /\ UNCHANGED <<standing, factor, challenge, links, failures>>

\* ... and the rest.
ChangePassword(f) ==
    /\ Ends(f, "change")
    /\ NextEra
    /\ endAllSessionsExcept(flight[f].tok)
    /\ UNCHANGED <<standing, factor, challenge, links, failures>>

\* twoFactorStart, which has no body: whatever the factor was, it is not on.
TwoFactorStart(s) ==
    /\ SignedIn(s)
    /\ factor' = "unconfirmed"
    /\ UNCHANGED <<account, session, challenge, links, failures, flight>>

\* The forms of the account that wait for a body and then read everything.
AskAccount(f, s) ==
    /\ SignedIn(s)
    /\ Starts(f, "account", s, TRUE)
    /\ UNCHANGED <<account, factor, session, challenge, links, failures>>

\* twoFactorConfirm.
TwoFactorConfirm(f) ==
    /\ Ends(f, "account")
    /\ factor = "unconfirmed"
    /\ factor' = "on"
    /\ UNCHANGED <<account, session, challenge, links, failures>>

\* codeAuthorises says yes when the factor is not on; else it takes a code.
\* twoFactorNewCodes arms whatever secret is there.
CodeAuthorises ==
    IF factor = "on"
    THEN ~blockedFor("manage") /\ succeeded("manage")
    ELSE UNCHANGED failures

TwoFactorNewCodes(f) ==
    /\ Ends(f, "account")
    /\ CodeAuthorises
    /\ factor' = IF factor = "off" THEN "off" ELSE "on"
    /\ UNCHANGED <<account, session, challenge, links>>

TwoFactorOff(f) ==
    /\ Ends(f, "account")
    /\ CodeAuthorises
    /\ factor' = "off"
    /\ UNCHANGED <<account, session, challenge, links>>

\* Either form with a wrong code, or one that is refused before it is read.
AccountRefused(f) ==
    /\ Ends(f, "account")
    /\ \/ factor = "on" /\ ~blockedFor("manage") /\ failed("manage")
       \/ UNCHANGED failures
    /\ UNCHANGED <<account, factor, session, challenge, links>>

\* endOneSessionPage: any session but the one asking.
EndOne(f, s) ==
    /\ Ends(f, "account")
    /\ s # flight[f].tok
    /\ session[s].live
    /\ session' = [session EXCEPT ![s] = NoSession]
    /\ UNCHANGED <<account, factor, challenge, links, failures>>

\* signOut; also a session that expired, deleted when it is seen.
SignOut(s) ==
    /\ session[s].live
    /\ session' = [session EXCEPT ![s] = NoSession]
    /\ UNCHANGED <<account, factor, challenge, links, failures, flight>>

\* endOtherSessionsPage reads no body.
EndOthers(s) ==
    /\ SignedIn(s)
    /\ session' = [t \in Session |-> IF t = s THEN session[t] ELSE NoSession]
    /\ UNCHANGED <<account, factor, challenge, links, failures, flight>>

-----------------------------------------------------------------------------
(* What others do, and time. *)

\* removeMember, by an owner; the row and its second factor stay.
Removed ==
    /\ standing = "member"
    /\ standing' = "removed"
    /\ Room
    /\ NextEra
    /\ endAllSessions
    /\ UNCHANGED <<factor, challenge, links, failures, flight>>

\* claimInvite of a member who comes back, and the session acceptInvite makes.
Rejoined ==
    /\ standing = "removed"
    /\ standing' = "member"
    /\ Room
    /\ NextEra
    /\ createSession(era', era')
    /\ UNCHANGED <<factor, challenge, links, failures, flight>>

\* A challenge is ten minutes old; challengeFor deletes it when it sees it.
ChallengeExpires(c) ==
    /\ challenge[c].open
    /\ UNCHANGED <<account, factor, session, links, failures, flight>>
    /\ EndChallenge(c)

LinkExpires ==
    /\ \/ signups > 0 /\ signups' = signups - 1 /\ UNCHANGED resets
       \/ \E l \in DOMAIN resets :
             resets[l] /\ resets' = [resets EXCEPT ![l] = FALSE]
             /\ UNCHANGED signups
    /\ UNCHANGED <<account, factor, session, challenge, failures, flight>>

\* The oldest failure leaves the window.
FailureExpires(b) ==
    /\ failures[b] > 0
    /\ failures' = [failures EXCEPT ![b] = @ - 1]
    /\ UNCHANGED <<account, factor, session, challenge, links, flight>>

-----------------------------------------------------------------------------
Buckets == {"password", "code", "credential", "manage", "signup", "forgot"}

Init ==
    /\ standing = "none"
    /\ era = 0
    /\ factor = "off"
    /\ session = [s \in Session |-> NoSession]
    /\ challenge = [c \in Challenge |-> NoChallenge]
    /\ signups = 0
    /\ resets = << >>
    /\ failures = [b \in Buckets |-> 0]
    /\ flight = [f \in Flight |-> NoFlight]

AtTheDoor(f) ==
    \/ Knock(f) \/ TurnAway(f) \/ CheckPassword(f)
    \/ \E c \in Challenge : SendCode(f, c)
    \/ CodeNotNeeded(f) \/ CodeRight(f) \/ CodeWrong(f)
    \/ \E l \in DOMAIN resets : AskReset(f, l)
    \/ Reset(f) \/ OperatorAsks(f) \/ OperatorSets(f)

OwnPages(f) ==
    \/ \E s \in Session : AskChange(f, s) \/ AskAccount(f, s) \/ EndOne(f, s)
    \/ CheckCurrent(f) \/ ChangePassword(f)
    \/ TwoFactorConfirm(f) \/ TwoFactorNewCodes(f) \/ TwoFactorOff(f)
    \/ AccountRefused(f)

Next ==
    \/ \E again \in BOOLEAN : SignUp(again)
    \/ VerifyAccount \/ Forgot
    \/ \E f \in Flight : AtTheDoor(f) \/ OwnPages(f)
    \/ \E s \in Session : TwoFactorStart(s) \/ SignOut(s) \/ EndOthers(s)
    \/ Removed \/ Rejoined
    \/ \E c \in Challenge : ChallengeExpires(c)
    \/ LinkExpires
    \/ \E b \in Buckets : FailureExpires(b)

Spec == Init /\ [][Next]_vars

-----------------------------------------------------------------------------
TypeOK ==
    /\ standing \in {"none", "member", "removed"}
    /\ era \in 0..MaxEras
    /\ factor \in {"off", "unconfirmed", "on"}
    /\ session \in [Session ->
           [live: BOOLEAN, made: Nat, late: BOOLEAN]]
    /\ challenge \in [Challenge -> [open: BOOLEAN, attempts: Nat, from: Nat, guesses: Nat]]
    /\ signups \in 0..MaxSignups
    /\ resets \in Seq(BOOLEAN)
    /\ failures \in [Buckets -> Nat]
    /\ flight \in [Flight ->
           [op: Setters \cup {"none", "password", "removed", "code", "account"},
            tok: Session \cup Challenge \cup (1..MaxResets) \cup {None},
            from: Nat, ok: BOOLEAN]]
    \* No counter of an open challenge reaches the number that closes it.
    /\ \A c \in Challenge : challenge[c].open => challenge[c].attempts < MaxAttempts

\* A session that was there when the password was changed or the person was
\* removed is gone: one whose proof was not overtaken while it was being made
\* is of the password and the membership there are now.  (endAllSessions after
\* each; the one session a change of password keeps has just proved it.)
ChangesShutOut ==
    \A s \in Session : session[s].live /\ ~session[s].late => session[s].made = era

\* Neither the number of wrong codes one right password allows, nor the number
\* of failures of any limiter's key, is passed by more than the requests that
\* were let in before the last of them was counted.
GuessesAreBounded ==
    /\ \A c \in Challenge :
           challenge[c].guesses =< MaxAttempts - 1 + Cardinality(Flight)
    /\ \A b \in Buckets : failures[b] =< Limit - 1 + Cardinality(Flight)

\* While the second factor is on, a session is only made by the end of a
\* request that brought a code, or with a standing that changes: by a link or
\* an invitation.
NoWayRoundTheCode ==
    [][(\E s \in Session : session'[s].live /\ ~session[s].live) /\ factor = "on"
          => \/ standing' # standing
             \/ \E f \in Flight : flight[f].op = "code" /\ flight'[f] = NoFlight]_vars

===============================================================================
