------------------------------ MODULE HostedInvite ------------------------------
(***************************************************************************)
(* An invitation to a hosted practice is accepted in two databases: the    *)
(* practice's own (src/src/store.js) holds the invitation and the          *)
(* practitioner, the registry (src/src/tenancy/registry.js) the account    *)
(* and the membership.  Nothing spans both: a process may end, or a write  *)
(* fail, between them.  One practice; its owner, who is always there, and  *)
(* the keys an invitation carries are left out, and nobody changes a       *)
(* password or an address.                                                 *)
(***************************************************************************)
EXTENDS Naturals

CONSTANTS
    Emails,      \* addresses
    Invites,     \* invitations, by the digest of their token
    Legacy,      \* those made before the registry knew of invitations
    Requests,    \* requests that wait for a password to be hashed
    Passwords,
    NoOne,
    MaxFaults    \* bound: processes that end and writes that fail

ASSUME LegacyAssumption == Legacy \subseteq Invites
ASSUME NoOneAssumption  == NoOne \notin Emails \cup Passwords
ASSUME FaultAssumption  == MaxFaults \in Nat

VARIABLES
    invite,        \* the practice's row of an invitation, and who used it
    expired,       \* the invitations whose date has passed
    practitioner,  \* the practice's row of a person
    session,       \* who is signed in to the workspace
    hosted,        \* hosted_invite: state, address, account
    account,       \* the account at an address: its password_hash
    member,        \* tenant_member
    request,       \* how far a request has come
    faults

tenantDb == <<invite, expired, practitioner, session>>
registry == <<hosted, account, member>>
vars     == <<tenantDb, registry, request, faults>>

-----------------------------------------------------------------------------
Idle     == [at |-> "idle"]
NoHosted == [state |-> "none", email |-> NoOne, account |-> NoOne]

\* inviteByToken
Open(i) == invite[i].state = "open" /\ i \notin expired

\* What a request that takes this step needs, or spends, of the faults.
Fails(broken) ==
    IF broken THEN faults < MaxFaults /\ faults' = faults + 1 ELSE UNCHANGED faults

Active(e) == practitioner[e] = "active"

\* A person the registry and the practice both know gets in: the check of
\* handleLogin, made by none of the two alone.
MayEnter(e) == e \in member /\ Active(e)

-----------------------------------------------------------------------------
\* createInvitePage: the registry is told, or the invitation is taken back.
Issue(i, e) ==
    /\ invite[i].state = "none"
    /\ \E broken \in BOOLEAN :
          /\ Fails(broken)
          /\ invite' = [invite EXCEPT ![i].state = IF broken THEN "revoked" ELSE "open"]
          /\ hosted' = IF broken THEN hosted
                       ELSE [hosted EXCEPT ![i] = [state |-> "pending", email |-> e, account |-> NoOne]]
    /\ UNCHANGED <<expired, practitioner, session, account, member, request>>

Expire(i) ==
    /\ i \notin expired /\ invite[i].state # "none"
    /\ expired' = expired \cup {i}
    /\ UNCHANGED <<invite, practitioner, session, registry, request, faults>>

\* revokeInviteAction: the practice's row, then the registry's.
Revoke(i) ==
    /\ invite[i].state = "open"
    /\ invite' = [invite EXCEPT ![i].state = "revoked"]
    /\ \E broken \in BOOLEAN :
          /\ Fails(broken)
          /\ hosted' = IF broken \/ hosted[i].state \notin {"pending", "accepting"} THEN hosted
                       ELSE [hosted EXCEPT ![i].state = "revoked"]
    /\ UNCHANGED <<expired, practitioner, session, account, member, request>>

\* removeMember ends the sessions in the same transaction;
\* removeTenantMembership comes after and may fail.
RemoveMember(e) ==
    /\ Active(e)
    /\ practitioner' = [practitioner EXCEPT ![e] = "removed"]
    /\ session' = session \ {e}
    /\ \E broken \in BOOLEAN :
          /\ Fails(broken)
          /\ member' = IF broken THEN member ELSE member \ {e}
    /\ UNCHANGED <<invite, expired, hosted, account, request>>

-----------------------------------------------------------------------------
(* acceptInvite.  The two hashes are the places where it waits; what follows *)
(* each runs to its end without another request in between, unless the       *)
(* process stops or the registry refuses a write.                            *)
Present(r, i, e, p) ==
    /\ request[r] = Idle
    /\ Open(i)
    /\ hosted[i].email \in {NoOne, e}
    /\ ~Active(e)
    /\ request' = [request EXCEPT ![r] =
          [at |-> "hashing", invite |-> i, email |-> e, password |-> p]]
    /\ UNCHANGED <<tenantDb, registry, faults>>

\* Mutant: an invitation past its date is not finished.
UnfinishedInTime(i) ==
    /\ hosted[i].state = "accepting" /\ i \notin expired
    /\ invite[i].state = "used"
    /\ invite[i].by = hosted[i].email
    /\ Active(invite[i].by)

\* The claim committed and the registry has not heard of it: what a look at
\* the invitation's page finishes.  reconcileHostedInvite
Unfinished(i) ==
    /\ hosted[i].state = "accepting"
    /\ invite[i].state = "used"
    /\ invite[i].by = hosted[i].email
    /\ Active(invite[i].by)

Completed(i) ==
    /\ hosted' = [hosted EXCEPT ![i].state = "accepted"]
    /\ member' = member \cup {hosted[i].account}

Reconcile(i) ==
    IF Unfinished(i) THEN Completed(i) ELSE UNCHANGED <<hosted, member>>

Reload(i) ==
    /\ Unfinished(i)
    /\ Completed(i)
    /\ UNCHANGED <<tenantDb, account, request, faults>>

\* What prepareHostedInviteAcceptance asks before it waits.
Presentable(q) ==
    LET h == hosted[q.invite] IN
    h.state # "none" => /\ h.state \in {"pending", "accepting"}
                        /\ q.invite \notin expired
                        /\ h.email = q.email

\* And in its transaction: nobody else has begun to accept.
Bindable(q) ==
    LET h == hosted[q.invite] IN
    /\ q.at = "verifying" => q.known = (h.state # "none")
    /\ h.state \in {"none", "pending", "accepting"}
    /\ h.account \in {NoOne, q.email}

\* There is an account at the address: its password has to be the one given.
Verify(r) ==
    LET q == request[r] IN
    /\ q.at = "hashing"
    /\ Presentable(q)
    /\ account[q.email] # NoOne
    /\ request' = [request EXCEPT ![r] =
          [at |-> "verifying", invite |-> q.invite, email |-> q.email,
           password |-> q.password, known |-> hosted[q.invite].state # "none"]]
    /\ UNCHANGED <<tenantDb, registry, faults>>

Accepted(q) ==
    \/ q.at = "hashing" /\ Presentable(q) /\ account[q.email] = NoOne /\ Bindable(q)
    \/ q.at = "verifying" /\ account[q.email] = q.password /\ Bindable(q)

\* Everything short of that is the invitation's page again.
Refuse(r) ==
    LET q == request[r] IN
    /\ \/ q.at = "hashing" /\ ~Presentable(q)
       \/ q.at = "verifying" /\ ~Accepted(q)
    /\ Reconcile(q.invite)
    /\ request' = [request EXCEPT ![r] = Idle]
    /\ UNCHANGED <<tenantDb, account, faults>>

Bound(q) == [state |-> "accepting", email |-> q.email, account |-> q.email]

AccountOf(q) == IF account[q.email] = NoOne THEN q.password ELSE account[q.email]

\* Mutant: the page's look at the invitation is trusted.
ClaimableUnasked(q) == ~Active(q.email)

\* claimInvite asks again whether the invitation is open and the address free.
Claimable(q) == Open(q.invite) /\ ~Active(q.email)

Claim(q) ==
    /\ invite' = [invite EXCEPT ![q.invite] = [state |-> "used", by |-> q.email]]
    /\ practitioner' = [practitioner EXCEPT ![q.email] = "active"]
    /\ UNCHANGED expired

\* The account is bound, the invitation claimed, the membership recorded, and
\* only then a session made.  It may stop after either of the first two.
Accept(r) ==
    LET q == request[r] IN
    /\ q.at # "idle" /\ q.at # "login"
    /\ Accepted(q) /\ Claimable(q)
    /\ request' = [request EXCEPT ![r] = Idle]
    /\ account' = [account EXCEPT ![q.email] = AccountOf(q)]
    /\ \E reached \in {"bound", "claimed", "completed"} :
          /\ Fails(reached # "completed")
          /\ IF reached = "bound" THEN UNCHANGED <<invite, expired, practitioner>>
                                  ELSE Claim(q)
          /\ hosted' = [hosted EXCEPT ![q.invite] =
                [Bound(q) EXCEPT !.state = IF reached = "completed" THEN "accepted" ELSE @]]
          /\ member' = IF reached = "completed" THEN member \cup {q.email} ELSE member
          /\ session' = IF reached = "completed" THEN session \cup {q.email} ELSE session

\* Bound, and then refused by the practice's database: the page, which
\* finishes what another request left.
TooLate(r) ==
    LET q == request[r] IN
    /\ q.at # "idle" /\ q.at # "login"
    /\ Accepted(q) /\ ~Claimable(q)
    /\ request' = [request EXCEPT ![r] = Idle]
    /\ account' = [account EXCEPT ![q.email] = AccountOf(q)]
    /\ LET done == invite[q.invite] = [state |-> "used", by |-> q.email] /\ Active(q.email) IN
       /\ hosted' = [hosted EXCEPT ![q.invite] =
             [Bound(q) EXCEPT !.state = IF done THEN "accepted" ELSE @]]
       /\ member' = IF done THEN member \cup {q.email} ELSE member
    /\ UNCHANGED <<tenantDb, faults>>

-----------------------------------------------------------------------------
\* handleLogin at the practice's address: the password is checked, and then
\* whether the account belongs here.
Login(r, e, p) ==
    /\ request[r] = Idle
    /\ account[e] = p
    /\ request' = [request EXCEPT ![r] = [at |-> "login", email |-> e]]
    /\ UNCHANGED <<tenantDb, registry, faults>>

SignIn(r) ==
    LET q == request[r] IN
    /\ q.at = "login"
    /\ request' = [request EXCEPT ![r] = Idle]
    /\ session' = IF MayEnter(q.email) THEN session \cup {q.email} ELSE session
    /\ UNCHANGED <<invite, expired, practitioner, registry, faults>>

\* The process ends: what waited is gone.
Crash ==
    /\ \E r \in Requests : request[r] # Idle
    /\ Fails(TRUE)
    /\ request' = [r \in Requests |-> Idle]
    /\ UNCHANGED <<tenantDb, registry>>

-----------------------------------------------------------------------------
Init ==
    /\ invite = [i \in Invites |-> [state |-> IF i \in Legacy THEN "open" ELSE "none", by |-> NoOne]]
    /\ expired = {}
    /\ practitioner = [e \in Emails |-> "none"]
    /\ session = {}
    /\ hosted = [i \in Invites |-> NoHosted]
    /\ account \in [Emails -> Passwords \cup {NoOne}]
    /\ member = {}
    /\ request = [r \in Requests |-> Idle]
    /\ faults = 0

Next ==
    \/ \E i \in Invites : Expire(i) \/ Revoke(i) \/ Reload(i)
    \/ \E i \in Invites, e \in Emails : Issue(i, e)
    \/ \E e \in Emails : RemoveMember(e)
    \/ \E r \in Requests, i \in Invites, e \in Emails, p \in Passwords : Present(r, i, e, p)
    \/ \E r \in Requests, e \in Emails, p \in Passwords : Login(r, e, p)
    \/ \E r \in Requests : Verify(r) \/ Refuse(r) \/ Accept(r) \/ TooLate(r) \/ SignIn(r)
    \/ Crash

\* "Reload this page in a moment": whoever was told so does.
Fairness == \A i \in Invites : WF_vars(Reload(i))

Spec == Init /\ [][Next]_vars /\ Fairness

-----------------------------------------------------------------------------
\* How a person stands to the practice, over both databases.
Standing(e) ==
    IF ~Active(e) THEN "out" ELSE IF e \in member THEN "in" ELSE "owed"

TypeOK ==
    /\ invite \in [Invites -> [state: {"none", "open", "used", "revoked"}, by: Emails \cup {NoOne}]]
    /\ expired \subseteq Invites
    /\ practitioner \in [Emails -> {"none", "active", "removed"}]
    /\ session \subseteq Emails
    /\ hosted \in [Invites -> [state: {"none", "pending", "accepting", "accepted", "revoked"},
                               email: Emails \cup {NoOne}, account: Emails \cup {NoOne}]]
    /\ account \in [Emails -> Passwords \cup {NoOne}]
    /\ member \subseteq Emails
    /\ \A r \in Requests :
          \/ request[r] = Idle
          \/ request[r] \in [at: {"hashing"}, invite: Invites, email: Emails, password: Passwords]
          \/ request[r] \in [at: {"verifying"}, invite: Invites, email: Emails,
                             password: Passwords, known: BOOLEAN]
          \/ request[r] \in [at: {"login"}, email: Emails]
    /\ faults \in 0..MaxFaults

\* Whoever claimed an invitation gets in when they look at its page again,
\* whatever stopped the first time, unless they are removed before.
EntryIsFinished ==
    \A e \in Emails : (Standing(e) = "owed") ~> (Standing(e) # "owed")

-----------------------------------------------------------------------------
Promise == INSTANCE InvitedMembership WITH
    standing <- [e \in Emails |-> Standing(e)],
    spent    <- {i \in Invites : invite[i].state = "used"},
    closed   <- {i \in Invites : invite[i].state = "revoked" \/ (i \in expired /\ invite[i].state = "open")}

\* Nobody gets in but by an open invitation, one each, over both databases.
KeepsThePromise == Promise!Spec

===============================================================================
