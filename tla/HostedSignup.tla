------------------------------ MODULE HostedSignup ------------------------------
(***************************************************************************)
(* A practice comes to the hosted service and goes: the sign-up            *)
(* (src/src/tenancy/gateway.js, handleSignup), the rows and the file it    *)
(* makes one statement after another (registry.js, createTenant, mapHost), *)
(* the reaper of practices that never paid (src/tools/                     *)
(* reap-pending-tenants.mjs), what a purge takes away (offboarding.js) and *)
(* the practices an operator makes by hand (src/tools/create-tenant.mjs).  *)
(* A practice's address is its slug: a name, and a number when the name is *)
(* taken.  A host is named by the slug it would be made of, whoever has     *)
(* it.  Members other than the owner are left out.                         *)
(***************************************************************************)
EXTENDS Naturals, FiniteSets

CONSTANTS
    Applicant,    \* by their email addresses
    Name,         \* practice names, as slugify leaves them
    SignupForm,   \* forms on their way
    MaxTenants,   \* bound: practices ever made
    MaxStops      \* bound: processes that end in the middle

ASSUME SignupBounds == MaxTenants \in Nat /\ MaxStops \in Nat

VARIABLES
    accounts,     \* the rows of `account`
    tenants,      \* the rows of `tenant`: slug, owner, who made it, whether it has paid, its lifecycle
    hosts,        \* tenant_host: the practice an address leads to
    retired,      \* the slugs of which `tenant_deletion` has a digest
    folder,       \* how far each practice's directory has come
    made,         \* practices begun
    form,         \* what a sign-up that waits for its hash has decided
    reaping,      \* the practices the reaper has listed and not come to
    first,        \* ghost: the first practice to have an address
    stops

signupVars == <<accounts, tenants, hosts, retired, folder, made, form, reaping, first, stops>>

-----------------------------------------------------------------------------
Slug    == Name \X (1 .. MaxTenants + 1)
Id      == 1 .. MaxTenants
Nobody  == 0
NoHost  == <<>>
NoForm  == [at |-> "none"]
Taking  == {t.slug : t \in tenants}

\* Mutant: the address of a practice that has gone is free again.
SlugOfTheLiving(name) ==
    CHOOSE s \in Slug : /\ s[1] = name /\ s \notin Taking
                        /\ \A k \in 1 .. s[2] - 1 : <<name, k>> \in Taking

\* uniqueSlug: no practice has it, and none that was asked to go had it.
uniqueSlug(name) ==
    CHOOSE s \in Slug : /\ s[1] = name /\ s \notin Taking \cup retired
                        /\ \A k \in 1 .. s[2] - 1 : <<name, k>> \in Taking \cup retired

\* The process ends, and with it every form that waits.
AllDropped == form' = [f \in SignupForm |-> NoForm]

-----------------------------------------------------------------------------
\* The form is read, and the slug chosen, before the password is hashed.
Decide(f, e, name) ==
    /\ form[f] = NoForm
    /\ e \notin accounts
    /\ form' = [form EXCEPT ![f] = 
                 [at |-> "hashing", email |-> e, slug |-> uniqueSlug(name)]]
    /\ UNCHANGED <<accounts, tenants, hosts, retired, folder, made, reaping, first, stops>>

\* mapHost: the host leads here from now on, whomever it led to.
MapHost(host, id) == hosts' = [s \in Slug |-> IF s = host THEN id ELSE hosts[s]]

Stages == <<"account", "directory", "practice", "practitioner", "tenant", "host">>

\* What the first n stages leave behind.  UNIQUE(slug) lets nothing past the fourth.
Leaves(q, n) ==
    LET id == made + 1 IN
    /\ accounts' = accounts \cup {q.email}
    /\ made' = IF n >= 2 THEN id ELSE made
    /\ folder' = IF n >= 2 THEN [folder EXCEPT ![id] = Stages[IF n > 4 THEN 4 ELSE n]] ELSE folder
    /\ tenants' = IF n < 5 THEN tenants
                  ELSE tenants \cup {[id |-> id, slug |-> q.slug, owner |-> q.email,
                                      by |-> q.by, paid |-> q.paid, life |-> "active"]}
    /\ MapHost(IF n = 6 THEN q.host ELSE NoHost, id)
    /\ first' = IF n >= 5 /\ first[q.slug] = Nobody THEN [first EXCEPT ![q.slug] = id] ELSE first

\* What a form asks for: to pay later, and the host of its slug.
Asked(f) == [email |-> form[f].email, slug |-> form[f].slug, by |-> "form", paid |-> FALSE,
             host |-> form[f].slug]

\* createAccount, createTenant and mapHost, with no common transaction.
SignUp(f) ==
    /\ form[f] # NoForm /\ form[f].email \notin accounts
    /\ made < MaxTenants
    /\ form[f].slug \notin Taking
    /\ Leaves(Asked(f), 6)
    /\ form' = [form EXCEPT ![f] = NoForm]
    /\ UNCHANGED <<retired, reaping, stops>>

\* Two chose the same slug while neither had it: the second gets as far as its
\* file, and the error, which nobody awaits, ends the process.
SlugTaken(f) ==
    /\ form[f] # NoForm /\ form[f].email \notin accounts
    /\ made < MaxTenants
    /\ form[f].slug \in Taking
    /\ Leaves(Asked(f), 4)
    /\ AllDropped
    /\ UNCHANGED <<retired, reaping, stops>>

\* UNIQUE(email), in the same way.
EmailTaken(f) ==
    /\ form[f] # NoForm /\ form[f].email \in accounts
    /\ AllDropped
    /\ UNCHANGED <<accounts, tenants, hosts, retired, folder, made, reaping, first, stops>>

\* The process is stopped after one of the stages.
Stopped(f) ==
    /\ form[f] # NoForm /\ form[f].email \notin accounts
    /\ stops < MaxStops /\ stops' = stops + 1
    /\ made < MaxTenants
    /\ \E n \in 1 .. 5 : (n = 5 => form[f].slug \notin Taking) /\ Leaves(Asked(f), n)
    /\ AllDropped
    /\ UNCHANGED <<retired, reaping>>

\* create-tenant, with --activate or to pay later, run by hand for an account old or new:
\* the slug that was typed, or the name's own, is put into the row, and the host that was
\* typed is mapped.  What UNIQUE(slug) refuses has its file.
Provision(e, s) ==
    /\ made < MaxTenants
    /\ \E host \in Slug \cup {NoHost}, activate \in BOOLEAN :
          LET q == [email |-> e, slug |-> s, by |-> "tool", paid |-> activate, host |-> host] IN
          \/ s \notin Taking /\ Leaves(q, 6) /\ UNCHANGED stops
          \/ s \in Taking /\ Leaves(q, 4) /\ UNCHANGED stops
          \/ /\ stops < MaxStops /\ stops' = stops + 1
             /\ \E n \in 1 .. 5 : (n = 5 => s \notin Taking) /\ Leaves(q, n)
    /\ UNCHANGED <<retired, form, reaping>>

\* The webhook of a subscription.
Pays(t) ==
    /\ t \in tenants /\ ~t.paid
    /\ tenants' = (tenants \ {t}) \cup {[t EXCEPT !.paid = TRUE]}
    /\ UNCHANGED <<accounts, hosts, retired, folder, made, form, reaping, first, stops>>

-----------------------------------------------------------------------------
\* requestTenantDeletion, whoever asks: the tombstone keeps the slug.
Closes(t) ==
    /\ tenants' = (tenants \ {t}) \cup {[t EXCEPT !.life = "going"]}
    /\ retired' = retired \cup {t.slug}
    /\ UNCHANGED <<accounts, hosts, folder, made, form, first, stops>>

OwnerLeaves(t) ==
    /\ t \in tenants /\ t.life = "active"
    /\ Closes(t)
    /\ UNCHANGED reaping

\* pendingPaymentRetentionCandidates, once for the whole batch.
ReaperLists ==
    /\ reaping = {}
    /\ reaping' = {t.id : t \in {s \in tenants : ~s.paid /\ s.life = "active"}}
    /\ reaping' # {}
    /\ UNCHANGED <<accounts, tenants, hosts, retired, folder, made, form, first, stops>>

\* One of the batch: whether it has paid by now is not asked.
Reap(id) ==
    /\ id \in reaping
    /\ \E t \in tenants : t.id = id /\ t.life = "active" /\ Closes(t)
    /\ reaping' = reaping \ {id}

\* One that is no longer active ends the batch; so does whoever stops the tool.
ReaperStops ==
    /\ reaping # {}
    /\ reaping' = {}
    /\ UNCHANGED <<accounts, tenants, hosts, retired, folder, made, form, first, stops>>

\* completeTenantDeletion, days later: the directory, and then the rows.
Erase(t) ==
    /\ t \in tenants /\ t.life = "going" /\ folder[t.id] # "none"
    /\ folder' = [folder EXCEPT ![t.id] = "none"]
    /\ UNCHANGED <<accounts, tenants, hosts, retired, made, form, reaping, first, stops>>

\* No form has waited so long for its hash.  An account that owns nothing any
\* more goes with its practice.
Purge(t) ==
    /\ t \in tenants /\ t.life = "going" /\ folder[t.id] = "none"
    /\ \A f \in SignupForm : form[f] # NoForm => form[f].slug # t.slug
    /\ tenants' = tenants \ {t}
    /\ hosts' = [s \in Slug |-> IF hosts[s] = t.id THEN Nobody ELSE hosts[s]]
    /\ accounts' = IF \E s \in tenants' : s.owner = t.owner THEN accounts ELSE accounts \ {t.owner}
    /\ UNCHANGED <<retired, folder, made, form, reaping, first, stops>>

-----------------------------------------------------------------------------
SignupInit ==
    /\ accounts = {} /\ tenants = {} /\ retired = {} /\ reaping = {}
    /\ hosts = [s \in Slug |-> Nobody] /\ first = hosts
    /\ folder = [i \in Id |-> "none"]
    /\ made = 0 /\ stops = 0
    /\ form = [f \in SignupForm |-> NoForm]

SignupNext ==
    \/ \E f \in SignupForm :
          \/ \E e \in Applicant, name \in Name : Decide(f, e, name)
          \/ SignUp(f) \/ SlugTaken(f) \/ EmailTaken(f) \/ Stopped(f)
    \/ \E e \in Applicant, s \in Slug : Provision(e, s)
    \/ \E t \in tenants : Pays(t) \/ OwnerLeaves(t) \/ Erase(t) \/ Purge(t)
    \/ ReaperLists \/ ReaperStops
    \/ \E id \in Id : Reap(id)

SignupSpec == SignupInit /\ [][SignupNext]_signupVars

-----------------------------------------------------------------------------
SignupTypeOK ==
    /\ accounts \subseteq Applicant
    /\ tenants \subseteq [id : Id, slug : Slug, owner : Applicant, by : {"form", "tool"},
                           paid : BOOLEAN, life : {"active", "going"}]
    /\ hosts \in [Slug -> Id \cup {Nobody}] /\ first \in [Slug -> Id \cup {Nobody}]
    /\ retired \subseteq Slug /\ reaping \subseteq Id
    /\ folder \in [Id -> {"none", "directory", "practice", "practitioner"}]
    /\ made \in 0 .. MaxTenants /\ stops \in 0 .. MaxStops
    /\ \A f \in SignupForm : form[f] = NoForm \/ form[f] \in [at : {"hashing"}, email : Applicant, slug : Slug]

\* The practice somebody signs up gets an address no practice ever had: two forms at
\* once, an operator at work and the purge of the first included.  No other sign-up gets
\* its host, only an operator who types it; and until it goes its owner is in its file
\* (uniqueSlug, createTenant, mapHost, completeTenantDeletion).
SignupsGetFreshAddresses ==
    \A t \in tenants : t.by = "form" =>
        /\ first[t.slug] = t.id
        /\ hosts[t.slug] # Nobody =>
             \E u \in tenants : u.id = hosts[t.slug] /\ (u = t \/ u.by = "tool")
        /\ t.life = "active" => folder[t.id] = "practitioner"

\* src/docs/phase-2-data-custody.md:91, "A tombstone prevents slug reuse": no practice,
\* however it was made, has an address another one had.
AddressesAreForLife == \A t \in tenants : first[t.slug] = t.id

===============================================================================
