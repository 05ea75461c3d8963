----------------------------- MODULE TenantServer -----------------------------
(***************************************************************************)
(* One process that serves every practice: the gateway's own pages         *)
(* (src/src/tenancy/gateway.js), the resolver and the pool of open         *)
(* databases (resolve.js, pool.js), and the core's dispatch behind them    *)
(* (src/src/app.js).  A request is followed from its address to its        *)
(* answer; what a handler does in between is one wait, the body or a hash  *)
(* or another server.                                                      *)
(***************************************************************************)
EXTENDS Integers, Sequences, SequencesExt

CONSTANTS
    Tenant,
    Request,      \* requests on their way at one time, names used again
    MaxOpen,      \* how many databases the pool holds
    MaxHandles,   \* bound: times a practice's database is opened
    MaxChanges,   \* bound: changes of what a practice may do
    NoTenant

ASSUME PoolAssumption == MaxOpen \in Nat \ {0} /\ MaxHandles \in Nat /\ MaxChanges \in Nat

VARIABLES
    standing,   \* "open", "walled" (not paid), or "leaving" (not active)
    pool,       \* the practices whose database is open, least recently used first
    handles,     \* handles[t]: how often its database was opened: the number of its handle
    req,        \* what each request waits for, with which handle
    changes

serverVars == <<standing, pool, handles, req, changes>>

-----------------------------------------------------------------------------
(* Addresses: a Host header of a practice, `/t/<slug>/` before the path, the *)
(* practice a link's token is filed under; what the rest of the path names.  *)
Page    == {"workspace", "link", "invite", "front"}
ByToken == {"link", "invite"}
Address == [host: Tenant \cup {NoTenant}, slug: Tenant \cup {NoTenant},
            link: Tenant \cup {NoTenant}, page: Page]

\* A token under `/t/<slug>/` is looked for in that practice's own file.
Addresses == {a \in Address : a.page \notin ByToken \/ a.slug # NoTenant => a.link = NoTenant}

Unasked == [at |-> "idle", side |-> "none", host |-> NoTenant, link |-> NoTenant,
            tenant |-> NoTenant, handle |-> 0]
OpenFiles == Range(pool)

\* Mutant: the path's practice, whatever the host.
ClaimedBySlug(a) == a.page = "front"

\* handle: a slug beside another practice's host is nobody's; the path of a page
\* that is not the gateway's is put back as it was.
Claimed(a) == a.page = "front" /\ (a.host = NoTenant \/ a.slug \in {NoTenant, a.host})

Owner(a) == IF a.slug # NoTenant THEN a.slug ELSE a.host

\* resolveTenant: a link the index knows, then the host, then the slug.
ByLink(a) == a.link # NoTenant
NamedTenant(a)  == IF ByLink(a) THEN a.link ELSE IF a.host # NoTenant THEN a.host ELSE a.slug

\* guard
Guarded(t) == standing[t] = "open"

\* offboardingBlock and clientLinkBlock, which an invitation does not meet.
LinkGuarded(a) ==
    standing[a.link] # "leaving" /\ (standing[a.link] = "walled" => a.page = "invite")

Admitted(a) == IF ByLink(a) THEN LinkGuarded(a) ELSE Guarded(NamedTenant(a))

\* The route table: the prefix is stripped only when it is what named the practice.
Routed(a) == a.slug # NoTenant => a.host = NoTenant

-----------------------------------------------------------------------------
(* pool.get *)

\* A hit is moved to the end; a miss closes the first when the pool is full.
Touched(t) ==
    IF t \in OpenFiles THEN Append(RemoveAt(pool, CHOOSE i \in DOMAIN pool : pool[i] = t), t)
    ELSE Append(IF Len(pool) < MaxOpen THEN pool ELSE Tail(pool), t)

Get(t) ==
    /\ t \in OpenFiles \/ handles[t] < MaxHandles
    /\ pool' = Touched(t)
    /\ handles' = IF t \in OpenFiles THEN handles ELSE [handles EXCEPT ![t] = @ + 1]

Held(r) == req[r].tenant \in OpenFiles /\ req[r].handle = handles[req[r].tenant]

Wait(r, a, t, side) ==
    req' = [req EXCEPT ![r] = [at |-> "waiting", side |-> side, host |-> a.host, link |-> a.link,
                               tenant |-> t, handle |-> handles'[t]]]

-----------------------------------------------------------------------------
\* A page of the gateway's: signing in, its code, signing out.  It opens the
\* practice's database without asking how the practice stands.
GatewayPage(r, a) ==
    /\ req[r].at = "idle"
    /\ Claimed(a) /\ Owner(a) # NoTenant
    /\ Get(Owner(a))
    /\ Wait(r, a, Owner(a), "gateway")
    /\ UNCHANGED <<standing, changes>>

\* The core: resolved, opened, the route and the role found, the handler begun.
CorePage(r, a) ==
    /\ req[r].at = "idle"
    /\ ~Claimed(a) /\ NamedTenant(a) # NoTenant
    /\ Admitted(a)
    /\ Get(NamedTenant(a))
    /\ \/ Routed(a) /\ Wait(r, a, NamedTenant(a), "core")
       \/ UNCHANGED req      \* no such page, or not for this role
    /\ UNCHANGED <<standing, changes>>

\* The handler goes on with the handle it was given, and answers.
Answer(r) ==
    /\ req[r].at = "waiting" /\ Held(r)
    /\ req' = [req EXCEPT ![r] = Unasked]
    /\ UNCHANGED <<standing, pool, handles, changes>>

\* It throws: its handle was closed, or the connection broke under its body.
\* createApp answers a core page with an error and goes on.
Throws(r) ==
    /\ req[r].at = "waiting" /\ req[r].side = "core"
    /\ req' = [req EXCEPT ![r] = Unasked]
    /\ UNCHANGED <<standing, pool, handles, changes>>

\* Nobody awaits a handler of the gateway's: its rejection ends the process, and
\* another is started with an empty pool.
Dies(r) ==
    /\ req[r].at = "waiting" /\ req[r].side = "gateway"
    /\ req' = [q \in Request |-> [Unasked EXCEPT !.at = IF req[q].at = "waiting" /\ q # r THEN "dropped" ELSE "idle"]]
    /\ pool' = <<>>
    /\ UNCHANGED <<standing, handles, changes>>

Again(r) ==
    /\ req[r].at = "dropped"
    /\ req' = [req EXCEPT ![r] = Unasked]
    /\ UNCHANGED <<standing, pool, handles, changes>>

\* A webhook, the operator, or the deletion of the practice.
Stand(t) ==
    /\ changes < MaxChanges /\ changes' = changes + 1
    /\ \E s \in {"open", "walled", "leaving"} :
          s # standing[t] /\ standing' = [standing EXCEPT ![t] = s]
    /\ UNCHANGED <<pool, handles, req>>

ServerInit ==
    /\ standing = [t \in Tenant |-> "open"]
    /\ pool = <<>>
    /\ handles = [t \in Tenant |-> 0]
    /\ req = [r \in Request |-> Unasked]
    /\ changes = 0

ServerNext ==
    \/ \E r \in Request :
          \/ \E a \in Addresses : GatewayPage(r, a) \/ CorePage(r, a)
          \/ Answer(r) \/ Throws(r) \/ Dies(r) \/ Again(r)
    \/ \E t \in Tenant : Stand(t)

ServerSpec == ServerInit /\ [][ServerNext]_serverVars

-----------------------------------------------------------------------------
ServerTypeOK ==
    /\ standing \in [Tenant -> {"open", "walled", "leaving"}]
    /\ OpenFiles \subseteq Tenant /\ Len(pool) =< MaxOpen
    /\ handles \in [Tenant -> 0 .. MaxHandles]
    /\ \A r \in Request : req[r].at \in {"idle", "waiting", "dropped"}
    /\ changes \in 0 .. MaxChanges

\* The pool is within its limit and never has a practice open twice, and what a waiting
\* request was given is a handle of the practice it is for (createPool).
PoolIsSound ==
    /\ Len(pool) =< MaxOpen
    /\ \A i, j \in DOMAIN pool : pool[i] = pool[j] => i = j
    /\ \A r \in Request : req[r].at = "waiting" => req[r].handle \in 1 .. handles[req[r].tenant]

\* Whatever the gateway, the resolver and the path say between them, a page asked
\* for at one practice's host is never answered from another's file, unless the
\* request carries a link of that other practice.
AnsweredByItsOwn ==
    \A r \in Request : req[r].at = "waiting" /\ req[r].host # NoTenant
        => req[r].tenant \in {req[r].host, req[r].link}

===============================================================================
