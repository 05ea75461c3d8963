---------------------------- MODULE StripeBilling ----------------------------
(***************************************************************************)
(* A hosted practice's subscription: what Stripe holds, the signed events  *)
(* it sends, and the columns of table tenant that they drive               *)
(* (src/src/tenancy/billing.js).  Events arrive late, more than once and   *)
(* in any order; an operator may meanwhile ask Stripe and set the same     *)
(* columns from another process.  One practice; its id is in the metadata  *)
(* of everything its checkouts create.  Seconds are counted by clock,      *)
(* which Stripe and the server share.                                      *)
(***************************************************************************)
EXTENDS Integers, FiniteSets

CONSTANTS
    Sub,        \* the subscriptions the practice may ever buy
    Check,      \* the runs of tools/reconcile-stripe.mjs
    None,       \* SQL's NULL
    Grace,      \* TICKMARK_PAST_DUE_GRACE_DAYS, in ticks of clock
    MaxTime,    \* bound: the last second
    MaxEvents   \* bound: how many events Stripe sends

ASSUME SubAssumption   == None \notin Sub \cup Nat /\ IsFiniteSet(Sub)
ASSUME LimitAssumption == {Grace, MaxTime, MaxEvents} \subseteq Nat

VARIABLES
    clock,
    theirs,         \* theirs[s]: what Stripe says of subscription s
    customerOf,     \* customerOf[s]: its customer, named by the customer's first subscription
    sent,           \* the events Stripe has made; each may arrive at any time, any number of times
    recorded,       \* table stripe_event
    unmatched,      \* its rows without a tenant_id
    status, since, customer, subscription, latest,  \* tenant: status, past_due_since, the two
                    \* Stripe ids and stripe_event_created
    lifecycle,      \* tenant.lifecycle_state
    check           \* check[c]: the local state of a reconciliation

stripe  == <<theirs, customerOf, sent>>
billing == <<status, since, customer, subscription, latest>>
ledger  == <<recorded, unmatched>>
billingVars    == <<clock, stripe, ledger, billing, lifecycle, check>>

-----------------------------------------------------------------------------
(* The classes of Stripe's statuses that the code tells apart; every       *)
(* status Stripe documents is in one of them.                              *)
FromStripe ==
    [incomplete |-> "pending_payment", active |-> "active",
     past_due |-> "past_due", canceled |-> "cancelled"]

Live     == {"incomplete", "active", "past_due"}
Snapshot == {"created", "updated", "deleted"}
Event    == [sub : Sub, type : Snapshot \cup {"completed", "invoice"},
             says : DOMAIN FromStripe, created : 0..MaxTime]

EventOf(s, type, says) == [sub |-> s, type |-> type, says |-> says, created |-> clock]

(* tenantAllowsAccess, which the resolver asks before it opens a file.     *)
Access ==
    /\ lifecycle = "active"
    /\ \/ status = "active"
       \/ status = "past_due" /\ clock < since + Grace

NoCheck == [pc |-> "idle", sub |-> None, before |-> None, says |-> None, read |-> None, stamp |-> None]

-----------------------------------------------------------------------------
(* Stripe.                                                                 *)

(* A subscription begins, and Stripe says so.                              *)
Begin(s, types) ==
    /\ theirs[s] = "none"
    /\ Cardinality(sent) + Cardinality(types) =< MaxEvents
    /\ \E now \in {"incomplete", "active"} :
          /\ theirs' = [theirs EXCEPT ![s] = now]
          /\ sent' = sent \cup {EventOf(s, type, now) : type \in types}
    /\ UNCHANGED <<clock, ledger, billing, lifecycle, check>>

(* A checkout of the practice's is paid, in whatever tab it was left open. *)
(* The session tenantForToken returns has no customer id, so the form      *)
(* never names one, and Stripe makes a customer for every checkout.        *)
Checkout(s) ==
    /\ Begin(s, {"completed", "created"})
    /\ customerOf' = [customerOf EXCEPT ![s] = s]

(* A subscription is made at Stripe, with the practice's id on it, for the *)
(* customer the practice is known by.                                      *)
Renew(s) ==
    /\ customer # None
    /\ Begin(s, {"created"})
    /\ customerOf' = [customerOf EXCEPT ![s] = customer]

(* A payment goes through or fails: the subscription changes, or only an   *)
(* invoice tells of it.                                                    *)
Change(s) ==
    /\ theirs[s] \in Live
    /\ Cardinality(sent) < MaxEvents
    /\ \/ \E now \in {"active", "past_due"} \ {theirs[s]} :
             /\ theirs' = [theirs EXCEPT ![s] = now]
             /\ sent' = sent \cup {EventOf(s, "updated", now)}
       \/ /\ sent' = sent \cup {EventOf(s, "invoice", theirs[s])}
          /\ UNCHANGED theirs
    /\ UNCHANGED <<clock, customerOf, ledger, billing, lifecycle, check>>

(* The subscription ends, and never comes back.                            *)
End(s) ==
    /\ theirs[s] \in Live
    /\ Cardinality(sent) < MaxEvents
    /\ theirs' = [theirs EXCEPT ![s] = "canceled"]
    /\ sent' = sent \cup {EventOf(s, "deleted", "canceled")}
    /\ UNCHANGED <<clock, customerOf, ledger, billing, lifecycle, check>>

Tick ==
    /\ clock < MaxTime
    /\ clock' = clock + 1
    /\ UNCHANGED <<stripe, ledger, billing, lifecycle, check>>

-----------------------------------------------------------------------------
(* The webhook.  A body counts as an event exactly if Stripe made it.      *)
Genuine(e) == e \in sent

(* A cancelled practice has come back with a subscription of its customer. *)
ReplacesSubscription(e) ==
    /\ e.type \in {"created", "completed"}
    /\ status = "cancelled"
    /\ customer = customerOf[e.sub]
    /\ e.created >= latest

(* resolveTenant: the event is about the customer and the subscription     *)
(* the practice is known by, or about the first it is to be known by.      *)
Matches(e) ==
    /\ customer \in {None, customerOf[e.sub]}
    /\ subscription \in {None, e.sub} \/ ReplacesSubscription(e)

(* Mutants: order is not looked at; an event of the same second may reopen. *)
StaleNever(e)  == FALSE
StaleBefore(e) == e.created < latest

Stale(e) ==
    \/ e.created < latest
    \/ e.created = latest /\ status = "cancelled" /\ e.type # "deleted"

Coalesce(a, b) == IF a = None THEN b ELSE a

Associate(e) ==
    /\ customer' = Coalesce(customer, customerOf[e.sub])
    /\ subscription' = IF ReplacesSubscription(e) THEN e.sub ELSE Coalesce(subscription, e.sub)

(* The grace clock starts when the card first fails and stops when it is   *)
(* no longer failing.                                                      *)
PastDueSince(next) ==
    IF next # "past_due" THEN None
    ELSE IF status = "past_due" THEN since ELSE clock

(* A verified event is recorded with what becomes of it, in one            *)
(* transaction; one that was recorded before changes nothing.              *)
Receive(e) ==
    /\ Genuine(e)
    /\ e \notin recorded
    /\ recorded' = recorded \cup {e}
    /\ UNCHANGED <<clock, stripe, lifecycle, check>>

Unmatched(e) ==
    /\ Receive(e)
    /\ ~Matches(e)
    /\ unmatched' = unmatched \cup {e}
    /\ UNCHANGED billing

Outdated(e) ==
    /\ Receive(e)
    /\ Matches(e)
    /\ Stale(e)
    /\ UNCHANGED <<unmatched, billing>>

Apply(e) ==
    /\ Receive(e)
    /\ Matches(e)
    /\ ~Stale(e)
    /\ e.type \in Snapshot
    /\ status' = FromStripe[e.says]
    /\ since' = PastDueSince(FromStripe[e.says])
    /\ Associate(e)
    /\ latest' = e.created
    /\ UNCHANGED unmatched

(* A completed checkout only binds identifiers.                            *)
Bind(e) ==
    /\ Receive(e)
    /\ Matches(e)
    /\ ~Stale(e)
    /\ e.type = "completed"
    /\ Associate(e)
    /\ UNCHANGED <<unmatched, status, since, latest>>

Observe(e) ==
    /\ Receive(e)
    /\ Matches(e)
    /\ ~Stale(e)
    /\ e.type = "invoice"
    /\ UNCHANGED <<unmatched, billing>>

-----------------------------------------------------------------------------
(* reconcileStripeSubscription, with Stripe's answer awaited between its   *)
(* two looks at the row.                                                   *)
Settled == {c \in Check : check[c].pc = "settled"}

Row == [status |-> status, customer |-> customer, subscription |-> subscription,
        latest |-> latest, events |-> Cardinality(recorded \ unmatched),
        checks |-> Cardinality(Settled)]

Known(s)    == subscription = s
Returned(s) == status = "cancelled" /\ subscription # s

AskStripe(c, s) ==
    /\ check[c].pc = "idle"
    /\ theirs[s] \in DOMAIN FromStripe
    /\ lifecycle = "active"
    /\ customer # None
    /\ Known(s) \/ Returned(s)
    /\ check' = [check EXCEPT ![c].pc = "asking", ![c].sub = s, ![c].before = Row]
    /\ UNCHANGED <<clock, stripe, ledger, billing, lifecycle>>

StripeAnswers(c) ==
    /\ check[c].pc = "asking"
    /\ check' = [check EXCEPT ![c].pc = "answered", ![c].says = theirs[check[c].sub],
                              ![c].read = clock]
    /\ UNCHANGED <<clock, stripe, ledger, billing, lifecycle>>

(* Nothing moved during the lookup, and the answer is about this customer. *)
Undisturbed(c) ==
    /\ lifecycle = "active"
    /\ check[c].before = Row
    /\ customerOf[check[c].sub] = customer
    /\ clock >= latest

Settle(c) ==
    /\ check[c].pc = "answered"
    /\ Undisturbed(c)
    /\ status' = FromStripe[check[c].says]
    /\ since' = PastDueSince(FromStripe[check[c].says])
    /\ subscription' = check[c].sub
    /\ latest' = clock
    /\ check' = [check EXCEPT ![c].pc = "settled", ![c].stamp = clock, ![c].before = None]
    /\ UNCHANGED <<clock, stripe, ledger, customer, lifecycle>>

GiveUp(c) ==
    /\ \/ check[c].pc = "asking"
       \/ check[c].pc = "answered" /\ ~Undisturbed(c)
    /\ check' = [check EXCEPT ![c] = NoCheck]
    /\ UNCHANGED <<clock, stripe, ledger, billing, lifecycle>>

(* The practice asks to be deleted; see TenantDeletion.                    *)
RequestDeletion ==
    /\ lifecycle = "active"
    /\ lifecycle' = "deletion_requested"
    /\ UNCHANGED <<clock, stripe, ledger, billing, check>>

-----------------------------------------------------------------------------
BillingInit ==
    /\ clock = 0
    /\ theirs = [s \in Sub |-> "none"]
    /\ customerOf = [s \in Sub |-> None]
    /\ sent = {} /\ recorded = {} /\ unmatched = {}
    /\ status = "pending_payment" /\ since = None
    /\ customer = None /\ subscription = None /\ latest = 0
    /\ lifecycle = "active"
    /\ check = [c \in Check |-> NoCheck]

BillingNext ==
    \/ Tick
    \/ RequestDeletion
    \/ \E s \in Sub : Checkout(s) \/ Renew(s) \/ Change(s) \/ End(s)
    \/ \E e \in sent : Unmatched(e) \/ Outdated(e) \/ Apply(e) \/ Bind(e) \/ Observe(e)
    \/ \E c \in Check : StripeAnswers(c) \/ Settle(c) \/ GiveUp(c)
    \/ \E c \in Check, s \in Sub : AskStripe(c, s)

BillingSpec == BillingInit /\ [][BillingNext]_billingVars
-----------------------------------------------------------------------------
BillingTypeOK ==
    /\ clock \in 0..MaxTime
    /\ theirs \in [Sub -> {"none"} \cup DOMAIN FromStripe]
    /\ customerOf \in [Sub -> Sub \cup {None}]
    /\ sent \subseteq Event /\ recorded \subseteq sent /\ unmatched \subseteq recorded
    /\ status \in {FromStripe[x] : x \in DOMAIN FromStripe}
    /\ since \in 0..MaxTime \cup {None} /\ (since # None <=> status = "past_due")
    /\ {customer, subscription} \subseteq Sub \cup {None}
    /\ latest \in 0..MaxTime
    /\ lifecycle \in {"active", "deletion_requested"}
    /\ \A c \in Check : check[c].pc \in {"idle", "asking", "answered", "settled"}

SnapshotsOf(s) == {e \in sent : e.sub = s /\ e.type \in Snapshot}

(* The hypotheses under which the order of seconds is the order of things: *)
(* no two snapshots of s in one second but for its end, and nothing that   *)
(* happened to s between an operator's answer and the second it was filed. *)
OneASecond(s) ==
    \A e, f \in SnapshotsOf(s) :
        e # f /\ e.created = f.created => "deleted" \in {e.type, f.type}
NotOvertaken(s) ==
    \A c \in Settled, e \in SnapshotsOf(s) :
        check[c].sub = s => e.created < check[c].read \/ e.created > check[c].stamp

(* Whatever the order the events came in and however often, and whatever   *)
(* an operator filed meanwhile: once all that Stripe said of the           *)
(* practice's subscription has been taken in, the practice has the status  *)
(* that Stripe says it has.                                                *)
Converged ==
    \A s \in Sub :
        /\ subscription = s
        /\ SnapshotsOf(s) \subseteq recorded \ unmatched
        /\ OneASecond(s) /\ NotOvertaken(s)
        => status = FromStripe[theirs[s]]

(* An ended subscription never opens the practice again, not even by an    *)
(* event of the second it ended in.                                        *)
EndedStaysEnded ==
    \A e \in recorded \ unmatched :
        /\ e.type = "deleted" /\ e.sub = subscription
        /\ NotOvertaken(e.sub)
        => status = "cancelled" /\ ~Access

=============================================================================
