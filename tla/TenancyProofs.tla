----------------------------- MODULE TenancyProofs -----------------------------
(* What the hosted service keeps of its practices: their billing status, their *)
(* addresses, the practice a request is answered by, the pool of databases it  *)
(* is answered from, and who an invitation lets in.  Four specifications,      *)
(* proved one after another; the parts share no variable and no lemma.         *)
EXTENDS StripeBilling, HostedSignup, TenantServer, HostedInvite,
        FiniteSetTheorems, WellFoundedInduction, TLAPS

-----------------------------------------------------------------------------
(* Billing: once everything is in, a practice has the status Stripe says, and  *)
(* an ended subscription stays ended.                                          *)

Matched == recorded \ unmatched
Begun(s) == theirs[s] # "none"

-----------------------------------------------------------------------------
\* A reconciliation is a record throughout.
AreRecords ==
    /\ check = [c \in Check |-> check[c]]
    /\ \A c \in Check : check[c] = [x \in DOMAIN NoCheck |-> check[c][x]]

\* Nothing is said of a subscription before it begins or after its end, and a
\* snapshot says canceled exactly if it is the end.
EventsAreInOrder ==
    \A e \in sent :
        /\ e.created =< clock
        /\ Begun(e.sub)
        /\ e.type \in Snapshot => (e.says = "canceled" <=> e.type = "deleted")
        /\ e.type \in {"created", "completed"} =>
              \A f \in sent : f.sub = e.sub => e.created =< f.created
        /\ e.type = "deleted" =>
              /\ theirs[e.sub] = "canceled"
              /\ \A f \in sent : f.sub = e.sub => f.created =< e.created

\* g is the last snapshot before second t, as far as seconds tell; the end of a
\* subscription is the last of its second.
IsLastBefore(g, s, t) ==
    \A f \in SnapshotsOf(s) :
        f.created < t /\ f # g /\ OneASecond(s) =>
            \/ f.created < g.created
            \/ f.created = g.created /\ g.type = "deleted"

\* What Stripe holds is what its last snapshot said.
LastSnapshotIsTrue ==
    \A s \in Sub : Begun(s) =>
        \E g \in SnapshotsOf(s) : g.says = theirs[s] /\ IsLastBefore(g, s, clock + 1)

\* What an operator was told was true when it was read.
AnswersWereTrue ==
    \A c \in Check :
        /\ check[c].pc # "idle" => check[c].sub \in Sub /\ Begun(check[c].sub)
        /\ check[c].pc \in {"answered", "settled"} => check[c].read \in 0..clock
        /\ check[c].pc = "answered" =>
           /\ \A e \in sent :
                 e.type = "deleted" /\ e.sub = check[c].sub /\ e.created < check[c].read
                 => check[c].says = "canceled"
           /\ \E g \in SnapshotsOf(check[c].sub) :
                 g.says = check[c].says /\ IsLastBefore(g, check[c].sub, check[c].read)
        /\ check[c].pc = "settled" => check[c].stamp \in check[c].read..clock

\* The row never goes back in time, and has nothing from before its first event.
LatestOnlyGrows ==
    /\ latest =< clock
    /\ \A e \in Matched : e.type \in Snapshot => e.created =< latest
    /\ subscription = None =>
          status = "pending_payment" /\ latest = 0 /\ \A e \in Matched : e.type = "invoice"
    /\ subscription # None => Begun(subscription)

\* An end older than what the row was last set from has been taken in.
EndsAreKnown ==
    subscription # None /\ NotOvertaken(subscription) =>
        \A e \in sent :
            /\ e.type = "deleted" /\ e.sub = subscription
            /\ e.created < latest \/ e \in Matched
            => status = "cancelled"

\* Nothing of s has been taken in, and nothing of it would be stale.
NothingYet(s) ==
    \A f \in SnapshotsOf(s) :
        f \notin Matched /\ f.created >= latest /\ (status = "cancelled" => f.created > latest)

\* The row has what g said, the last snapshot of s up to latest, but perhaps for
\* an end of the same second that has not arrived.
RowSays(g, s) ==
    /\ status = FromStripe[g.says]
    /\ g.created =< latest
    /\ g.created = latest \/ \E c \in Settled : check[c].sub = s /\ check[c].stamp = latest
    /\ \A f \in SnapshotsOf(s) :
          f.created =< latest /\ f # g =>
              \/ f.created < g.created
              \/ f.created = g.created /\ (g.type = "deleted" \/ (f.type = "deleted" /\ f \notin Matched))

StatusIsOfLatest ==
    subscription # None /\ NotOvertaken(subscription) /\ OneASecond(subscription) =>
        NothingYet(subscription) \/ \E g \in SnapshotsOf(subscription) : RowSays(g, subscription)

\* The inductive invariant.
BillingInv ==
    /\ BillingTypeOK
    /\ AreRecords
    /\ EventsAreInOrder
    /\ LastSnapshotIsTrue
    /\ AnswersWereTrue
    /\ LatestOnlyGrows
    /\ EndsAreKnown
    /\ StatusIsOfLatest

-----------------------------------------------------------------------------
\* The two hypotheses only get harder to meet as more is sent and filed.
LEMMA HypothesesAreOfMore ==
    ASSUME NEW s, sent \subseteq sent',
           NEW d, \A c \in Settled : c \in Settled' /\ check'[c] = check[c]
    PROVE  /\ OneASecond(s)' => OneASecond(s)
           /\ NotOvertaken(s)' => NotOvertaken(s)
<1>1. SnapshotsOf(s) \subseteq SnapshotsOf(s)'  BY DEF SnapshotsOf
<1>2. OneASecond(s)' => OneASecond(s)  BY <1>1 DEF OneASecond
<1>3. NotOvertaken(s)' => NotOvertaken(s)  BY <1>1 DEF NotOvertaken
<1> QED  BY <1>2, <1>3

-----------------------------------------------------------------------------
(* What Stripe does.                                                           *)

\* Of s, Stripe holds now, and has sent new of it.
Says(s, new, now) ==
    /\ theirs[s] # "canceled" /\ now \in DOMAIN FromStripe
    /\ theirs' = [theirs EXCEPT ![s] = now]
    /\ sent' = sent \cup new
    /\ \A e \in new :
          /\ e \in Event /\ e.sub = s /\ e.created = clock /\ e.says = now
          /\ e.type = "deleted" <=> now = "canceled"
          /\ e.type \in {"created", "completed"} => theirs[s] = "none"
    /\ theirs[s] = now \/ \E e \in new : e.type \in Snapshot
    /\ theirs[s] = now => \A e \in new : e.type = "invoice"
    /\ customerOf' \in [Sub -> Sub \cup {None}]
    /\ UNCHANGED <<clock, ledger, billing, lifecycle, check>>

LEMMA SayingKeepsTypes ==
    ASSUME BillingInv, NEW s \in Sub, NEW new, NEW now, Says(s, new, now)
    PROVE  BillingTypeOK' /\ AreRecords' /\ LatestOnlyGrows'
<1> USE DEF Says, BillingInv, ledger, billing
<1>1. BillingTypeOK'  BY DEF BillingTypeOK
<1>2. AreRecords'  BY DEF AreRecords, NoCheck
<1>3. \A t \in Sub : Begun(t) => Begun(t)'  BY DEF BillingTypeOK, Begun, FromStripe
<1>4. LatestOnlyGrows'  BY <1>3 DEF LatestOnlyGrows, BillingTypeOK, Matched
<1> QED  BY <1>1, <1>2, <1>4

LEMMA SayingKeepsOrder ==
    ASSUME BillingInv, NEW s \in Sub, NEW new, NEW now, Says(s, new, now)
    PROVE  EventsAreInOrder'
<1> USE DEF Says, BillingInv
<1>1. /\ theirs' \in [Sub -> {"none"} \cup DOMAIN FromStripe]
      /\ theirs'[s] = now /\ now # "none"
      /\ \A t \in Sub : t # s => theirs'[t] = theirs[t]
      /\ clock' = clock /\ clock \in Int
  BY DEF BillingTypeOK, FromStripe
<1>2. \A e \in sent' : e \in Event /\ e.created \in Int /\ e.created =< clock
  BY DEF BillingTypeOK, EventsAreInOrder, Event
<1> SUFFICES ASSUME NEW e \in sent'
             PROVE  /\ e.created =< clock
                    /\ theirs'[e.sub] # "none"
                    /\ e.type \in Snapshot => (e.says = "canceled" <=> e.type = "deleted")
                    /\ e.type \in {"created", "completed"} =>
                          \A f \in sent' : f.sub = e.sub => e.created =< f.created
                    /\ e.type = "deleted" =>
                          /\ theirs'[e.sub] = "canceled"
                          /\ \A f \in sent' : f.sub = e.sub => f.created =< e.created
  BY <1>1 DEF EventsAreInOrder, Begun
<1>3. e.sub \in Sub  BY <1>2 DEF Event
<1>4. CASE e \in new
  <2>1. e.type \in {"created", "completed"} => \A f \in sent : f.sub # e.sub
    BY <1>4 DEF EventsAreInOrder, Begun
  <2> QED  BY <1>1, <1>2, <1>4, <2>1
<1>5. CASE e \in sent /\ e \notin new
  <2>1. e.type = "deleted" => e.sub # s  BY <1>5 DEF EventsAreInOrder
  <2>2. Begun(e.sub) /\ (e.type \in Snapshot => (e.says = "canceled" <=> e.type = "deleted"))
    BY <1>5 DEF EventsAreInOrder
  <2>3. ASSUME e.type \in {"created", "completed"}, NEW f \in sent', f.sub = e.sub
        PROVE  e.created =< f.created
    BY <1>1, <1>2, <1>5, <2>3 DEF EventsAreInOrder
  <2>4. ASSUME e.type = "deleted"
        PROVE  /\ theirs'[e.sub] = "canceled"
               /\ \A f \in sent' : f.sub = e.sub => f.created =< e.created
    BY <1>1, <1>3, <1>5, <2>1, <2>4 DEF EventsAreInOrder
  <2> QED  BY <1>1, <1>2, <1>3, <2>2, <2>3, <2>4 DEF Begun
<1> QED  BY <1>4, <1>5

\* What is new is of this second, and of s only.
LEMMA NewIsOfNow ==
    ASSUME BillingInv, NEW s \in Sub, NEW new, NEW now, Says(s, new, now)
    PROVE  /\ sent \subseteq sent' /\ clock' = clock /\ check' = check /\ Matched' = Matched
           /\ clock \in Int
           /\ \A t : OneASecond(t)' => OneASecond(t)
           /\ \A t : NotOvertaken(t)' => NotOvertaken(t)
           /\ \A t : SnapshotsOf(t) \subseteq SnapshotsOf(t)'
           /\ \A t : \A f \in SnapshotsOf(t)' :
                 f \in SnapshotsOf(t) \/ (f \in new /\ t = s /\ f.created = clock)
           /\ \A e \in sent' : e \in Event /\ e.created \in Int /\ e.created =< clock
           /\ Matched \subseteq sent
<1> USE DEF Says, BillingInv, ledger
<1>1. \A e \in sent' : e \in Event /\ e.created \in Int /\ e.created =< clock
  BY DEF BillingTypeOK, EventsAreInOrder, Event
<1>2. sent \subseteq sent' /\ clock' = clock /\ check' = check /\ Matched' = Matched /\ clock \in Int /\ Matched \subseteq sent
  BY DEF Matched, BillingTypeOK
<1>3. Settled' = Settled  BY <1>2 DEF Settled
<1>4. \A t : OneASecond(t)' => OneASecond(t)  BY <1>2, <1>3, HypothesesAreOfMore
<1>5. \A t : NotOvertaken(t)' => NotOvertaken(t)  BY <1>2, <1>3, HypothesesAreOfMore
<1>6. \A t : SnapshotsOf(t) \subseteq SnapshotsOf(t)'  BY <1>2 DEF SnapshotsOf
<1>7. \A t : \A f \in SnapshotsOf(t)' : f \in SnapshotsOf(t) \/ (f \in new /\ t = s /\ f.created = clock)
  BY DEF SnapshotsOf
<1> QED  BY <1>1, <1>2, <1>4, <1>5, <1>6, <1>7

LEMMA SayingKeepsTruth ==
    ASSUME BillingInv, NEW s \in Sub, NEW new, NEW now, Says(s, new, now)
    PROVE  LastSnapshotIsTrue' /\ AnswersWereTrue'
<1>1. /\ theirs' = [theirs EXCEPT ![s] = now] /\ theirs[s] # "canceled"
      /\ now \in DOMAIN FromStripe
      /\ theirs \in [Sub -> {"none"} \cup DOMAIN FromStripe]
      /\ theirs'[s] = now /\ \A t \in Sub : t # s => theirs'[t] = theirs[t]
  BY DEF Says, BillingInv, BillingTypeOK
<1>2. \A e \in new : /\ e.sub = s /\ e.created = clock /\ e.says = now
                     /\ e.type = "deleted" <=> now = "canceled"
                     /\ e \in sent'
  BY DEF Says
<1>3. \A e \in sent : e.type = "deleted" => e.sub # s
  BY <1>1 DEF EventsAreInOrder, BillingInv
<1>4. LastSnapshotIsTrue'
  <2> SUFFICES ASSUME NEW t \in Sub, Begun(t)'
               PROVE  \E g \in SnapshotsOf(t)' : g.says = theirs'[t] /\ IsLastBefore(g, t, clock + 1)'
    BY DEF LastSnapshotIsTrue
  <2>1. CASE t # s \/ theirs[s] = now
    <3>1. SnapshotsOf(t)' = SnapshotsOf(t)
      BY <2>1, NewIsOfNow DEF Says, SnapshotsOf, Snapshot
    <3>2. Begun(t) /\ theirs'[t] = theirs[t]  BY <1>1, <2>1 DEF Begun
    <3>3. PICK g \in SnapshotsOf(t) : g.says = theirs[t] /\ IsLastBefore(g, t, clock + 1)
      BY <3>2 DEF LastSnapshotIsTrue, BillingInv
    <3>4. IsLastBefore(g, t, clock + 1)'
      BY <3>1, <3>3, NewIsOfNow DEF IsLastBefore, OneASecond
    <3> QED  BY <3>1, <3>2, <3>3, <3>4
  <2>2. CASE t = s /\ theirs[s] # now
    <3>1. PICK g \in new : g.type \in Snapshot  BY <2>2 DEF Says
    <3>2. g \in SnapshotsOf(s)' /\ g.says = theirs'[s] /\ g.created = clock
      BY <1>1, <1>2, <3>1 DEF SnapshotsOf
    <3>3. ASSUME NEW f \in SnapshotsOf(s)', f # g, OneASecond(s)'
          PROVE  f.created < g.created \/ (f.created = g.created /\ g.type = "deleted")
      <4>1. f \in sent' /\ f.created \in Int /\ f.created =< clock /\ clock \in Int
        BY NewIsOfNow DEF SnapshotsOf
      <4>2. CASE f.created = clock
        <5>1. "deleted" \in {f.type, g.type}  BY <3>2, <3>3, <4>2 DEF OneASecond
        <5>2. f.type = "deleted" => f \in new  BY <1>3 DEF SnapshotsOf, Says
        <5>3. f.type = "deleted" => g.type = "deleted"  BY <1>2, <3>1, <5>2
        <5> QED  BY <3>2, <4>2, <5>1, <5>3
      <4> QED  BY <3>2, <4>1, <4>2
    <3>4. IsLastBefore(g, s, clock + 1)'  BY <3>3 DEF IsLastBefore
    <3> QED  BY <2>2, <3>2, <3>4
  <2> QED  BY <2>1, <2>2
<1>5. AnswersWereTrue'
  <2>1. \A t \in Sub : Begun(t) => Begun(t)'  BY <1>1 DEF Begun, FromStripe
  <2>2. ASSUME NEW c \in Check, check[c].pc = "answered"
        PROVE  /\ \A e \in sent' :
                     e.type = "deleted" /\ e.sub = check[c].sub /\ e.created < check[c].read
                     => check[c].says = "canceled"
               /\ \E g \in SnapshotsOf(check[c].sub)' :
                     g.says = check[c].says /\ IsLastBefore(g, check[c].sub, check[c].read)'
    <3> PICK t : t = check[c].sub  OBVIOUS
    <3>1. check[c].read \in 0..clock /\ clock \in Int
      BY <2>2, NewIsOfNow DEF AnswersWereTrue, BillingInv
    <3>2. \A e \in sent : e.type = "deleted" /\ e.sub = t /\ e.created < check[c].read
                          => check[c].says = "canceled"
      BY <2>2 DEF AnswersWereTrue, BillingInv
    <3>3. \A e \in sent' : e.created < check[c].read => e \in sent
      BY <1>2, <3>1 DEF Says
    <3>4. PICK g \in SnapshotsOf(t) : g.says = check[c].says /\ IsLastBefore(g, t, check[c].read)
      BY <2>2 DEF AnswersWereTrue, BillingInv
    <3>5. \A f \in SnapshotsOf(t)' : f.created < check[c].read => f \in SnapshotsOf(t)
      BY <3>3 DEF SnapshotsOf
    <3>6. IsLastBefore(g, t, check[c].read)'
      <4>1. OneASecond(t)' => OneASecond(t)  BY NewIsOfNow
      <4>2. check' = check  BY NewIsOfNow
      <4> QED  BY <3>4, <3>5, <4>1, <4>2 DEF IsLastBefore
    <3>7. g \in SnapshotsOf(t)'  BY <3>4, NewIsOfNow
    <3>8. IsLastBefore(g, check[c].sub, check[c].read)'
      BY <3>6, NewIsOfNow DEF IsLastBefore
    <3> QED  BY <3>2, <3>3, <3>4, <3>7, <3>8, NewIsOfNow
  <2>3. check' = check /\ clock' = clock  BY NewIsOfNow
  <2> QED  BY <2>1, <2>2, <2>3 DEF AnswersWereTrue, BillingInv
<1> QED  BY <1>4, <1>5

LEMMA SayingKeepsStatus ==
    ASSUME BillingInv, NEW s \in Sub, NEW new, NEW now, Says(s, new, now)
    PROVE  EndsAreKnown' /\ StatusIsOfLatest'
<1> PICK t : t = subscription  OBVIOUS
<1>1. status' = status /\ subscription' = subscription /\ latest' = latest
  BY DEF Says, billing
<1>2. latest \in Int /\ latest =< clock /\ clock \in Int
  BY DEF BillingInv, BillingTypeOK, LatestOnlyGrows
<1>3. EndsAreKnown'
  <2> SUFFICES ASSUME t # None, NotOvertaken(t)',
                      NEW e \in sent', e.type = "deleted", e.sub = t,
                      e.created < latest \/ e \in Matched
               PROVE  status = "cancelled"
    BY <1>1, NewIsOfNow DEF EndsAreKnown
  <2>1. e \in sent
    <3>1. e \in sent \/ e.created = clock  BY DEF Says
    <3>2. Matched \subseteq sent  BY NewIsOfNow
    <3> QED  BY <1>2, <3>1, <3>2
  <2>2. NotOvertaken(t)  BY NewIsOfNow
  <2> QED  BY <2>1, <2>2 DEF EndsAreKnown, BillingInv
<1>4. StatusIsOfLatest'
  <2> SUFFICES ASSUME t # None, NotOvertaken(t)', OneASecond(t)'
               PROVE  NothingYet(t)' \/ \E g \in SnapshotsOf(t)' : RowSays(g, t)'
    BY <1>1 DEF StatusIsOfLatest
  <2>1. NotOvertaken(t) /\ OneASecond(t)  BY NewIsOfNow
  <2>2. t \in Sub  BY DEF BillingInv, BillingTypeOK
  <2>3. CASE NothingYet(t)
    <3>1. Begun(t)  BY DEF LatestOnlyGrows, BillingInv
    <3>2. PICK g \in SnapshotsOf(t) : TRUE  BY <2>2, <3>1 DEF LastSnapshotIsTrue, BillingInv
    <3>3. g.created \in Int /\ g.created =< clock  BY NewIsOfNow DEF SnapshotsOf
    <3>4. status = "cancelled" => latest < clock  BY <1>2, <2>3, <3>2, <3>3 DEF NothingYet
    <3>5. ASSUME NEW f \in SnapshotsOf(t)'
          PROVE  f \notin Matched /\ f.created >= latest /\ (status = "cancelled" => f.created > latest)
      <4>1. CASE f \in SnapshotsOf(t)  BY <2>3, <4>1 DEF NothingYet
      <4>2. CASE f \notin SnapshotsOf(t)
        <5>1. f.created = clock  BY <4>2, NewIsOfNow
        <5>2. f \notin Matched  BY <4>2, NewIsOfNow DEF SnapshotsOf
        <5> QED  BY <1>2, <3>4, <5>1, <5>2
      <4> QED  BY <4>1, <4>2
    <3>6. Matched' = Matched  BY NewIsOfNow
    <3> QED  BY <1>1, <3>5, <3>6 DEF NothingYet
  <2>4. ASSUME NEW g \in SnapshotsOf(t), RowSays(g, t)
        PROVE  RowSays(g, t)'
    <3>1. g.created \in Int /\ g.created =< latest  BY <2>4, NewIsOfNow DEF SnapshotsOf, RowSays
    <3>2. Matched' = Matched /\ check' = check /\ Settled' = Settled  BY NewIsOfNow DEF Settled
    <3>3. ASSUME NEW f \in SnapshotsOf(t)', f.created =< latest, f # g
          PROVE  \/ f.created < g.created
                 \/ /\ f.created = g.created
                    /\ g.type = "deleted" \/ (f.type = "deleted" /\ f \notin Matched)
      <4>1. CASE f \in SnapshotsOf(t)  BY <2>4, <3>3, <4>1 DEF RowSays
      <4>2. CASE f \notin SnapshotsOf(t)
        <5>1. f.created = clock /\ latest = clock  BY <1>2, <3>3, <4>2, NewIsOfNow
        <5>2. f \notin Matched  BY <4>2, NewIsOfNow DEF SnapshotsOf
        <5>3. g.created = latest
          <6> SUFFICES ASSUME NEW c \in Settled, check[c].sub = t, check[c].stamp = latest
                       PROVE  FALSE
            BY <2>4 DEF RowSays
          <6>1. f.created < check[c].read \/ f.created > check[c].stamp
            BY <3>2 DEF NotOvertaken
          <6>2. check[c].read \in 0..clock /\ check[c].stamp \in check[c].read..clock
            BY DEF Settled, AnswersWereTrue, BillingInv
          <6> QED  BY <1>2, <5>1, <6>1, <6>2
        <5>4. "deleted" \in {f.type, g.type}
          BY <3>3, <5>1, <5>3, NewIsOfNow DEF OneASecond
        <5> QED  BY <5>1, <5>2, <5>3, <5>4
      <4> QED  BY <4>1, <4>2
    <3> QED  BY <1>1, <2>4, <3>2, <3>3 DEF RowSays
  <2>5. NothingYet(t) \/ \E g \in SnapshotsOf(t) : RowSays(g, t)
    BY <2>1 DEF StatusIsOfLatest, BillingInv
  <2> QED  BY <2>3, <2>4, <2>5, NewIsOfNow
<1> QED  BY <1>3, <1>4

LEMMA SayingKeepsTheInvariant ==
    ASSUME BillingInv, NEW s \in Sub, NEW new, NEW now, Says(s, new, now)
    PROVE  BillingInv'
BY SayingKeepsTypes, SayingKeepsOrder, SayingKeepsTruth, SayingKeepsStatus DEF BillingInv

\* Everything Stripe does of a subscription is of that kind.
LEMMA StripeOnlySays ==
    ASSUME BillingTypeOK, NEW s \in Sub, Checkout(s) \/ Renew(s) \/ Change(s) \/ End(s)
    PROVE  \E new, now : Says(s, new, now)
<1> USE DEF BillingTypeOK, ledger, billing
<1>1. \A type \in Snapshot \cup {"completed", "invoice"}, says \in DOMAIN FromStripe :
          EventOf(s, type, says) \in Event
  BY DEF EventOf, Event, Snapshot
<1>2. ASSUME NEW types \in {{"completed", "created"}, {"created"}}, Begin(s, types),
             customerOf' \in [Sub -> Sub \cup {None}]
      PROVE  \E new, now : Says(s, new, now)
  <2>1. PICK now \in {"incomplete", "active"} :
           /\ theirs' = [theirs EXCEPT ![s] = now]
           /\ sent' = sent \cup {EventOf(s, type, now) : type \in types}
    BY <1>2 DEF Begin
  <2> DEFINE new == {EventOf(s, type, now) : type \in types}
  <2>2. \A e \in new : /\ e \in Event /\ e.sub = s /\ e.created = clock /\ e.says = now
                       /\ e.type \in {"completed", "created"}
    BY <1>1, <1>2 DEF EventOf, FromStripe, Snapshot
  <2>3. EventOf(s, "created", now) \in new /\ EventOf(s, "created", now).type \in Snapshot
    BY <1>2 DEF EventOf, Snapshot
  <2>4. theirs[s] = "none"  BY <1>2 DEF Begin
  <2>5. Says(s, new, now)
    BY <1>2, <2>1, <2>2, <2>3, <2>4 DEF Begin, Says, FromStripe
  <2> QED  BY <2>5
<1>3. CASE Checkout(s)  BY <1>2, <1>3 DEF Checkout
<1>4. CASE Renew(s)  BY <1>2, <1>4 DEF Renew
<1>5. CASE Change(s)
  <2>1. ASSUME NEW now \in {"active", "past_due"}, now # theirs[s],
               theirs' = [theirs EXCEPT ![s] = now],
               sent' = sent \cup {EventOf(s, "updated", now)}
        PROVE  Says(s, {EventOf(s, "updated", now)}, now)
    BY <1>1, <1>5, <2>1 DEF Change, Says, EventOf, Live, FromStripe, Snapshot
  <2>2. ASSUME theirs' = theirs, sent' = sent \cup {EventOf(s, "invoice", theirs[s])}
        PROVE  Says(s, {EventOf(s, "invoice", theirs[s])}, theirs[s])
    BY <1>1, <1>5, <2>2 DEF Change, Says, EventOf, Live, FromStripe, Snapshot
  <2> QED  BY <1>5, <2>1, <2>2 DEF Change
<1>6. CASE End(s)
  <2>1. Says(s, {EventOf(s, "deleted", "canceled")}, "canceled")
    BY <1>1, <1>6 DEF End, Says, EventOf, Live, FromStripe, Snapshot
  <2> QED  BY <2>1
<1> QED  BY <1>3, <1>4, <1>5, <1>6

-----------------------------------------------------------------------------
(* The webhook.                                                                *)

\* A recorded event leaves alone what Stripe said and what operators heard.
LEMMA ReceivingKeepsTruth ==
    ASSUME BillingInv, NEW e, Receive(e)
    PROVE  /\ AreRecords' /\ EventsAreInOrder' /\ LastSnapshotIsTrue' /\ AnswersWereTrue'
           /\ \A s : OneASecond(s)' <=> OneASecond(s)
           /\ \A s : NotOvertaken(s)' <=> NotOvertaken(s)
           /\ \A s : SnapshotsOf(s)' = SnapshotsOf(s)
           /\ Settled' = Settled /\ check' = check /\ sent' = sent /\ clock' = clock
           /\ \A s : Begun(s)' <=> Begun(s)
<1>1. /\ sent' = sent /\ theirs' = theirs /\ customerOf' = customerOf /\ clock' = clock
      /\ check' = check
  BY DEF Receive, stripe
<1>2. \A s : SnapshotsOf(s)' = SnapshotsOf(s)  BY <1>1 DEF SnapshotsOf
<1>3. \A s : OneASecond(s)' <=> OneASecond(s)  BY <1>2 DEF OneASecond
<1>4. Settled' = Settled  BY <1>1 DEF Settled
<1>5. \A s : NotOvertaken(s)' <=> NotOvertaken(s)  BY <1>1, <1>2, <1>4 DEF NotOvertaken
<1>6. \A s : Begun(s)' <=> Begun(s)  BY <1>1 DEF Begun
<1>7. AreRecords' /\ EventsAreInOrder'
  BY <1>1 DEF AreRecords, NoCheck, EventsAreInOrder, Begun, BillingInv
<1>8. \A g, s, t : IsLastBefore(g, s, t) => IsLastBefore(g, s, t)'
  BY <1>2, <1>3 DEF IsLastBefore
<1>9. LastSnapshotIsTrue'
  <2> SUFFICES ASSUME NEW s \in Sub, Begun(s)
               PROVE  \E g \in SnapshotsOf(s) : g.says = theirs[s] /\ IsLastBefore(g, s, clock + 1)'
    BY <1>1, <1>2, <1>6 DEF LastSnapshotIsTrue
  <2>1. PICK g \in SnapshotsOf(s) : g.says = theirs[s] /\ IsLastBefore(g, s, clock + 1)
    BY DEF LastSnapshotIsTrue, BillingInv
  <2>2. IsLastBefore(g, s, clock + 1)'  BY <1>1, <1>2, <1>3, <2>1 DEF IsLastBefore
  <2> QED  BY <2>1, <2>2
<1>10. AnswersWereTrue'
  <2>1. ASSUME NEW c \in Check, check[c].pc = "answered"
        PROVE  \E g \in SnapshotsOf(check[c].sub)' :
                   g.says = check[c].says /\ IsLastBefore(g, check[c].sub, check[c].read)'
    <3>1. PICK g \in SnapshotsOf(check[c].sub) :
              g.says = check[c].says /\ IsLastBefore(g, check[c].sub, check[c].read)
      BY <2>1 DEF AnswersWereTrue, BillingInv
    <3>2. IsLastBefore(g, check[c].sub, check[c].read)'
      BY <1>1, <1>2, <1>3, <3>1 DEF IsLastBefore
    <3>3. SnapshotsOf(check[c].sub)' = SnapshotsOf(check[c].sub)  BY <1>1 DEF SnapshotsOf
    <3> QED  BY <3>1, <3>2, <3>3
  <2>2. check' = check /\ clock' = clock /\ sent' = sent  BY <1>1
  <2> QED  BY <1>6, <2>1, <2>2 DEF AnswersWereTrue, BillingInv, Begun
<1> QED  BY <1>1, <1>2, <1>3, <1>4, <1>5, <1>6, <1>7, <1>9, <1>10

\* An event that has arrived is one of those the row is known by.
Taken(e) ==
    /\ Receive(e)
    /\ Matched' = Matched \cup {e} /\ e \notin Matched
    /\ recorded' \subseteq sent /\ unmatched' = unmatched /\ unmatched \subseteq recorded'
    /\ e \in sent /\ e.sub \in Sub /\ e.created \in 0..clock /\ latest \in 0..clock /\ clock \in 0..MaxTime

LEMMA ReceivedIsTaken ==
    ASSUME BillingInv, NEW e, Receive(e), UNCHANGED unmatched
    PROVE  Taken(e)
BY DEF BillingInv, BillingTypeOK, EventsAreInOrder, LatestOnlyGrows, Receive, Genuine, Matched, Taken, Event

\* What is set aside is not taken in.
LEMMA UnmatchedKeeps ==
    ASSUME BillingInv, NEW e, Unmatched(e)
    PROVE  BillingInv'
<1>1. Receive(e) /\ UNCHANGED billing /\ unmatched' = unmatched \cup {e}  BY DEF Unmatched
<1>2. BillingTypeOK'
  BY <1>1 DEF BillingInv, BillingTypeOK, Receive, Genuine, billing, stripe
<1>3. Matched' = Matched  BY <1>1 DEF Receive, Matched, BillingInv, BillingTypeOK
<1> USE ReceivingKeepsTruth, <1>1, <1>3
<1>4. LatestOnlyGrows'  BY DEF LatestOnlyGrows, BillingInv, billing
<1>5. PICK s : s = subscription  OBVIOUS
<1>6. subscription' = s /\ status' = status /\ latest' = latest  BY <1>5 DEF billing
<1>7. EndsAreKnown'  BY <1>5, <1>6 DEF EndsAreKnown, BillingInv
<1>8. NothingYet(s) => NothingYet(s)'  BY <1>6 DEF NothingYet
<1>9. \A g : RowSays(g, s) => RowSays(g, s)'  BY <1>6 DEF RowSays
<1>10. StatusIsOfLatest'  BY <1>5, <1>6, <1>8, <1>9 DEF StatusIsOfLatest, BillingInv
<1> QED  BY <1>2, <1>4, <1>7, <1>10 DEF BillingInv

\* The row says no less for one more event of it, except for an end.
LEMMA RowStandsFor ==
    ASSUME BillingInv, NEW e, Taken(e), NEW s,
           status' = status, latest' = latest
    PROVE  /\ e \notin SnapshotsOf(s) /\ NothingYet(s) => NothingYet(s)'
           /\ \A g : RowSays(g, s) /\ (e.type = "deleted" => g.type = "deleted") => RowSays(g, s)'
<1> USE DEF Taken
<1>1. e \notin SnapshotsOf(s) /\ NothingYet(s) => NothingYet(s)'
  BY ReceivingKeepsTruth DEF NothingYet
<1>2. ASSUME NEW g, RowSays(g, s), e.type = "deleted" => g.type = "deleted"
      PROVE  RowSays(g, s)'
  <2>1. \A f \in SnapshotsOf(s) :
           f.created =< latest /\ f # g =>
               \/ f.created < g.created
               \/ /\ f.created = g.created
                  /\ g.type = "deleted" \/ (f.type = "deleted" /\ f \notin Matched')
    BY <1>2 DEF RowSays
  <2> QED  BY <1>2, <2>1, ReceivingKeepsTruth DEF RowSays
<1> QED  BY <1>1, <1>2

\* An invoice only tells of the payment.
LEMMA ObserveKeeps ==
    ASSUME BillingInv, NEW e, Observe(e)
    PROVE  BillingInv'
<1>1. Taken(e) /\ e.type = "invoice" /\ UNCHANGED billing
  BY ReceivedIsTaken DEF Observe
<1>2. Receive(e) /\ Matched' = Matched \cup {e}  BY <1>1 DEF Taken
<1>3. BillingTypeOK'
  BY <1>1 DEF BillingInv, BillingTypeOK, Receive, Genuine, billing, stripe, Taken
<1>4. LatestOnlyGrows'
  BY <1>1, <1>2, ReceivingKeepsTruth DEF LatestOnlyGrows, BillingInv, billing, Snapshot
<1>5. PICK s : s = subscription  OBVIOUS
<1>6. subscription' = s /\ status' = status /\ latest' = latest  BY <1>1, <1>5 DEF billing
<1>7. EndsAreKnown'
  BY <1>1, <1>2, <1>5, <1>6, ReceivingKeepsTruth DEF EndsAreKnown, BillingInv
<1>8. e \notin SnapshotsOf(s)  BY <1>1 DEF SnapshotsOf, Snapshot
<1>9. NothingYet(s) => NothingYet(s)'  BY <1>1, <1>6, <1>8, RowStandsFor
<1>10. \A g : RowSays(g, s) => RowSays(g, s)'  BY <1>1, <1>6, RowStandsFor
<1>11. StatusIsOfLatest'
  BY <1>2, <1>5, <1>6, <1>9, <1>10, ReceivingKeepsTruth DEF StatusIsOfLatest, BillingInv
<1> QED  BY <1>2, <1>3, <1>4, <1>7, <1>11, ReceivingKeepsTruth DEF BillingInv

\* An end older than the row was known to the row already.
LEMMA OutdatedKeeps ==
    ASSUME BillingInv, NEW e, Outdated(e)
    PROVE  BillingInv'
<1>1. Taken(e) /\ Stale(e) /\ Matches(e) /\ UNCHANGED billing
  BY ReceivedIsTaken DEF Outdated
<1>2. Receive(e) /\ Matched' = Matched \cup {e} /\ e \in sent  BY <1>1 DEF Taken
<1>3. BillingTypeOK'
  BY <1>1 DEF BillingInv, BillingTypeOK, Receive, Genuine, billing, stripe, Taken
<1>4. e.created =< latest /\ subscription # None
  BY <1>1 DEF Stale, Taken, LatestOnlyGrows, BillingInv
<1>5. LatestOnlyGrows'
  BY <1>1, <1>2, <1>4, ReceivingKeepsTruth DEF LatestOnlyGrows, BillingInv, billing
<1>6. PICK s : s = subscription  OBVIOUS
<1>7. subscription' = s /\ status' = status /\ latest' = latest  BY <1>1, <1>6 DEF billing
<1>8. e.type = "deleted" => e.created < latest  BY <1>1 DEF Stale
<1>9. EndsAreKnown'
  BY <1>2, <1>6, <1>7, <1>8, ReceivingKeepsTruth DEF EndsAreKnown, BillingInv
<1>10. StatusIsOfLatest'
  <2> SUFFICES ASSUME NotOvertaken(s), OneASecond(s), s # None
               PROVE  NothingYet(s)' \/ \E g \in SnapshotsOf(s) : RowSays(g, s)'
    BY <1>2, <1>6, <1>7, ReceivingKeepsTruth DEF StatusIsOfLatest
  <2>1. CASE NothingYet(s)
    <3>1. e \notin SnapshotsOf(s)  BY <1>1, <2>1 DEF Stale, NothingYet, Taken
    <3> QED  BY <1>1, <1>7, <2>1, <3>1, RowStandsFor
  <2>2. ASSUME NEW g \in SnapshotsOf(s), RowSays(g, s)
        PROVE  \E h \in SnapshotsOf(s) : RowSays(h, s)'
    <3>1. CASE e.type = "deleted" /\ e.sub = s
      <4>1. status = "cancelled"
        BY <1>2, <1>6, <1>8, <3>1 DEF EndsAreKnown, BillingInv
      <4>2. g \in sent /\ g.says \in DOMAIN FromStripe /\ g.type \in Snapshot
        BY DEF SnapshotsOf, BillingInv, BillingTypeOK, Event
      <4>3. g.says = "canceled"  BY <2>2, <4>1, <4>2 DEF RowSays, FromStripe
      <4>4. g.type = "deleted"  BY <4>2, <4>3 DEF EventsAreInOrder, BillingInv
      <4>5. RowSays(g, s)'  BY <1>1, <1>7, <2>2, <4>4, RowStandsFor
      <4> QED  BY <4>5
    <3>2. CASE e.type # "deleted"
      <4>1. RowSays(g, s)'  BY <1>1, <1>7, <2>2, <3>2, RowStandsFor
      <4> QED  BY <4>1
    <3>3. CASE e.sub # s
      <4>1. e \notin SnapshotsOf(s)  BY <3>3 DEF SnapshotsOf
      <4>2. RowSays(g, s)'
        BY <1>2, <1>7, <2>2, <4>1, ReceivingKeepsTruth DEF RowSays
      <4> QED  BY <4>2
    <3> QED  BY <3>1, <3>2, <3>3
  <2> QED  BY <1>6, <2>1, <2>2 DEF StatusIsOfLatest, BillingInv
<1> QED  BY <1>2, <1>3, <1>5, <1>9, <1>10, ReceivingKeepsTruth DEF BillingInv

\* A snapshot that is not stale is the last there is of its subscription.
LEMMA ApplyKeeps ==
    ASSUME BillingInv, NEW e, Apply(e)
    PROVE  BillingInv'
<1>1. Taken(e) /\ ~Stale(e) /\ Matches(e) /\ e.type \in Snapshot
  BY ReceivedIsTaken DEF Apply
<1>2. Receive(e) /\ Matched' = Matched \cup {e} /\ e \in sent /\ e \in Event
  BY <1>1 DEF Taken, BillingInv, BillingTypeOK
<1>3. PICK s \in Sub : s = e.sub  BY <1>1 DEF Taken
<1>4. s # None  BY SubAssumption
<1>5. /\ status' = FromStripe[e.says] /\ since' = PastDueSince(FromStripe[e.says])
      /\ latest' = e.created /\ subscription' = s
      /\ customer' \in Sub \cup {None}
  BY <1>1, <1>3, <1>4 DEF Apply, Associate, Coalesce, Matches, ReplacesSubscription, BillingInv, BillingTypeOK
<1>6. /\ e.created \in Int /\ latest \in Int /\ clock \in 0..MaxTime /\ e.created =< clock /\ e.created >= latest
      /\ \A f \in sent : f.created \in Int
  BY <1>1, <1>2 DEF Taken, Stale, BillingInv, BillingTypeOK, Event
<1>7. BillingTypeOK'
  <2>1. since' \in 0..MaxTime \cup {None} /\ (since' # None <=> status' = "past_due")
    <3>1. None \notin 0..MaxTime  BY SubAssumption, LimitAssumption
    <3> QED  BY <1>5, <1>6, <3>1 DEF PastDueSince, BillingInv, BillingTypeOK
  <2> QED
    BY <1>1, <1>2, <1>5, <1>6, <2>1 DEF BillingInv, BillingTypeOK, Receive, stripe, Taken, Event, FromStripe
<1>8. \A f \in Matched : f.type \in Snapshot => f.created =< latest /\ f \in sent
  BY DEF LatestOnlyGrows, Matched, BillingInv, BillingTypeOK
<1>9. Begun(s)  BY <1>2, <1>3 DEF EventsAreInOrder, BillingInv
<1>10. LatestOnlyGrows'
  <2>1. latest' =< clock /\ \A f \in Matched' : f.type \in Snapshot => f.created =< latest'
    BY <1>2, <1>5, <1>6, <1>8
  <2> QED  BY <1>2, <1>4, <1>5, <1>9, <2>1, ReceivingKeepsTruth DEF LatestOnlyGrows
\* Had an end of the same second been taken in, e would be stale.
<1>11. ASSUME NEW f \in Matched, f.type = "deleted", f.sub = s, f.created = e.created,
              NotOvertaken(s)
       PROVE  e.type = "deleted"
  <2>1. f.created = latest /\ f \in sent  BY <1>6, <1>8, <1>11 DEF Snapshot
  <2>2. subscription # None  BY <1>11 DEF LatestOnlyGrows, BillingInv
  <2>3. CASE subscription = s
    <3>1. status = "cancelled"
      BY <1>4, <1>11, <2>1, <2>3 DEF EndsAreKnown, BillingInv
    <3> QED  BY <1>1, <1>11, <2>1, <3>1 DEF Stale
  <2>4. CASE subscription # s
    <3>1. status = "cancelled" /\ e.type \in {"created", "completed"}
      BY <1>1, <1>3, <2>2, <2>4 DEF Matches, ReplacesSubscription
    <3> QED  BY <1>1, <1>11, <2>1, <3>1 DEF Stale
  <2> QED  BY <2>3, <2>4
<1>12. e.type = "deleted" => e.says = "canceled"
  BY <1>1, <1>2 DEF EventsAreInOrder, BillingInv
<1>13. EndsAreKnown'
  <2> SUFFICES ASSUME NotOvertaken(s), NEW f \in sent, f.type = "deleted", f.sub = s,
                      f.created < e.created \/ f \in Matched \cup {e}
               PROVE  status' = "cancelled"
    BY <1>2, <1>5, ReceivingKeepsTruth DEF EndsAreKnown
  <2>1. e.created =< f.created  BY <1>2, <1>3 DEF EventsAreInOrder, BillingInv
  <2>2. f = e \/ (f \in Matched /\ f.created = e.created)
    BY <1>6, <1>8, <2>1 DEF Snapshot
  <2>3. e.type = "deleted"  BY <1>11, <2>2
  <2> QED  BY <1>5, <1>12, <2>3 DEF FromStripe
<1>14. StatusIsOfLatest'
  <2> SUFFICES ASSUME NotOvertaken(s), OneASecond(s)
               PROVE  e \in SnapshotsOf(s) /\ RowSays(e, s)'
    BY <1>2, <1>5, ReceivingKeepsTruth DEF StatusIsOfLatest
  <2>1. e \in SnapshotsOf(s)  BY <1>1, <1>2, <1>3 DEF SnapshotsOf
  <2>2. ASSUME NEW f \in SnapshotsOf(s), f.created =< e.created, f # e
        PROVE  \/ f.created < e.created
               \/ /\ f.created = e.created
                  /\ e.type = "deleted" \/ (f.type = "deleted" /\ f \notin Matched \cup {e})
    <3>1. f.created \in Int /\ f.sub = s  BY <1>6 DEF SnapshotsOf
    <3>2. CASE f.created = e.created
      <4>1. "deleted" \in {e.type, f.type}  BY <2>1, <2>2, <3>2 DEF OneASecond
      <4> QED  BY <1>11, <2>2, <3>1, <3>2, <4>1
    <3> QED  BY <1>6, <2>2, <3>1, <3>2
  <2>3. RowSays(e, s)'
    BY <1>2, <1>5, <1>6, <2>2, ReceivingKeepsTruth DEF RowSays
  <2> QED  BY <2>1, <2>3
<1> QED  BY <1>2, <1>7, <1>10, <1>13, <1>14, ReceivingKeepsTruth DEF BillingInv

\* A completed checkout binds a subscription of which nothing is known yet.
LEMMA BindKeeps ==
    ASSUME BillingInv, NEW e, Bind(e)
    PROVE  BillingInv'
<1>1. Taken(e) /\ ~Stale(e) /\ Matches(e) /\ e.type = "completed"
  BY ReceivedIsTaken DEF Bind
<1>2. Receive(e) /\ Matched' = Matched \cup {e} /\ e \in sent /\ e \in Event
  BY <1>1 DEF Taken, BillingInv, BillingTypeOK
<1>3. PICK s \in Sub : s = e.sub  BY <1>1 DEF Taken
<1>4. s # None  BY SubAssumption
<1>5. /\ status' = status /\ since' = since /\ latest' = latest /\ subscription' = s
      /\ customer' \in Sub \cup {None}
  BY <1>1, <1>3, <1>4 DEF Bind, Associate, Coalesce, Matches, ReplacesSubscription, BillingInv, BillingTypeOK
<1>6. /\ e.created \in Int /\ latest \in Int /\ clock \in 0..MaxTime /\ e.created >= latest
      /\ \A f \in sent : f.created \in Int /\ f.created >= 0
  BY <1>1, <1>2 DEF Taken, Stale, BillingInv, BillingTypeOK, Event
<1>7. BillingTypeOK'
  BY <1>1, <1>5 DEF BillingInv, BillingTypeOK, Receive, stripe, Taken
<1>8. Begun(s)  BY <1>2, <1>3 DEF EventsAreInOrder, BillingInv
<1>9. LatestOnlyGrows'
  BY <1>1, <1>2, <1>4, <1>5, <1>8, ReceivingKeepsTruth DEF LatestOnlyGrows, BillingInv, Snapshot
<1>10. e \notin SnapshotsOf(s)  BY <1>1 DEF SnapshotsOf, Snapshot
<1>11. NothingYet(s) => NothingYet(s)'  BY <1>1, <1>5, <1>10, RowStandsFor
<1> SUFFICES EndsAreKnown' /\ StatusIsOfLatest'
  BY <1>2, <1>7, <1>9, ReceivingKeepsTruth DEF BillingInv
<1>12. CASE subscription = s
  <2>1. EndsAreKnown'
    BY <1>1, <1>2, <1>5, <1>12, ReceivingKeepsTruth DEF EndsAreKnown, BillingInv
  <2>2. \A g : RowSays(g, s) => RowSays(g, s)'  BY <1>1, <1>5, RowStandsFor
  <2>3. StatusIsOfLatest'
    BY <1>2, <1>5, <1>11, <1>12, <2>2, ReceivingKeepsTruth DEF StatusIsOfLatest, BillingInv
  <2> QED  BY <2>1, <2>3
<1>13. CASE subscription = None
  <2>1. /\ status = "pending_payment" /\ latest = 0
        /\ \A f \in Matched : f.type = "invoice"
    BY <1>13 DEF LatestOnlyGrows, BillingInv
  <2>2. EndsAreKnown'
    BY <1>1, <1>2, <1>5, <1>6, <2>1, ReceivingKeepsTruth DEF EndsAreKnown
  <2>3. NothingYet(s)
    <3>1. \A f \in SnapshotsOf(s) : f \in sent /\ f.type \in Snapshot  BY DEF SnapshotsOf
    <3>2. "invoice" \notin Snapshot  BY DEF Snapshot
    <3> QED  BY <1>6, <2>1, <3>1, <3>2 DEF NothingYet
  <2> QED  BY <1>2, <1>5, <1>11, <2>2, <2>3, ReceivingKeepsTruth DEF StatusIsOfLatest
<1>14. CASE subscription # None /\ subscription # s
  <2>1. status = "cancelled"  BY <1>1, <1>3, <1>14 DEF Matches, ReplacesSubscription
  <2>2. e.created > latest  BY <1>1, <1>6, <2>1 DEF Stale
  <2>3. EndsAreKnown'  BY <1>2, <1>5, <2>1, ReceivingKeepsTruth DEF EndsAreKnown
  <2>4. ASSUME NEW f \in SnapshotsOf(s)
        PROVE  f \notin Matched /\ f.created > latest
    <3>1. f \in sent /\ f.sub = s /\ f.type \in Snapshot  BY DEF SnapshotsOf
    <3>2. e.created =< f.created  BY <1>1, <1>2, <1>3, <3>1 DEF EventsAreInOrder, BillingInv
    <3>3. f.created > latest  BY <1>6, <2>2, <3>1, <3>2
    <3> QED  BY <1>6, <3>1, <3>3 DEF LatestOnlyGrows, BillingInv
  <2>5. NothingYet(s)
    <3>1. \A f \in SnapshotsOf(s) : f \in sent  BY DEF SnapshotsOf
    <3> QED  BY <1>6, <2>4, <3>1 DEF NothingYet
  <2> QED  BY <1>2, <1>5, <1>11, <2>3, <2>5, ReceivingKeepsTruth DEF StatusIsOfLatest
<1> QED  BY <1>12, <1>13, <1>14

-----------------------------------------------------------------------------
(* An operator asks Stripe.                                                    *)

\* Of the reconciliations only c moved, and was not filed before or after.
Moves(c, new) ==
    /\ check[c].pc # "settled" /\ new.pc # "settled"
    /\ check' = [check EXCEPT ![c] = new]
    /\ DOMAIN new = DOMAIN NoCheck /\ new = [x \in DOMAIN NoCheck |-> new[x]]
    /\ new.pc \in {"idle", "asking", "answered"}
    /\ UNCHANGED <<clock, stripe, ledger, billing, lifecycle>>

\* What c was told, if anything, was true.
IsTrueOf(new) ==
    /\ new.pc # "idle" => new.sub \in Sub /\ Begun(new.sub)
    /\ new.pc = "answered" =>
       /\ new.read \in 0..clock
       /\ \A e \in sent :
             e.type = "deleted" /\ e.sub = new.sub /\ e.created < new.read => new.says = "canceled"
       /\ \E g \in SnapshotsOf(new.sub) :
             g.says = new.says /\ IsLastBefore(g, new.sub, new.read)

LEMMA MovingKeeps ==
    ASSUME BillingInv, NEW c \in Check, NEW new, Moves(c, new), IsTrueOf(new)
    PROVE  BillingInv'
<1>1. /\ theirs' = theirs /\ customerOf' = customerOf /\ sent' = sent /\ clock' = clock
      /\ recorded' = recorded /\ unmatched' = unmatched /\ lifecycle' = lifecycle
      /\ status' = status /\ since' = since /\ customer' = customer
      /\ subscription' = subscription /\ latest' = latest
  BY DEF Moves, stripe, ledger, billing
<1>2. /\ check'[c] = new
      /\ \A d \in Check : d # c => check'[d] = check[d]
      /\ AreRecords'
  BY DEF Moves, AreRecords, BillingInv
<1>3. Settled' = Settled  BY <1>2 DEF Settled, Moves
<1>4. \A d \in Settled : check'[d] = check[d]  BY <1>2 DEF Settled, Moves
<1>5. \A s : SnapshotsOf(s)' = SnapshotsOf(s)  BY <1>1 DEF SnapshotsOf
<1>6. \A s : OneASecond(s)' <=> OneASecond(s)  BY <1>5 DEF OneASecond
<1>7. \A s : NotOvertaken(s)' <=> NotOvertaken(s)  BY <1>3, <1>4, <1>5 DEF NotOvertaken
<1>8. Matched' = Matched /\ \A s : Begun(s)' <=> Begun(s)  BY <1>1 DEF Matched, Begun
<1>9. BillingTypeOK'  BY <1>1, <1>2 DEF BillingTypeOK, BillingInv, Moves
<1>10. EventsAreInOrder' /\ LatestOnlyGrows'
  BY <1>1, <1>8 DEF EventsAreInOrder, LatestOnlyGrows, Begun, BillingInv
<1>11. LastSnapshotIsTrue'
  <2> SUFFICES ASSUME NEW s \in Sub, Begun(s)
               PROVE  \E g \in SnapshotsOf(s) : g.says = theirs[s] /\ IsLastBefore(g, s, clock + 1)'
    BY <1>1, <1>5, <1>8 DEF LastSnapshotIsTrue
  <2>1. PICK g \in SnapshotsOf(s) : g.says = theirs[s] /\ IsLastBefore(g, s, clock + 1)
    BY DEF LastSnapshotIsTrue, BillingInv
  <2>2. IsLastBefore(g, s, clock + 1)'  BY <1>1, <1>5, <1>6, <2>1 DEF IsLastBefore
  <2> QED  BY <2>1, <2>2
<1>12. AnswersWereTrue'
  <2> SUFFICES ASSUME NEW d \in Check
               PROVE  /\ check'[d].pc # "idle" => check'[d].sub \in Sub /\ Begun(check'[d].sub)
                      /\ check'[d].pc \in {"answered", "settled"} => check'[d].read \in 0..clock
                      /\ check'[d].pc = "answered" =>
                         /\ \A e \in sent :
                               e.type = "deleted" /\ e.sub = check'[d].sub /\ e.created < check'[d].read
                               => check'[d].says = "canceled"
                         /\ \E g \in SnapshotsOf(check'[d].sub) :
                               g.says = check'[d].says /\ IsLastBefore(g, check'[d].sub, check'[d].read)
                      /\ check'[d].pc = "settled" => check'[d].stamp \in check'[d].read..clock
    <3>1. \A g, s, t :
             IsLastBefore(g, s, t) <=>
                 \A f \in SnapshotsOf(s)' :
                     f.created < t /\ f # g /\ OneASecond(s)' =>
                         f.created < g.created \/ (f.created = g.created /\ g.type = "deleted")
      BY <1>5, <1>6 DEF IsLastBefore
    <3> QED  BY <1>1, <1>5, <1>8, <3>1 DEF AnswersWereTrue, IsLastBefore, Begun
  <2>1. CASE d = c  BY <1>2, <2>1 DEF IsTrueOf, Moves
  <2>2. CASE d # c  BY <1>2, <2>2 DEF AnswersWereTrue, BillingInv
  <2> QED  BY <2>1, <2>2
<1>13. EndsAreKnown'  BY <1>1, <1>7, <1>8 DEF EndsAreKnown, BillingInv
<1>14. StatusIsOfLatest'
  <2> PICK s : s = subscription  OBVIOUS
  <2>1. NothingYet(s) => NothingYet(s)'  BY <1>1, <1>5, <1>8 DEF NothingYet
  <2>2. \A g : RowSays(g, s) => RowSays(g, s)'  BY <1>1, <1>3, <1>4, <1>5, <1>8 DEF RowSays
  <2>3. NotOvertaken(s)' /\ OneASecond(s)' => NotOvertaken(s) /\ OneASecond(s)  BY <1>6, <1>7
  <2> QED  BY <1>1, <1>5, <2>1, <2>2, <2>3 DEF StatusIsOfLatest, BillingInv
<1> QED  BY <1>2, <1>9, <1>10, <1>11, <1>12, <1>13, <1>14 DEF BillingInv

LEMMA AskStripeKeeps ==
    ASSUME BillingInv, NEW c \in Check, NEW s \in Sub, AskStripe(c, s)
    PROVE  BillingInv'
<1> DEFINE new == [check[c] EXCEPT !.pc = "asking", !.sub = s, !.before = Row]
<1>1. check[c] = [x \in DOMAIN NoCheck |-> check[c][x]]  BY DEF BillingInv, AreRecords
<1>2. new.pc = "asking" /\ new.sub = s /\ DOMAIN new = DOMAIN NoCheck /\ new = [x \in DOMAIN NoCheck |-> new[x]]
  BY <1>1 DEF NoCheck
<1>3. check' = [check EXCEPT ![c] = new]  BY DEF AskStripe
<1> HIDE DEF new
<1>4. Moves(c, new)  BY <1>2, <1>3 DEF AskStripe, Moves
<1>5. IsTrueOf(new)  BY <1>2 DEF AskStripe, IsTrueOf, Begun, FromStripe
<1> QED  BY <1>4, <1>5, MovingKeeps

LEMMA StripeAnswersKeeps ==
    ASSUME BillingInv, NEW c \in Check, StripeAnswers(c)
    PROVE  BillingInv'
<1> PICK s : s = check[c].sub  OBVIOUS
<1> DEFINE new == [check[c] EXCEPT !.pc = "answered", !.says = theirs[s], !.read = clock]
<1>1. check[c] = [x \in DOMAIN NoCheck |-> check[c][x]]  BY DEF BillingInv, AreRecords
<1>2. /\ new.pc = "answered" /\ new.sub = s /\ new.says = theirs[s] /\ new.read = clock
      /\ DOMAIN new = DOMAIN NoCheck /\ new = [x \in DOMAIN NoCheck |-> new[x]]
  BY <1>1 DEF NoCheck
<1>3. check' = [check EXCEPT ![c] = new]  BY DEF StripeAnswers
<1> HIDE DEF new
<1>4. Moves(c, new)  BY <1>2, <1>3 DEF StripeAnswers, Moves
<1>5. s \in Sub /\ Begun(s)  BY DEF StripeAnswers, AnswersWereTrue, BillingInv
<1>6. clock \in 0..clock /\ clock \in Int
  BY LimitAssumption DEF BillingInv, BillingTypeOK
<1>7. \A e \in sent : e.type = "deleted" /\ e.sub = s => theirs[s] = "canceled"
  BY DEF EventsAreInOrder, BillingInv
<1>8. \E g \in SnapshotsOf(s) : g.says = theirs[s] /\ IsLastBefore(g, s, clock)
  <2>1. PICK g \in SnapshotsOf(s) : g.says = theirs[s] /\ IsLastBefore(g, s, clock + 1)
    BY <1>5 DEF LastSnapshotIsTrue, BillingInv
  <2>2. \A f \in SnapshotsOf(s) : f.created \in Int
    BY DEF SnapshotsOf, BillingInv, BillingTypeOK, Event
  <2>3. IsLastBefore(g, s, clock)  BY <1>6, <2>1, <2>2 DEF IsLastBefore
  <2> QED  BY <2>1, <2>3
<1>9. IsTrueOf(new)  BY <1>2, <1>5, <1>6, <1>7, <1>8 DEF IsTrueOf
<1> QED  BY <1>4, <1>9, MovingKeeps

LEMMA GiveUpKeeps ==
    ASSUME BillingInv, NEW c \in Check, GiveUp(c)
    PROVE  BillingInv'
<1>1. Moves(c, NoCheck)  BY DEF GiveUp, Moves, NoCheck
<1>2. IsTrueOf(NoCheck)  BY DEF IsTrueOf, NoCheck
<1> QED  BY <1>1, <1>2, MovingKeeps

\* What is filed is what Stripe said at the second it answered.
LEMMA SettleKeeps ==
    ASSUME BillingInv, NEW c \in Check, Settle(c)
    PROVE  BillingInv'
<1> PICK s, r, says : s = check[c].sub /\ r = check[c].read /\ says = check[c].says  OBVIOUS
<1>1. /\ theirs' = theirs /\ customerOf' = customerOf /\ sent' = sent /\ clock' = clock
      /\ recorded' = recorded /\ unmatched' = unmatched /\ lifecycle' = lifecycle
      /\ status' = FromStripe[says] /\ since' = PastDueSince(FromStripe[says])
      /\ customer' = customer /\ subscription' = s /\ latest' = clock
      /\ check[c].pc = "answered"
  BY DEF Settle, stripe, ledger
<1>2. /\ check'[c].pc = "settled" /\ check'[c].stamp = clock
      /\ check'[c].sub = s /\ check'[c].read = r
      /\ \A d \in Check : d # c => check'[d] = check[d]
      /\ AreRecords'
  BY DEF Settle, AreRecords, BillingInv, NoCheck
<1>3. s \in Sub /\ Begun(s) /\ r \in 0..clock /\ clock \in 0..MaxTime /\ s # None
  BY <1>1, SubAssumption DEF AnswersWereTrue, BillingInv, BillingTypeOK
<1>4. \A e \in sent : e.type = "deleted" /\ e.sub = s /\ e.created < r => says = "canceled"
  BY <1>1 DEF AnswersWereTrue, BillingInv
<1>5. PICK g \in SnapshotsOf(s) : g.says = says /\ IsLastBefore(g, s, r)
  BY <1>1 DEF AnswersWereTrue, BillingInv
<1>6. \A f \in sent : f.created \in Int /\ f.created =< clock /\ f.says \in DOMAIN FromStripe
  BY DEF BillingInv, BillingTypeOK, EventsAreInOrder, Event
<1>7. \A t : SnapshotsOf(t)' = SnapshotsOf(t)  BY <1>1 DEF SnapshotsOf
<1>8. \A t : OneASecond(t)' <=> OneASecond(t)  BY <1>7 DEF OneASecond
<1>9. Matched' = Matched /\ \A t : Begun(t)' <=> Begun(t)  BY <1>1 DEF Matched, Begun
<1>10. BillingTypeOK'
  <2>1. None \notin 0..MaxTime  BY SubAssumption, LimitAssumption
  <2>2. says \in DOMAIN FromStripe  BY <1>5, <1>6 DEF SnapshotsOf
  <2>3. since' \in 0..MaxTime \cup {None} /\ (since' # None <=> status' = "past_due")
    BY <1>1, <1>3, <2>1 DEF PastDueSince, BillingInv, BillingTypeOK
  <2>4. \A d \in Check : check'[d].pc \in {"idle", "asking", "answered", "settled"}
    BY <1>2 DEF BillingInv, BillingTypeOK
  <2> QED  BY <1>1, <1>3, <2>2, <2>3, <2>4 DEF BillingInv, BillingTypeOK
<1>11. EventsAreInOrder'  BY <1>1, <1>9 DEF EventsAreInOrder, Begun, BillingInv
<1>12. LatestOnlyGrows'
  BY <1>1, <1>3, <1>6, <1>9 DEF LatestOnlyGrows, Matched, BillingInv, BillingTypeOK
<1>13. LastSnapshotIsTrue'
  <2> SUFFICES ASSUME NEW t \in Sub, Begun(t)
               PROVE  \E h \in SnapshotsOf(t) : h.says = theirs[t] /\ IsLastBefore(h, t, clock + 1)'
    BY <1>1, <1>7, <1>9 DEF LastSnapshotIsTrue
  <2>1. PICK h \in SnapshotsOf(t) : h.says = theirs[t] /\ IsLastBefore(h, t, clock + 1)
    BY DEF LastSnapshotIsTrue, BillingInv
  <2>2. IsLastBefore(h, t, clock + 1)'  BY <1>1, <1>7, <1>8, <2>1 DEF IsLastBefore
  <2> QED  BY <2>1, <2>2
<1>14. AnswersWereTrue'
  <2> SUFFICES ASSUME NEW d \in Check, NEW t, NEW u, t = check'[d].sub, u = check'[d].read
               PROVE  /\ check'[d].pc # "idle" => t \in Sub /\ Begun(t)'
                      /\ check'[d].pc \in {"answered", "settled"} => u \in 0..clock
                      /\ check'[d].pc = "answered" =>
                         /\ \A e \in sent : e.type = "deleted" /\ e.sub = t /\ e.created < u
                                            => check'[d].says = "canceled"
                         /\ \E h \in SnapshotsOf(t) : h.says = check'[d].says /\ IsLastBefore(h, t, u)'
                      /\ check'[d].pc = "settled" => check'[d].stamp \in u..clock
    BY <1>1, <1>7 DEF AnswersWereTrue, IsLastBefore, Begun
  <2>1. CASE d = c  BY <1>2, <1>3, <1>9, <2>1
  <2>2. CASE d # c
    <3>1. t = check[d].sub /\ u = check[d].read /\ check'[d] = check[d]  BY <1>2, <2>2
    <3>2. ASSUME check[d].pc = "answered"
          PROVE  \E h \in SnapshotsOf(t) : h.says = check[d].says /\ IsLastBefore(h, t, u)'
      <4>1. PICK h \in SnapshotsOf(t) : h.says = check[d].says /\ IsLastBefore(h, t, u)
        BY <3>1, <3>2 DEF AnswersWereTrue, BillingInv
      <4>2. IsLastBefore(h, t, u)'  BY <1>7, <1>8, <4>1 DEF IsLastBefore
      <4> QED  BY <4>1, <4>2
    <3> QED  BY <1>9, <3>1, <3>2 DEF AnswersWereTrue, BillingInv
  <2> QED  BY <2>1, <2>2
\* Had s changed since r, the answer would have been overtaken.
<1>15. NotOvertaken(s)' => \A f \in SnapshotsOf(s) : f.created < r
  <2>1. c \in Settled'  BY <1>2 DEF Settled
  <2>2. \A f \in SnapshotsOf(s) : ~(f.created > clock)  BY <1>3, <1>6 DEF SnapshotsOf
  <2> QED  BY <1>2, <1>7, <2>1, <2>2 DEF NotOvertaken
<1>16. EndsAreKnown'
  <2> SUFFICES ASSUME NotOvertaken(s)', NEW e \in sent, e.type = "deleted", e.sub = s
               PROVE  status' = "cancelled"
    BY <1>1 DEF EndsAreKnown
  <2>1. e.created < r  BY <1>15 DEF SnapshotsOf, Snapshot
  <2> QED  BY <1>1, <1>4, <2>1 DEF FromStripe
<1>17. StatusIsOfLatest'
  <2> SUFFICES ASSUME NotOvertaken(s)', OneASecond(s)
               PROVE  RowSays(g, s)'
    BY <1>1, <1>7, <1>8 DEF StatusIsOfLatest
  <2>1. \A f \in SnapshotsOf(s) : f # g =>
            f.created < g.created \/ (f.created = g.created /\ g.type = "deleted")
    BY <1>5, <1>15 DEF IsLastBefore
  <2>2. g.created =< clock  BY <1>6 DEF SnapshotsOf
  <2>3. c \in Settled'  BY <1>2 DEF Settled
  <2> QED  BY <1>1, <1>2, <1>5, <1>7, <1>9, <2>1, <2>2, <2>3 DEF RowSays
<1> QED  BY <1>2, <1>10, <1>11, <1>12, <1>13, <1>14, <1>16, <1>17 DEF BillingInv

-----------------------------------------------------------------------------
\* A second passes; the practice asks to be deleted; nothing happens.
LEMMA RestKeeps ==
    ASSUME BillingInv, Tick \/ RequestDeletion \/ UNCHANGED billingVars
    PROVE  BillingInv'
<1>1. /\ theirs' = theirs /\ customerOf' = customerOf /\ sent' = sent
      /\ recorded' = recorded /\ unmatched' = unmatched /\ check' = check
      /\ status' = status /\ since' = since /\ customer' = customer
      /\ subscription' = subscription /\ latest' = latest
      /\ clock' \in {clock, clock + 1} /\ clock' \in 0..MaxTime
      /\ lifecycle' \in {"active", "deletion_requested"}
  <2>1. CASE Tick
    BY <2>1, LimitAssumption DEF Tick, stripe, ledger, billing, BillingInv, BillingTypeOK
  <2>2. CASE RequestDeletion
    BY <2>2 DEF RequestDeletion, stripe, ledger, billing, BillingInv, BillingTypeOK
  <2>3. CASE UNCHANGED billingVars
    BY <2>3 DEF billingVars, stripe, ledger, billing, BillingInv, BillingTypeOK
  <2> QED  BY <2>1, <2>2, <2>3
<1>2. clock \in 0..MaxTime /\ latest \in Int /\ clock =< clock' /\ MaxTime \in Nat
      /\ \A f \in sent : f.created \in Int /\ f.created =< clock
  BY <1>1, LimitAssumption DEF BillingInv, BillingTypeOK, EventsAreInOrder, Event
<1>3. \A s : SnapshotsOf(s)' = SnapshotsOf(s)  BY <1>1 DEF SnapshotsOf
<1>4. \A s : OneASecond(s)' <=> OneASecond(s)  BY <1>3 DEF OneASecond
<1>5. Settled' = Settled  BY <1>1 DEF Settled
<1>6. \A s : NotOvertaken(s)' <=> NotOvertaken(s)  BY <1>1, <1>3, <1>5 DEF NotOvertaken
<1>7. Matched' = Matched /\ \A s : Begun(s)' <=> Begun(s)  BY <1>1 DEF Matched, Begun
<1>8. BillingTypeOK'  BY <1>1 DEF BillingInv, BillingTypeOK
<1>9. AreRecords'  BY <1>1 DEF BillingInv, AreRecords, NoCheck
<1>10. EventsAreInOrder'  BY <1>1, <1>2, <1>7 DEF EventsAreInOrder, Begun, BillingInv
<1>11. LatestOnlyGrows'  BY <1>1, <1>2, <1>7 DEF LatestOnlyGrows, BillingInv
<1>12. LastSnapshotIsTrue'
  <2> SUFFICES ASSUME NEW s \in Sub, Begun(s)
               PROVE  \E g \in SnapshotsOf(s) : g.says = theirs[s] /\ IsLastBefore(g, s, clock + 1)'
    BY <1>1, <1>3, <1>7 DEF LastSnapshotIsTrue
  <2>1. PICK g \in SnapshotsOf(s) : g.says = theirs[s] /\ IsLastBefore(g, s, clock + 1)
    BY DEF LastSnapshotIsTrue, BillingInv
  <2>2. \A f \in SnapshotsOf(s) : f.created < clock + 1  BY <1>2 DEF SnapshotsOf
  <2>3. IsLastBefore(g, s, clock + 1)'  BY <1>3, <1>4, <2>1, <2>2 DEF IsLastBefore
  <2> QED  BY <2>1, <2>3
<1>13. AnswersWereTrue'
  <2>1. ASSUME NEW c \in Check, check[c].pc = "answered"
        PROVE  \E g \in SnapshotsOf(check[c].sub)' :
                   g.says = check[c].says /\ IsLastBefore(g, check[c].sub, check[c].read)'
    <3>1. PICK g \in SnapshotsOf(check[c].sub) :
              g.says = check[c].says /\ IsLastBefore(g, check[c].sub, check[c].read)
      BY <2>1 DEF AnswersWereTrue, BillingInv
    <3>2. IsLastBefore(g, check[c].sub, check[c].read)'
      BY <1>1, <1>3, <1>4, <3>1 DEF IsLastBefore
    <3>3. SnapshotsOf(check[c].sub)' = SnapshotsOf(check[c].sub)  BY <1>1 DEF SnapshotsOf
    <3> QED  BY <3>1, <3>2, <3>3
  <2>2. \A r \in 0..clock : r \in 0..clock' /\ \A m \in r..clock : m \in r..clock'
    BY <1>1, <1>2
  <2> QED  BY <1>1, <1>7, <2>1, <2>2 DEF AnswersWereTrue, BillingInv, Begun
<1>14. EndsAreKnown'  BY <1>1, <1>6, <1>7 DEF EndsAreKnown, BillingInv
<1>15. StatusIsOfLatest'
  <2> PICK s : s = subscription  OBVIOUS
  <2>1. NothingYet(s) => NothingYet(s)'  BY <1>1, <1>3, <1>7 DEF NothingYet
  <2>2. \A g : RowSays(g, s) => RowSays(g, s)'  BY <1>1, <1>3, <1>5, <1>7 DEF RowSays
  <2>3. NotOvertaken(s)' /\ OneASecond(s)' => NotOvertaken(s) /\ OneASecond(s)  BY <1>4, <1>6
  <2> QED  BY <1>1, <1>3, <2>1, <2>2, <2>3 DEF StatusIsOfLatest, BillingInv
<1> QED
  BY <1>8, <1>9, <1>10, <1>11, <1>12, <1>13, <1>14, <1>15 DEF BillingInv

LEMMA InitiallySound == BillingInit => BillingInv
<1> SUFFICES ASSUME BillingInit PROVE BillingInv  OBVIOUS
<1>1. /\ clock = 0 /\ theirs = [s \in Sub |-> "none"] /\ customerOf = [s \in Sub |-> None]
      /\ sent = {} /\ recorded = {} /\ unmatched = {}
      /\ status = "pending_payment" /\ since = None /\ customer = None /\ subscription = None
      /\ latest = 0 /\ lifecycle = "active" /\ check = [c \in Check |-> NoCheck]
      /\ MaxTime \in Nat
  BY LimitAssumption DEF BillingInit
<1>2. BillingTypeOK  BY <1>1 DEF BillingTypeOK, FromStripe, NoCheck
<1>3. AreRecords  BY <1>1 DEF AreRecords, NoCheck
<1>4. EventsAreInOrder /\ LastSnapshotIsTrue
  BY <1>1 DEF EventsAreInOrder, LastSnapshotIsTrue, Begun
<1>5. AnswersWereTrue  BY <1>1 DEF AnswersWereTrue, NoCheck
<1>6. LatestOnlyGrows /\ EndsAreKnown /\ StatusIsOfLatest
  BY <1>1 DEF LatestOnlyGrows, EndsAreKnown, StatusIsOfLatest, Matched
<1> QED  BY <1>2, <1>3, <1>4, <1>5, <1>6 DEF BillingInv

LEMMA StepsKeepTheInvariant == BillingInv /\ [BillingNext]_billingVars => BillingInv'
<1> SUFFICES ASSUME BillingInv, [BillingNext]_billingVars PROVE BillingInv'  OBVIOUS
<1>1. CASE Tick \/ RequestDeletion \/ UNCHANGED billingVars  BY <1>1, RestKeeps
<1>2. ASSUME NEW s \in Sub, Checkout(s) \/ Renew(s) \/ Change(s) \/ End(s) PROVE BillingInv'
  <2>1. PICK new, now : Says(s, new, now)  BY <1>2, StripeOnlySays DEF BillingInv
  <2> QED  BY <2>1, SayingKeepsTheInvariant
<1>3. ASSUME NEW e \in sent, Unmatched(e) \/ Outdated(e) \/ Apply(e) \/ Bind(e) \/ Observe(e)
      PROVE  BillingInv'
  BY <1>3, UnmatchedKeeps, OutdatedKeeps, ApplyKeeps, BindKeeps, ObserveKeeps
<1>4. ASSUME NEW c \in Check, StripeAnswers(c) \/ Settle(c) \/ GiveUp(c) PROVE BillingInv'
  BY <1>4, StripeAnswersKeeps, SettleKeeps, GiveUpKeeps
<1>5. ASSUME NEW c \in Check, NEW s \in Sub, AskStripe(c, s) PROVE BillingInv'
  BY <1>5, AskStripeKeeps
<1> QED  BY <1>1, <1>2, <1>3, <1>4, <1>5 DEF BillingNext

\* The row of a practice always follows from what Stripe sent, taken in so far
\* in whatever order, and from what operators filed.
THEOREM BillingInvariant == BillingSpec => []BillingInv
<1> QED  BY InitiallySound, StepsKeepTheInvariant, PTL DEF BillingSpec

LEMMA TakenInIsConverged == BillingInv => Converged
<1> SUFFICES ASSUME BillingInv, NEW s \in Sub, subscription = s,
                    SnapshotsOf(s) \subseteq recorded \ unmatched,
                    OneASecond(s), NotOvertaken(s)
             PROVE  status = FromStripe[theirs[s]]
  BY DEF Converged
<1>1. s # None /\ Begun(s)  BY SubAssumption DEF LatestOnlyGrows, BillingInv
<1>2. PICK g \in SnapshotsOf(s) : g.says = theirs[s] /\ IsLastBefore(g, s, clock + 1)
  BY <1>1 DEF LastSnapshotIsTrue, BillingInv
<1>3. SnapshotsOf(s) \subseteq Matched  BY DEF Matched
<1>4. ~NothingYet(s)  BY <1>2, <1>3 DEF NothingYet
<1>5. PICK h \in SnapshotsOf(s) : RowSays(h, s)
  BY <1>1, <1>4 DEF StatusIsOfLatest, BillingInv
<1>6. \A f \in SnapshotsOf(s) :
          /\ f.created \in Int /\ f.created < clock + 1 /\ f.created =< latest
          /\ f.type = "deleted" => f.says = "canceled"
  BY <1>3 DEF SnapshotsOf, BillingInv, BillingTypeOK, EventsAreInOrder, LatestOnlyGrows, Event
<1>7. CASE h # g
  <2>1. h.created < g.created \/ (h.created = g.created /\ g.type = "deleted")
    BY <1>2, <1>6, <1>7 DEF IsLastBefore
  <2>2. g.created < h.created \/ (g.created = h.created /\ (h.type = "deleted" \/ g \notin Matched))
    BY <1>5, <1>6, <1>7 DEF RowSays
  <2>3. g.type = "deleted" /\ h.type = "deleted"  BY <1>3, <1>6, <2>1, <2>2
  <2>4. g.says = h.says  BY <1>6, <2>3
  <2> QED  BY <1>2, <1>5, <2>4 DEF RowSays
<1> QED  BY <1>2, <1>5, <1>7 DEF RowSays

\* In whatever order and however often events come, and whatever operators file
\* meanwhile: a practice of which all is in has the status Stripe says it has.
THEOREM RowsConverge == BillingSpec => []Converged
<1> QED  BY BillingInvariant, TakenInIsConverged, PTL

LEMMA KnownEndsCloseThePractice == BillingInv => EndedStaysEnded
<1> SUFFICES ASSUME BillingInv, NEW e \in recorded \ unmatched,
                    e.type = "deleted", e.sub = subscription, NotOvertaken(e.sub)
             PROVE  status = "cancelled" /\ ~Access
  BY DEF EndedStaysEnded
<1>1. e \in sent /\ e \in Matched /\ e.sub \in Sub  BY DEF Matched, BillingInv, BillingTypeOK, Event
<1>2. subscription # None  BY <1>1, SubAssumption
<1>3. status = "cancelled"  BY <1>1, <1>2 DEF EndsAreKnown, BillingInv
<1> QED  BY <1>3 DEF Access

\* No event, late or of the same second, opens a practice whose end is in.
THEOREM EndedSubscriptionsStayEnded == BillingSpec => []EndedStaysEnded
<1> QED  BY BillingInvariant, KnownEndsCloseThePractice, PTL

-----------------------------------------------------------------------------
(* The addresses of practices: HostedSignup.                                   *)

Practices == [id : Id, slug : Slug, owner : Applicant, by : {"form", "tool"},
              paid : BOOLEAN, life : {"active", "going"}]
EverTaken     == Taking \cup retired

SignupTypes ==
  /\ accounts \subseteq Applicant
  /\ tenants \subseteq Practices
  /\ hosts \in [Slug -> Id \cup {Nobody}] /\ first \in [Slug -> Id \cup {Nobody}]
  /\ retired \subseteq Slug /\ reaping \subseteq Id
  /\ folder \in [Id -> {"none", "directory", "practice", "practitioner"}]
  /\ made \in 0 .. MaxTenants /\ stops \in 0 .. MaxStops
  /\ form \in [SignupForm -> {NoForm} \cup [at : {"hashing"}, email : Applicant, slug : Slug]]

\* The rows: one practice of an id, one of a slug, none from the future; one that
\* was asked to go has left its slug behind, one that was not has its owner in its
\* file.
Rows ==
  /\ \A t \in tenants : t.id <= made
  /\ \A t, u \in tenants : t.id = u.id \/ t.slug = u.slug => t = u
  /\ \A t \in tenants : t.life = "going" => t.slug \in retired
  /\ \A t \in tenants : t.life = "active" => folder[t.id] = "practitioner"

\* The addresses: known is what had a practice, no two had the same one first, and a
\* host leads to the practice that has its slug, or to one an operator made.
AddressRows ==
  /\ \A t \in tenants : t.by = "form" => first[t.slug] = t.id
  /\ \A s \in Slug : first[s] # Nobody <=> s \in EverTaken
  /\ \A s \in Slug : first[s] <= made
  /\ \A r, s \in Slug : first[r] = first[s] /\ first[s] # Nobody => r = s
  /\ \A s \in Slug : hosts[s] # Nobody =>
       \E t \in tenants : t.id = hosts[s] /\ (t.slug = s \/ t.by = "tool")

\* What a waiting form chose is taken by now, or nobody ever had it.
FreshChoice(s) == s \in Taking \/ first[s] = Nobody
FormChoices == \A f \in SignupForm : form[f] # NoForm => FreshChoice(form[f].slug)

SignupInv == SignupTypes /\ Rows /\ AddressRows /\ FormChoices

\* An address that is not known is left for every name: there is one more number
\* than practices, and no two of those that are known had the same one first.
LEMMA AnAddressIsFree ==
  ASSUME SignupInv, NEW name \in Name
  PROVE  \E k \in 1 .. MaxTenants + 1 : <<name, k>> \notin EverTaken
<1> DEFINE numbers == 1 .. MaxTenants + 1
           who == [k \in numbers |-> first[<<name, k>>]]
<1>1. MaxTenants \in Nat  BY SignupBounds
<1>2. SUFFICES ASSUME \A k \in numbers : <<name, k>> \in EverTaken PROVE FALSE
  OBVIOUS
<1>3. \A k \in numbers : <<name, k>> \in Slug  BY DEF Slug
<1>4. \A k \in numbers : who[k] \in Id
  BY <1>2, <1>3 DEF SignupInv, SignupTypes, AddressRows
<1>5. who \in [numbers -> Id]  BY <1>4
<1>6. /\ IsFiniteSet(numbers) /\ Cardinality(numbers) = MaxTenants + 1
      /\ IsFiniteSet(Id) /\ Cardinality(Id) = MaxTenants
  BY <1>1, FS_Interval DEF Id
<1>7. Cardinality(Id) < Cardinality(numbers)  BY <1>1, <1>6
<1>8. PICK j, k \in numbers : j # k /\ who[j] = who[k]
  <2> HIDE DEF numbers, who
  <2> QED  BY <1>5, <1>6, <1>7, FS_PigeonHole
<1>9. first[<<name, j>>] = first[<<name, k>>] /\ first[<<name, k>>] # Nobody
  BY <1>2, <1>3, <1>8 DEF SignupInv, AddressRows
<1>10. <<name, j>> = <<name, k>>
  BY <1>3, <1>9 DEF SignupInv, AddressRows
<1> QED  BY <1>8, <1>10

\* uniqueSlug returns an address of the name that no practice has or had.
LEMMA UniqueSlugIsFresh ==
  ASSUME SignupInv, NEW name \in Name
  PROVE  uniqueSlug(name) \in Slug /\ uniqueSlug(name) \notin EverTaken
<1> DEFINE free == {k \in 1 .. MaxTenants + 1 : <<name, k>> \notin EverTaken}
<1>1. free # {} /\ free \subseteq Nat  BY AnAddressIsFree, SignupBounds
<1>2. PICK k \in free : \A j \in free : ~ (<<j, k>> \in OpToRel(<, Nat))
  <2> HIDE DEF free
  <2> QED  BY <1>1, NatLessThanWellFounded, WFMin
<1>3. \A j \in free : ~ (j < k)
  <2> SUFFICES ASSUME NEW j \in free, j < k PROVE FALSE  OBVIOUS
  <2>1. j \in Nat /\ k \in Nat  BY <1>1
  <2>2. <<j, k>> \in OpToRel(<, Nat)  BY <2>1 DEF OpToRel
  <2> QED  BY <1>2, <2>2
<1>4. k \in 1 .. MaxTenants + 1 /\ <<name, k>> \notin EverTaken  OBVIOUS
<1>5. \A j \in 1 .. k - 1 : <<name, j>> \in EverTaken
  <2> SUFFICES ASSUME NEW j \in 1 .. k - 1 PROVE <<name, j>> \in EverTaken  OBVIOUS
  <2>1. j \in 1 .. MaxTenants + 1 /\ j < k  BY <1>4, SignupBounds
  <2> QED  BY <1>3, <2>1
<1>6. \E s \in Slug : /\ s[1] = name /\ s \notin Taking \cup retired
                      /\ \A j \in 1 .. s[2] - 1 : <<name, j>> \in Taking \cup retired
  <2>1. <<name, k>> \in Slug /\ <<name, k>>[1] = name /\ <<name, k>>[2] = k
    BY <1>4 DEF Slug
  <2> QED  BY <1>4, <1>5, <2>1 DEF EverTaken
<1> QED  BY <1>6 DEF uniqueSlug, EverTaken

FormValues == {NoForm} \cup [at : {"hashing"}, email : Applicant, slug : Slug]

\* A choice stays good while no practice goes and no address gets its first but to a
\* practice that has it.
LEMMA ChoicesStay ==
  ASSUME SignupInv,
         \A s \in Slug : s \in Taking => s \in Taking',
         \A s \in Slug : first'[s] # first[s] => s \in Taking',
         form' \in [SignupForm -> FormValues],
         \A f \in SignupForm : form'[f] # NoForm => form'[f] = form[f]
  PROVE  FormChoices'
<1> SUFFICES ASSUME NEW f \in SignupForm, form'[f] # NoForm
             PROVE  form'[f].slug \in Taking' \/ first'[form'[f].slug] = Nobody
  BY DEF FormChoices, FreshChoice, Nobody
<1>1. form'[f] = form[f] /\ form[f] # NoForm  OBVIOUS
<1>2. form[f].slug \in Slug  BY <1>1 DEF SignupInv, SignupTypes
<1>3. form[f].slug \in Taking \/ first[form[f].slug] = Nobody
  BY <1>1 DEF SignupInv, FormChoices, FreshChoice
<1> QED  BY <1>1, <1>2, <1>3

LEMMA NoHostIsNoSlug == \A s \in Slug : s # NoHost
<1> SUFFICES ASSUME NEW s \in Slug PROVE s # NoHost  OBVIOUS
<1>1. PICK name \in Name, k \in 1 .. MaxTenants + 1 : s = <<name, k>>  BY DEF Slug
<1> QED  BY <1>1 DEF NoHost

\* Whatever part of the sign-up's writes is made.
LEMMA LeavesKeeps ==
  ASSUME SignupInv, NEW q, NEW n \in 1 .. 6,
         q.email \in Applicant, q.slug \in Slug, q.by \in {"form", "tool"},
         q.paid \in BOOLEAN, q.by = "form" => q.host = q.slug,
         made < MaxTenants, n >= 5 => q.slug \notin Taking,
         n >= 5 /\ q.by = "form" => first[q.slug] = Nobody,
         Leaves(q, n), retired' = retired, reaping' = reaping, stops' \in 0 .. MaxStops,
         form' \in [SignupForm -> FormValues],
         \A f \in SignupForm : form'[f] # NoForm => form'[f] = form[f]
  PROVE  SignupInv'
<1>1. PICK id \in Id : id = made + 1  BY SignupBounds DEF SignupInv, SignupTypes, Id
<1>2. PICK e \in Applicant, s \in Slug, by \in {"form", "tool"} :
        e = q.email /\ s = q.slug /\ by = q.by
  OBVIOUS
<1>3. PICK t : t = [id |-> id, slug |-> s, owner |-> e, by |-> by, paid |-> q.paid, life |-> "active"]
  OBVIOUS
<1>4. t \in Practices /\ t.id = id /\ t.slug = s /\ t.by = by /\ t.life = "active"
  BY <1>3 DEF Practices
<1>5. PICK stage \in {"account", "directory", "practice", "practitioner"} :
        /\ stage = Stages[IF n > 4 THEN 4 ELSE n]
        /\ n > 4 => stage = "practitioner"
  <2>1. n \in {1, 2, 3, 4, 5, 6}  OBVIOUS
  <2> QED  BY <2>1 DEF Stages
<1>13. PICK host :
         /\ host = IF n = 6 THEN q.host ELSE NoHost
         /\ n < 5 => host = NoHost
         /\ by = "form" => host \in {s, NoHost}
  BY <1>2
<1>6. /\ accounts' = accounts \cup {e}
      /\ made' = IF n >= 2 THEN id ELSE made
      /\ folder' = IF n >= 2 THEN [folder EXCEPT ![id] = stage] ELSE folder
      /\ tenants' = IF n < 5 THEN tenants ELSE tenants \cup {t}
      /\ hosts' = [r \in Slug |-> IF r = host THEN id ELSE hosts[r]]
      /\ first' = IF n >= 5 /\ first[s] = Nobody THEN [first EXCEPT ![s] = id] ELSE first
  BY <1>1, <1>2, <1>3, <1>5, <1>13 DEF Leaves, MapHost
<1>7. n >= 2 => stage \in {"directory", "practice", "practitioner"}
  <2>1. n \in {1, 2, 3, 4, 5, 6}  OBVIOUS
  <2> QED  BY <1>5, <2>1 DEF Stages
<1>8. SignupTypes'
  <2>1. accounts' \subseteq Applicant /\ tenants' \subseteq Practices
    BY <1>4, <1>6 DEF SignupInv, SignupTypes
  <2>2. hosts' \in [Slug -> Id \cup {Nobody}] /\ first' \in [Slug -> Id \cup {Nobody}]
    BY <1>6 DEF SignupInv, SignupTypes
  <2>3. folder' \in [Id -> {"none", "directory", "practice", "practitioner"}]
    BY <1>6, <1>7 DEF SignupInv, SignupTypes
  <2>4. made' \in 0 .. MaxTenants
    BY <1>1, <1>6, SignupBounds DEF SignupInv, SignupTypes
  <2> QED  BY <2>1, <2>2, <2>3, <2>4 DEF SignupInv, SignupTypes, FormValues
<1>9. /\ \A u \in tenants : u.id \in Id /\ u.id <= made /\ u.id # id /\ u.slug \in Slug
      /\ made \in Nat /\ made <= made'
  BY <1>1, <1>6 DEF SignupInv, SignupTypes, Rows, Practices, Id
<1>10. \A u \in tenants : folder'[u.id] = folder[u.id]
  BY <1>6, <1>9 DEF SignupInv, SignupTypes
<1>11. CASE n < 5
  <2>1. tenants' = tenants /\ first' = first /\ \A r \in Slug : hosts'[r] = hosts[r]
    BY <1>6, <1>11, <1>13, NoHostIsNoSlug
  <2>2. Taking' = Taking /\ EverTaken' = EverTaken  BY <2>1 DEF Taking, EverTaken
  <2>3. Rows'
    <3>1. \A u \in tenants : u.id <= made'
      <4> SUFFICES ASSUME NEW u \in tenants PROVE u.id <= made'  OBVIOUS
      <4>1. u.id \in Nat /\ made' \in Nat /\ u.id <= made  BY <1>8, <1>9 DEF SignupTypes, Id
      <4> QED  BY <1>9, <4>1
    <3> QED  BY <1>10, <2>1, <3>1 DEF SignupInv, Rows
  <2>4. \A r \in Slug : first'[r] <= made'
    <3> SUFFICES ASSUME NEW r \in Slug PROVE first'[r] <= made'  OBVIOUS
    <3>1. first'[r] \in Nat /\ first[r] <= made /\ made' \in Nat
      BY <1>8, <2>1 DEF SignupInv, SignupTypes, AddressRows, Id, Nobody
    <3> QED  BY <1>9, <2>1, <3>1
  <2>5. AddressRows'  BY <2>1, <2>2, <2>4 DEF SignupInv, AddressRows
  <2>6. FormChoices'  BY <2>1, <2>2, ChoicesStay
  <2> QED  BY <1>8, <2>3, <2>5, <2>6 DEF SignupInv
<1>12. CASE n >= 5
  <2>1. /\ tenants' = tenants \cup {t} /\ made' = id
        /\ folder'[id] = "practitioner"
        /\ s \notin Taking /\ (by = "form" => first[s] = Nobody)
    BY <1>2, <1>5, <1>6, <1>12 DEF SignupInv, SignupTypes
  <2>2. Taking' = Taking \cup {s} /\ EverTaken' = EverTaken \cup {s}
    BY <1>4, <2>1 DEF Taking, EverTaken
  <2>3. \A u \in tenants : u.slug # s  BY <2>1 DEF Taking
  <2>4. Rows'
    <3>1. \A u \in tenants' : u.id <= made'
      <4> SUFFICES ASSUME NEW u \in tenants' PROVE u.id <= made'  OBVIOUS
      <4>1. CASE u = t  BY <1>4, <2>1, <4>1 DEF Id
      <4>2. CASE u \in tenants
        <5>1. u.id \in Nat /\ made' \in Nat /\ u.id <= made  BY <1>8, <1>9, <4>2 DEF SignupTypes, Id
        <5> QED  BY <1>9, <5>1
      <4> QED  BY <2>1, <4>1, <4>2
    <3>2. \A u, v \in tenants' : u.id = v.id \/ u.slug = v.slug => u = v
      BY <1>4, <1>9, <2>1, <2>3 DEF SignupInv, Rows
    <3>3. \A u \in tenants' : u.life = "going" => u.slug \in retired'
      BY <1>4, <2>1 DEF SignupInv, Rows
    <3>4. \A u \in tenants' : u.life = "active" => folder'[u.id] = "practitioner"
      BY <1>4, <1>10, <2>1 DEF SignupInv, Rows
    <3> QED  BY <3>1, <3>2, <3>3, <3>4 DEF Rows
  <2>5. /\ \A r \in Slug : r # s => first'[r] = first[r]
        /\ first'[s] = IF first[s] = Nobody THEN id ELSE first[s]
    BY <1>6, <1>12 DEF SignupInv, SignupTypes
  <2>6. \A r \in Slug : first[r] \in Nat /\ first[r] <= made /\ first[r] # id
    BY <1>1 DEF SignupInv, SignupTypes, AddressRows, Id, Nobody
  <2>7. id # Nobody /\ id \in Nat /\ made < id  BY <1>1, <1>9 DEF Id, Nobody
  <2>9. \A r \in Slug : hosts'[r] = IF r = host THEN id ELSE hosts[r]  BY <1>6
  <2>10. AddressRows'
    <3>1. \A u \in tenants' : u.by = "form" => first'[u.slug] = u.id
      BY <1>4, <1>9, <2>1, <2>3, <2>5 DEF SignupInv, AddressRows
    <3>2. \A r \in Slug : first'[r] # Nobody <=> r \in EverTaken'
      BY <2>2, <2>5, <2>7 DEF SignupInv, AddressRows
    <3>3. \A r \in Slug : first'[r] <= made'
      <4> SUFFICES ASSUME NEW r \in Slug PROVE first'[r] <= made'  OBVIOUS
      <4>1. first[r] \in Nat /\ first[r] <= made /\ made \in Nat  BY <1>9, <2>6
      <4>2. first'[r] = first[r] \/ first'[r] = id  BY <2>5
      <4> QED  BY <2>1, <2>7, <4>1, <4>2
    <3>4. \A r, v \in Slug : first'[r] = first'[v] /\ first'[v] # Nobody => r = v
      BY <2>5, <2>6 DEF SignupInv, AddressRows
    <3>5. ASSUME NEW r \in Slug, hosts'[r] # Nobody
          PROVE  \E u \in tenants' : u.id = hosts'[r] /\ (u.slug = r \/ u.by = "tool")
      <4>1. CASE r = host
        <5>1. by = "form" => r = s  BY <1>13, <4>1, NoHostIsNoSlug
        <5>2. t \in tenants' /\ t.id = hosts'[r]  BY <1>4, <2>1, <2>9, <4>1
        <5> QED  BY <1>4, <5>1, <5>2
      <4>2. CASE r # host
        BY <2>1, <2>9, <3>5, <4>2 DEF SignupInv, AddressRows
      <4> QED  BY <4>1, <4>2
    <3> QED  BY <3>1, <3>2, <3>3, <3>4, <3>5 DEF AddressRows
  <2>11. FormChoices'  BY <2>2, <2>5, ChoicesStay
  <2> QED  BY <1>8, <2>4, <2>10, <2>11 DEF SignupInv
<1> QED  BY <1>11, <1>12

\* What a form on its way may be; and every one dropped.
LEMMA FormsDropped ==
  ASSUME AllDropped
  PROVE  /\ form' \in [SignupForm -> FormValues]
         /\ \A f \in SignupForm : form'[f] # NoForm => form'[f] = form[f]
BY DEF AllDropped, FormValues

LEMMA FormDropped ==
  ASSUME SignupInv, NEW f \in SignupForm, form' = [form EXCEPT ![f] = NoForm]
  PROVE  /\ form' \in [SignupForm -> FormValues]
         /\ \A g \in SignupForm : form'[g] # NoForm => form'[g] = form[g]
BY DEF SignupInv, SignupTypes, FormValues

LEMMA FormsStay ==
  ASSUME SignupInv, form' = form
  PROVE  /\ form' \in [SignupForm -> FormValues]
         /\ \A g \in SignupForm : form'[g] # NoForm => form'[g] = form[g]
BY DEF SignupInv, SignupTypes, FormValues

\* What a form asks for has its types, and its address is taken or fresh.
LEMMA AskedIsTyped ==
  ASSUME SignupInv, NEW f \in SignupForm, form[f] # NoForm
  PROVE  /\ Asked(f).email \in Applicant /\ Asked(f).slug \in Slug
         /\ Asked(f).by \in {"form", "tool"} /\ Asked(f).paid \in BOOLEAN
         /\ Asked(f).host = Asked(f).slug
         /\ Asked(f).slug = form[f].slug
         /\ Asked(f).slug \notin Taking => first[Asked(f).slug] = Nobody
<1>1. form[f].email \in Applicant /\ form[f].slug \in Slug
  BY DEF SignupInv, SignupTypes
<1>2. form[f].slug \notin Taking => first[form[f].slug] = Nobody
  BY DEF SignupInv, FormChoices, FreshChoice
<1> QED  BY <1>1, <1>2 DEF Asked

LEMMA DecideKeeps ==
  ASSUME SignupInv, NEW f \in SignupForm, NEW e \in Applicant, NEW name \in Name, Decide(f, e, name)
  PROVE  SignupInv'
<1>1. PICK s : s = uniqueSlug(name)  OBVIOUS
<1>2. s \in Slug /\ s \notin EverTaken  BY <1>1, UniqueSlugIsFresh
<1>3. /\ form' = [form EXCEPT ![f] = [at |-> "hashing", email |-> e, slug |-> s]]
      /\ UNCHANGED <<accounts, tenants, hosts, retired, folder, made, reaping, first, stops>>
  BY <1>1 DEF Decide
<1>4. first[s] = Nobody  BY <1>2 DEF SignupInv, AddressRows
<1>5. SignupTypes' /\ Rows' /\ AddressRows'
  BY <1>2, <1>3 DEF SignupInv, SignupTypes, Rows, AddressRows, EverTaken, Taking
<1>6. FormChoices'
  <2> SUFFICES ASSUME NEW g \in SignupForm, form'[g] # NoForm
               PROVE  form'[g].slug \in Taking' \/ first'[form'[g].slug] = Nobody
    BY DEF FormChoices, FreshChoice, Nobody
  <2>1. CASE g = f
    <3>1. form'[g].slug = s  BY <1>3, <2>1 DEF SignupInv, SignupTypes
    <3> QED  BY <1>3, <1>4, <3>1
  <2>2. CASE g # f
    <3>1. form'[g] = form[g] /\ form[g] # NoForm  BY <1>3, <2>2 DEF SignupInv, SignupTypes
    <3>2. form[g].slug \in Taking \/ first[form[g].slug] = Nobody
      BY <3>1 DEF SignupInv, FormChoices, FreshChoice
    <3>3. Taking' = Taking /\ first' = first  BY <1>3 DEF Taking
    <3> QED  BY <3>1, <3>2, <3>3
  <2> QED  BY <2>1, <2>2
<1> QED  BY <1>5, <1>6 DEF SignupInv

LEMMA SignUpKeeps ==
  ASSUME SignupInv, NEW f \in SignupForm, SignUp(f) PROVE SignupInv'
<1>1. /\ form[f] # NoForm /\ made < MaxTenants /\ form[f].slug \notin Taking
      /\ Leaves(Asked(f), 6) /\ form' = [form EXCEPT ![f] = NoForm]
      /\ retired' = retired /\ reaping' = reaping /\ stops' = stops
  BY DEF SignUp
<1>2. stops' \in 0 .. MaxStops  BY <1>1 DEF SignupInv, SignupTypes
<1>3. /\ form' \in [SignupForm -> FormValues]
      /\ \A g \in SignupForm : form'[g] # NoForm => form'[g] = form[g]
  BY <1>1, FormDropped
<1> QED  BY <1>1, <1>2, <1>3, AskedIsTyped, LeavesKeeps

LEMMA SlugTakenKeeps ==
  ASSUME SignupInv, NEW f \in SignupForm, SlugTaken(f) PROVE SignupInv'
<1>1. /\ form[f] # NoForm /\ made < MaxTenants
      /\ Leaves(Asked(f), 4) /\ AllDropped
      /\ retired' = retired /\ reaping' = reaping /\ stops' = stops
  BY DEF SlugTaken
<1>2. stops' \in 0 .. MaxStops  BY <1>1 DEF SignupInv, SignupTypes
<1> QED  BY <1>1, <1>2, AskedIsTyped, FormsDropped, LeavesKeeps

LEMMA StoppedKeeps ==
  ASSUME SignupInv, NEW f \in SignupForm, Stopped(f) PROVE SignupInv'
<1>1. /\ form[f] # NoForm /\ made < MaxTenants /\ stops < MaxStops /\ stops' = stops + 1
      /\ AllDropped /\ retired' = retired /\ reaping' = reaping
  BY DEF Stopped
<1>2. PICK n \in 1 .. 5 : (n = 5 => form[f].slug \notin Taking) /\ Leaves(Asked(f), n)
  BY DEF Stopped
<1>3. stops' \in 0 .. MaxStops  BY <1>1, SignupBounds DEF SignupInv, SignupTypes
<1>4. n \in 1 .. 6 /\ (n >= 5 => n = 5)  OBVIOUS
<1> QED  BY <1>1, <1>2, <1>3, <1>4, AskedIsTyped, FormsDropped, LeavesKeeps

LEMMA ProvisionKeeps ==
  ASSUME SignupInv, NEW e \in Applicant, NEW s \in Slug, Provision(e, s) PROVE SignupInv'
<1>1. /\ made < MaxTenants /\ retired' = retired /\ form' = form /\ reaping' = reaping
  BY DEF Provision
<1>2. PICK host \in Slug \cup {NoHost}, activate \in BOOLEAN, n \in 1 .. 6 :
        /\ Leaves([email |-> e, slug |-> s, by |-> "tool", paid |-> activate, host |-> host], n)
        /\ n >= 5 => s \notin Taking
        /\ stops' = stops \/ (stops < MaxStops /\ stops' = stops + 1)
  <2>1. \A n \in 1 .. 5 : n >= 5 => n = 5  OBVIOUS
  <2>2. 4 \in 1 .. 6 /\ 6 \in 1 .. 6 /\ ~(4 >= 5) /\ \A n \in 1 .. 5 : n \in 1 .. 6  OBVIOUS
  <2> QED  BY <2>1, <2>2 DEF Provision
<1>3. stops' \in 0 .. MaxStops  BY <1>2, SignupBounds DEF SignupInv, SignupTypes
<1>4. PICK q : q = [email |-> e, slug |-> s, by |-> "tool", paid |-> activate, host |-> host]
  OBVIOUS
<1>5. /\ q.email \in Applicant /\ q.slug = s /\ q.by = "tool" /\ q.paid \in BOOLEAN
      /\ Leaves(q, n)
  BY <1>2, <1>4
<1> QED  BY <1>1, <1>2, <1>3, <1>5, FormsStay, LeavesKeeps

\* A row becomes another of the same practice: it pays, or it is asked to go.
LEMMA RowChangesKeep ==
  ASSUME SignupInv, NEW t \in tenants, NEW u \in Practices,
         u.id = t.id, u.slug = t.slug, u.by = t.by,
         u.life = "active" => t.life = "active",
         u.life = "going" => u.slug \in retired',
         tenants' = (tenants \ {t}) \cup {u},
         retired' \in {retired, retired \cup {t.slug}},
         reaping' \subseteq Id,
         accounts' = accounts, hosts' = hosts, folder' = folder, made' = made, form' = form,
         first' = first, stops' = stops
  PROVE  SignupInv'
<1>1. t.slug \in Taking /\ t.slug \in Slug  BY DEF Taking, SignupInv, SignupTypes, Practices
<1>2. Taking' = Taking  BY DEF Taking
<1>3. EverTaken' = EverTaken  BY <1>1, <1>2 DEF EverTaken
<1>4. SignupTypes'  BY <1>1 DEF SignupInv, SignupTypes
<1>5. Rows'
  <2>1. \A v \in tenants' : v.id <= made'  BY DEF SignupInv, Rows
  <2>2. \A v, w \in tenants' : v.id = w.id \/ v.slug = w.slug => v = w  BY DEF SignupInv, Rows
  <2>3. \A v \in tenants' : v.life = "going" => v.slug \in retired'  BY DEF SignupInv, Rows
  <2>4. \A v \in tenants' : v.life = "active" => folder'[v.id] = "practitioner"
    BY DEF SignupInv, Rows
  <2> QED  BY <2>1, <2>2, <2>3, <2>4 DEF Rows
<1>6. AddressRows'
  <2>1. \A v \in tenants' : v.by = "form" => first'[v.slug] = v.id  BY DEF SignupInv, AddressRows
  <2>2. \A s \in Slug : hosts'[s] # Nobody =>
          \E v \in tenants' : v.id = hosts'[s] /\ (v.slug = s \/ v.by = "tool")
    BY DEF SignupInv, AddressRows
  <2> QED  BY <1>3, <2>1, <2>2 DEF SignupInv, AddressRows
<1>7. FormChoices'  BY <1>2, FormsStay, ChoicesStay
<1> QED  BY <1>4, <1>5, <1>6, <1>7 DEF SignupInv

LEMMA PaysKeeps ==
  ASSUME SignupInv, NEW t \in tenants, Pays(t) PROVE SignupInv'
<1>1. PICK u \in Practices :
        /\ u = [t EXCEPT !.paid = TRUE]
        /\ u.id = t.id /\ u.slug = t.slug /\ u.by = t.by /\ u.life = t.life
  <2>1. t \in Practices  BY DEF SignupInv, SignupTypes
  <2>2. PICK u : u = [t EXCEPT !.paid = TRUE]  OBVIOUS
  <2>3. u \in Practices  BY <2>1, <2>2 DEF Practices
  <2>4. u.id = t.id /\ u.slug = t.slug /\ u.by = t.by /\ u.life = t.life
    BY <2>1, <2>2 DEF Practices
  <2> QED  BY <2>2, <2>3, <2>4
<1>2. /\ tenants' = (tenants \ {t}) \cup {u}
      /\ UNCHANGED <<accounts, hosts, retired, folder, made, form, reaping, first, stops>>
  BY <1>1 DEF Pays
<1>3. u.life = "going" => u.slug \in retired'  BY <1>1, <1>2 DEF SignupInv, Rows
<1>4. reaping' \subseteq Id  BY <1>2 DEF SignupInv, SignupTypes
<1> QED  BY <1>1, <1>2, <1>3, <1>4, RowChangesKeep

LEMMA ClosesKeeps ==
  ASSUME SignupInv, NEW t \in tenants, t.life = "active", Closes(t), reaping' \subseteq Id
  PROVE  SignupInv'
<1>1. PICK u \in Practices :
        /\ u = [t EXCEPT !.life = "going"]
        /\ u.id = t.id /\ u.slug = t.slug /\ u.by = t.by /\ u.life = "going"
  <2>1. t \in Practices  BY DEF SignupInv, SignupTypes
  <2>2. PICK u : u = [t EXCEPT !.life = "going"]  OBVIOUS
  <2>3. u \in Practices  BY <2>1, <2>2 DEF Practices
  <2>4. u.id = t.id /\ u.slug = t.slug /\ u.by = t.by /\ u.life = "going"
    BY <2>1, <2>2 DEF Practices
  <2> QED  BY <2>2, <2>3, <2>4
<1>2. /\ tenants' = (tenants \ {t}) \cup {u} /\ retired' = retired \cup {t.slug}
      /\ UNCHANGED <<accounts, hosts, folder, made, form, first, stops>>
  BY <1>1 DEF Closes
<1>3. u.slug \in retired'  BY <1>1, <1>2
<1> QED  BY <1>1, <1>2, <1>3, RowChangesKeep

LEMMA OwnerLeavesKeeps ==
  ASSUME SignupInv, NEW t \in tenants, OwnerLeaves(t) PROVE SignupInv'
<1>1. reaping' \subseteq Id  BY DEF OwnerLeaves, SignupInv, SignupTypes
<1> QED  BY <1>1, ClosesKeeps DEF OwnerLeaves

LEMMA ReapKeeps ==
  ASSUME SignupInv, NEW id \in Id, Reap(id) PROVE SignupInv'
<1>1. reaping' \subseteq Id  BY DEF Reap, SignupInv, SignupTypes
<1>2. PICK t \in tenants : t.life = "active" /\ Closes(t)  BY DEF Reap
<1> QED  BY <1>1, <1>2, ClosesKeeps

\* What the reaper reads, and a form that is refused, change no row.
LEMMA RowsAlone ==
  ASSUME SignupInv, reaping' \subseteq Id,
         form' \in [SignupForm -> FormValues],
         \A f \in SignupForm : form'[f] # NoForm => form'[f] = form[f],
         UNCHANGED <<accounts, tenants, hosts, retired, folder, made, first, stops>>
  PROVE  SignupInv'
<1>1. Taking' = Taking /\ EverTaken' = EverTaken  BY DEF Taking, EverTaken
<1>2. SignupTypes'  BY DEF SignupInv, SignupTypes, FormValues
<1>3. Rows' /\ AddressRows'  BY <1>1 DEF SignupInv, Rows, AddressRows
<1>4. FormChoices'  BY <1>1, ChoicesStay
<1> QED  BY <1>2, <1>3, <1>4 DEF SignupInv

LEMMA EmailTakenKeeps ==
  ASSUME SignupInv, NEW f \in SignupForm, EmailTaken(f) PROVE SignupInv'
<1>1. reaping' \subseteq Id  BY DEF EmailTaken, SignupInv, SignupTypes
<1> QED  BY <1>1, FormsDropped, RowsAlone DEF EmailTaken

LEMMA ReaperKeeps ==
  ASSUME SignupInv, ReaperLists \/ ReaperStops PROVE SignupInv'
<1>1. reaping' \subseteq Id
  <2>1. \A t \in tenants : t.id \in Id  BY DEF SignupInv, SignupTypes, Practices
  <2> QED  BY <2>1 DEF ReaperLists, ReaperStops
<1>2. UNCHANGED <<accounts, tenants, hosts, retired, folder, made, form, first, stops>>
  BY DEF ReaperLists, ReaperStops
<1> QED  BY <1>1, <1>2, FormsStay, RowsAlone

LEMMA EraseKeeps ==
  ASSUME SignupInv, NEW t \in tenants, Erase(t) PROVE SignupInv'
<1>1. /\ t.life = "going" /\ folder' = [folder EXCEPT ![t.id] = "none"]
      /\ UNCHANGED <<accounts, tenants, hosts, retired, made, form, reaping, first, stops>>
  BY DEF Erase
<1>2. Taking' = Taking /\ EverTaken' = EverTaken  BY <1>1 DEF Taking, EverTaken
<1>3. SignupTypes'  BY <1>1 DEF SignupInv, SignupTypes
<1>4. \A u \in tenants : u.life = "active" => folder'[u.id] = "practitioner"
  <2> SUFFICES ASSUME NEW u \in tenants, u.life = "active" PROVE folder'[u.id] = "practitioner"
    OBVIOUS
  <2>1. u.id # t.id  BY <1>1 DEF SignupInv, Rows
  <2>2. u.id \in Id  BY DEF SignupInv, SignupTypes, Practices
  <2>3. folder'[u.id] = folder[u.id]  BY <1>1, <2>1, <2>2 DEF SignupInv, SignupTypes
  <2> QED  BY <2>3 DEF SignupInv, Rows
<1>5. Rows' /\ AddressRows'  BY <1>1, <1>2, <1>4 DEF SignupInv, Rows, AddressRows
<1>6. FormChoices'  BY <1>1, <1>2, FormsStay, ChoicesStay
<1> QED  BY <1>3, <1>5, <1>6 DEF SignupInv

LEMMA PurgeKeeps ==
  ASSUME SignupInv, NEW t \in tenants, Purge(t) PROVE SignupInv'
<1>1. /\ t.life = "going" /\ \A f \in SignupForm : form[f] # NoForm => form[f].slug # t.slug
      /\ tenants' = tenants \ {t}
      /\ hosts' = [s \in Slug |-> IF hosts[s] = t.id THEN Nobody ELSE hosts[s]]
      /\ accounts' \in {accounts, accounts \ {t.owner}}
      /\ UNCHANGED <<retired, folder, made, form, reaping, first, stops>>
  BY DEF Purge
<1>2. t.slug \in retired  BY <1>1 DEF SignupInv, Rows
<1>3. \A s \in Slug : s \in Taking' <=> s \in Taking /\ s # t.slug
  BY <1>1 DEF Taking, SignupInv, Rows
<1>4. \A s \in Slug : s \in EverTaken' <=> s \in EverTaken
  BY <1>1, <1>2, <1>3 DEF EverTaken
<1>5. SignupTypes'
  <2>1. hosts' \in [Slug -> Id \cup {Nobody}]  BY <1>1 DEF SignupInv, SignupTypes
  <2> QED  BY <1>1, <2>1 DEF SignupInv, SignupTypes
<1>6. Rows'  BY <1>1 DEF SignupInv, Rows
<1>7. AddressRows'
  <2>1. \A s \in Slug : hosts'[s] # Nobody =>
          \E u \in tenants' : u.id = hosts'[s] /\ (u.slug = s \/ u.by = "tool")
    <3> SUFFICES ASSUME NEW s \in Slug, hosts'[s] # Nobody
                 PROVE  \E u \in tenants' : u.id = hosts'[s] /\ (u.slug = s \/ u.by = "tool")
      OBVIOUS
    <3>1. hosts'[s] = hosts[s] /\ hosts[s] # t.id  BY <1>1
    <3>2. PICK u \in tenants : u.id = hosts[s] /\ (u.slug = s \/ u.by = "tool")
      BY <3>1 DEF SignupInv, AddressRows
    <3> QED  BY <1>1, <3>1, <3>2
  <2> QED  BY <1>1, <1>4, <2>1 DEF SignupInv, AddressRows
<1>8. FormChoices'
  <2> SUFFICES ASSUME NEW f \in SignupForm, form[f] # NoForm
               PROVE  form[f].slug \in Taking' \/ first[form[f].slug] = Nobody
    BY <1>1 DEF FormChoices, FreshChoice, Nobody
  <2>1. form[f].slug # t.slug /\ form[f].slug \in Slug  BY <1>1 DEF SignupInv, SignupTypes
  <2>2. form[f].slug \in Taking \/ first[form[f].slug] = Nobody
    BY DEF SignupInv, FormChoices, FreshChoice
  <2> QED  BY <1>3, <2>1, <2>2
<1> QED  BY <1>5, <1>6, <1>7, <1>8 DEF SignupInv

LEMMA SignupStart == SignupInit => SignupInv
<1> SUFFICES ASSUME SignupInit PROVE SignupInv  OBVIOUS
<1>1. SignupTypes  BY SignupBounds DEF SignupInit, SignupTypes, NoForm, Nobody
<1>2. Taking = {} /\ EverTaken = {}  BY DEF SignupInit, Taking, EverTaken
<1>3. Rows /\ AddressRows  BY <1>2 DEF SignupInit, Rows, AddressRows, Nobody
<1>4. FormChoices  BY DEF SignupInit, FormChoices
<1> QED  BY <1>1, <1>3, <1>4 DEF SignupInv

LEMMA SignupStep == SignupInv /\ [SignupNext]_signupVars => SignupInv'
<1> SUFFICES ASSUME SignupInv, [SignupNext]_signupVars PROVE SignupInv'  OBVIOUS
<1>1. CASE UNCHANGED signupVars
  <2>1. reaping' \subseteq Id  BY <1>1 DEF signupVars, SignupInv, SignupTypes
  <2> QED  BY <1>1, <2>1, FormsStay, RowsAlone DEF signupVars
<1>2. CASE SignupNext
  <2>1. ASSUME NEW f \in SignupForm, NEW e \in Applicant, NEW name \in Name, Decide(f, e, name)
        PROVE  SignupInv'
    BY <2>1, DecideKeeps
  <2>2. ASSUME NEW f \in SignupForm, SignUp(f) \/ SlugTaken(f) \/ EmailTaken(f) \/ Stopped(f)
        PROVE  SignupInv'
    BY <2>2, SignUpKeeps, SlugTakenKeeps, EmailTakenKeeps, StoppedKeeps
  <2>3. ASSUME NEW e \in Applicant, NEW s \in Slug, Provision(e, s) PROVE SignupInv'
    BY <2>3, ProvisionKeeps
  <2>4. ASSUME NEW t \in tenants, Pays(t) \/ OwnerLeaves(t) \/ Erase(t) \/ Purge(t)
        PROVE  SignupInv'
    BY <2>4, PaysKeeps, OwnerLeavesKeeps, EraseKeeps, PurgeKeeps
  <2>5. CASE ReaperLists \/ ReaperStops  BY <2>5, ReaperKeeps
  <2>6. ASSUME NEW id \in Id, Reap(id) PROVE SignupInv'  BY <2>6, ReapKeeps
  <2> QED  BY <1>2, <2>1, <2>2, <2>3, <2>4, <2>5, <2>6 DEF SignupNext
<1> QED  BY <1>1, <1>2

\* In every state of the sign-up, the reaper, the purge and the tool: the rows agree
\* with the files and the tombstones, every known address had one first practice,
\* no two the same, a host leads to the practice of its slug or to one an operator
\* made, and what a waiting form chose is taken by now or nobody ever had it
\* (uniqueSlug, createTenant, mapHost, completeTenantDeletion).
THEOREM SignupInvariant == SignupSpec => []SignupInv
BY SignupStart, SignupStep, PTL DEF SignupSpec

\* Who signs up gets an address no practice ever had, a host that leads there, nowhere
\* or where an operator pointed it by hand, and is in the file until the practice goes,
\* whatever other forms, the operator and purges do meanwhile (handleSignup, uniqueSlug,
\* mapHost).
THEOREM FreshAddresses == SignupSpec => []SignupsGetFreshAddresses
<1>1. SignupInv => SignupsGetFreshAddresses
  <2> SUFFICES ASSUME SignupInv, NEW t \in tenants, t.by = "form"
               PROVE  /\ first[t.slug] = t.id
                      /\ hosts[t.slug] # Nobody =>
                           \E u \in tenants : u.id = hosts[t.slug] /\ (u = t \/ u.by = "tool")
                      /\ t.life = "active" => folder[t.id] = "practitioner"
    BY DEF SignupsGetFreshAddresses
  <2>1. first[t.slug] = t.id  BY DEF SignupInv, AddressRows
  <2>2. t.slug \in Slug  BY DEF SignupInv, SignupTypes, Practices
  <2>3. hosts[t.slug] # Nobody =>
          \E u \in tenants : u.id = hosts[t.slug] /\ (u.slug = t.slug \/ u.by = "tool")
    BY <2>2 DEF SignupInv, AddressRows
  <2>4. hosts[t.slug] # Nobody =>
          \E u \in tenants : u.id = hosts[t.slug] /\ (u = t \/ u.by = "tool")
    BY <2>3 DEF SignupInv, Rows
  <2> QED  BY <2>1, <2>4 DEF SignupInv, Rows
<1> QED  BY <1>1, SignupInvariant, PTL

-----------------------------------------------------------------------------
(* Which practice answers: TenantServer.                                       *)

\* What a request waits for, as Wait writes it.
RequestsAreKept ==
  req \in [Request -> [at : {"idle", "waiting", "dropped"}, side : {"none", "gateway", "core"},
                       host : Tenant \cup {NoTenant}, link : Tenant \cup {NoTenant},
                       tenant : Tenant \cup {NoTenant}, handle : Int]]

ServerInv == RequestsAreKept /\ handles \in [Tenant -> Int] /\ AnsweredByItsOwn

\* A request that goes to the practice it named, or goes away.
LEMMA RequestMoves ==
  ASSUME ServerInv, NEW r \in Request, handles' \in [Tenant -> Int],
         NEW row \in [at : {"idle", "waiting", "dropped"}, side : {"none", "gateway", "core"},
                      host : Tenant \cup {NoTenant}, link : Tenant \cup {NoTenant},
                      tenant : Tenant \cup {NoTenant}, handle : Int],
         req' = [req EXCEPT ![r] = row],
         row.at = "waiting" /\ row.host # NoTenant => row.tenant \in {row.host, row.link}
  PROVE  ServerInv'
BY DEF ServerInv, RequestsAreKept, AnsweredByItsOwn

LEMMA GetsHandle ==
  ASSUME ServerInv, NEW t \in Tenant, Get(t) PROVE handles' \in [Tenant -> Int]
BY DEF ServerInv, Get

LEMMA Waits ==
  ASSUME ServerInv, NEW r \in Request, NEW a \in Addresses, NEW t \in Tenant,
         NEW side \in {"gateway", "core"}, Get(t), Wait(r, a, t, side),
         a.host # NoTenant => t \in {a.host, a.link}
  PROVE  ServerInv'
<1>1. a.host \in Tenant \cup {NoTenant} /\ a.link \in Tenant \cup {NoTenant}
  BY DEF Addresses, Address
<1>2. handles' \in [Tenant -> Int]  BY GetsHandle
<1>3. PICK row : row = [at |-> "waiting", side |-> side, host |-> a.host, link |-> a.link,
                        tenant |-> t, handle |-> handles'[t]]
  OBVIOUS
<1>4. req' = [req EXCEPT ![r] = row]  BY <1>3 DEF Wait
<1> QED  BY <1>1, <1>2, <1>3, <1>4, RequestMoves

LEMMA ServerStep ==
  ServerInv /\ [ServerNext]_serverVars => ServerInv'
<1> SUFFICES ASSUME ServerInv, [ServerNext]_serverVars PROVE ServerInv'
  OBVIOUS
<1>1. ASSUME NEW r \in Request, NEW a \in Addresses, GatewayPage(r, a) PROVE ServerInv'
  <2>1. a.host \in Tenant \cup {NoTenant} /\ a.slug \in Tenant \cup {NoTenant}
    BY DEF Addresses, Address
  <2>2. Owner(a) \in Tenant /\ (a.host # NoTenant => Owner(a) = a.host)
    BY <1>1, <2>1 DEF GatewayPage, Claimed, Owner
  <2> QED  BY <1>1, <2>2, Waits DEF GatewayPage
<1>2. ASSUME NEW r \in Request, NEW a \in Addresses, CorePage(r, a) PROVE ServerInv'
  <2>1. /\ a.host \in Tenant \cup {NoTenant} /\ a.slug \in Tenant \cup {NoTenant}
        /\ a.link \in Tenant \cup {NoTenant}
    BY DEF Addresses, Address
  <2>2. NamedTenant(a) \in Tenant /\ (a.host # NoTenant => NamedTenant(a) \in {a.host, a.link})
    BY <1>2, <2>1 DEF CorePage, NamedTenant, ByLink
  <2>3. CASE Wait(r, a, NamedTenant(a), "core")  BY <1>2, <2>2, <2>3, Waits DEF CorePage
  <2>4. CASE UNCHANGED req
    <3>1. handles' \in [Tenant -> Int]  BY <1>2, <2>2, GetsHandle DEF CorePage
    <3> QED  BY <2>4, <3>1 DEF ServerInv, RequestsAreKept, AnsweredByItsOwn
  <2> QED  BY <1>2, <2>3, <2>4 DEF CorePage
<1>3. ASSUME NEW r \in Request, Answer(r) \/ Throws(r) \/ Again(r) PROVE ServerInv'
  <2>1. req' = [req EXCEPT ![r] = Unasked] /\ handles' = handles  BY <1>3 DEF Answer, Throws, Again
  <2>2. /\ Unasked \in [at : {"idle", "waiting", "dropped"}, side : {"none", "gateway", "core"},
                         host : Tenant \cup {NoTenant}, link : Tenant \cup {NoTenant},
                         tenant : Tenant \cup {NoTenant}, handle : Int]
        /\ Unasked.at # "waiting"
    BY DEF Unasked
  <2>3. handles' \in [Tenant -> Int]  BY <2>1 DEF ServerInv
  <2> QED  BY <2>1, <2>2, <2>3, RequestMoves
<1>4. ASSUME NEW r \in Request, Dies(r) PROVE ServerInv'
  <2>1. \A q \in Request : /\ req'[q] \in [at : {"idle", "waiting", "dropped"},
                                side : {"none", "gateway", "core"},
                                host : Tenant \cup {NoTenant}, link : Tenant \cup {NoTenant},
                                tenant : Tenant \cup {NoTenant}, handle : Int]
                           /\ req'[q].at # "waiting"
    BY <1>4 DEF Dies, Unasked
  <2>2. RequestsAreKept'  BY <1>4, <2>1 DEF Dies, RequestsAreKept
  <2> QED  BY <1>4, <2>1, <2>2 DEF Dies, ServerInv, AnsweredByItsOwn
<1>5. CASE UNCHANGED <<req, handles>>
  BY <1>5 DEF ServerInv, RequestsAreKept, AnsweredByItsOwn
<1>6. CASE \E t \in Tenant : Stand(t)  BY <1>5, <1>6 DEF Stand
<1>7. CASE UNCHANGED serverVars  BY <1>5, <1>7 DEF serverVars
<1> QED  BY <1>1, <1>2, <1>3, <1>4, <1>6, <1>7 DEF ServerNext

\* For any number of practices and requests and any pool: a page asked for at a
\* practice's host comes from that practice's file, or from the one whose link the
\* request carries (gateway.js, resolve.js and app.js between them).
THEOREM EachAnswersItsOwn == ServerSpec => []AnsweredByItsOwn
<1>1. ServerInit => ServerInv
  BY DEF ServerInit, ServerInv, RequestsAreKept, AnsweredByItsOwn, Unasked
<1>2. ServerInv /\ [ServerNext]_serverVars => ServerInv'  BY ServerStep
<1>3. ServerInv => AnsweredByItsOwn  BY DEF ServerInv
<1> QED  BY <1>1, <1>2, <1>3, PTL DEF ServerSpec

\* The pool, and the numbers of the handles.
Sound ==
  /\ pool \in Seq(Tenant) /\ Len(pool) =< MaxOpen
  /\ \A i, j \in 1 .. Len(pool) : pool[i] = pool[j] => i = j
  /\ handles \in [Tenant -> 0 .. MaxHandles]
  /\ \A i \in 1 .. Len(pool) : handles[pool[i]] > 0
  /\ \A r \in Request : req[r].at = "waiting" => /\ req[r].tenant \in Tenant
                                               /\ req[r].handle \in 1 .. handles[req[r].tenant]

\* One practice more, at the end of the others.
LEMMA OneMoreOpen ==
  ASSUME NEW rest \in Seq(Tenant), NEW t \in Tenant, Len(rest) < MaxOpen,
         \A i, j \in 1 .. Len(rest) : rest[i] = rest[j] => i = j,
         \A i \in 1 .. Len(rest) : rest[i] # t,
         NEW opened, opened = Append(rest, t)
  PROVE  /\ opened \in Seq(Tenant) /\ Len(opened) =< MaxOpen
         /\ \A i, j \in 1 .. Len(opened) : opened[i] = opened[j] => i = j
         /\ \A i \in 1 .. Len(opened) : opened[i] = t \/ \E j \in 1 .. Len(rest) : opened[i] = rest[j]
<1>1. PICK n \in Nat : n = Len(rest)  OBVIOUS
<1>2. /\ opened \in Seq(Tenant) /\ Len(opened) = n + 1 /\ opened[n + 1] = t
      /\ \A i \in 1 .. n : opened[i] = rest[i]
  BY <1>1
<1>3. n + 1 =< MaxOpen  BY <1>1, PoolAssumption
<1>4. ASSUME NEW i \in 1 .. n + 1, NEW j \in 1 .. n + 1, opened[i] = opened[j] PROVE i = j
  <2>1. CASE i \in 1 .. n /\ j \in 1 .. n  BY <1>1, <1>2, <1>4, <2>1
  <2>2. CASE i = n + 1 \/ j = n + 1  BY <1>1, <1>2, <1>4, <2>2
  <2> QED  BY <2>1, <2>2
<1>5. ASSUME NEW i \in 1 .. n + 1 PROVE opened[i] = t \/ \E j \in 1 .. n : opened[i] = rest[j]
  BY <1>2
<1>6. Len(opened) =< MaxOpen /\ 1 .. Len(opened) = 1 .. n + 1 /\ 1 .. Len(rest) = 1 .. n
  BY <1>1, <1>2, <1>3
<1>7. \A i, j \in 1 .. Len(opened) : opened[i] = opened[j] => i = j  BY <1>4, <1>6, Zenon
<1>8. \A i \in 1 .. Len(opened) : opened[i] = t \/ \E j \in 1 .. Len(rest) : opened[i] = rest[j]
  BY <1>5, <1>6, Zenon
<1> QED  BY <1>2, <1>6, <1>7, <1>8, Zenon

\* The pool without one practice.
Without(rest, s, k) ==
  /\ rest \in Seq(Tenant) /\ Len(rest) = Len(s) - 1
  /\ \A i, j \in 1 .. Len(rest) : rest[i] = rest[j] => i = j
  /\ \A i \in 1 .. Len(rest) : rest[i] # s[k] /\ \E j \in 1 .. Len(s) : rest[i] = s[j]

NoneTwice(s) == s \in Seq(Tenant) /\ \A i, j \in 1 .. Len(s) : s[i] = s[j] => i = j

\* A practice that is used again goes to the end: what is before it and after it stays.
LEMMA TakenOut ==
  ASSUME NEW s, NoneTwice(s), NEW k \in 1 .. Len(s), NEW rest, rest = RemoveAt(s, k)
  PROVE  Without(rest, s, k)
<1>0. s \in Seq(Tenant) /\ \A i, j \in 1 .. Len(s) : s[i] = s[j] => i = j  BY DEF NoneTwice
<1>1. PICK n \in Nat : n = Len(s) /\ s \in Seq(Tenant) /\ k \in 1 .. n  BY <1>0
<1>2. PICK a, b : a = SubSeq(s, 1, k - 1) /\ b = SubSeq(s, k + 1, n)  OBVIOUS
<1>3. a \in Seq(Tenant) /\ Len(a) = k - 1 /\ \A i \in 1 .. k - 1 : a[i] = s[i]
  <2>1. \A i \in 1 .. k - 1 : s[i] \in Tenant  BY <1>1
  <2> QED  BY <1>1, <1>2, <2>1
<1>4. b \in Seq(Tenant) /\ Len(b) = n - k /\ \A i \in 1 .. n - k : b[i] = s[k + i]
  <2>1. \A i \in k + 1 .. n : s[i] \in Tenant  BY <1>1
  <2>2. n - k \in Nat  BY <1>1
  <2>3. Len(b) = n - k  BY <1>1, <1>2, <2>2
  <2>4. \A i \in 1 .. n - k : b[i] = s[k + i]  BY <1>1, <1>2, <2>2
  <2>5. b \in Seq(Tenant)  BY <1>1, <1>2, <2>1
  <2> QED  BY <2>3, <2>4, <2>5
<1>5. rest = a \o b  BY <1>1, <1>2 DEF RemoveAt
<1>6. rest \in Seq(Tenant) /\ Len(rest) = n - 1
  <2>1. a \o b \in Seq(Tenant) /\ Len(a \o b) = Len(a) + Len(b)  BY <1>3, <1>4
  <2>2. (k - 1) + (n - k) = n - 1  BY <1>1
  <2> QED  BY <1>3, <1>4, <1>5, <2>1, <2>2
<1>7. \A i \in 1 .. n - 1 : rest[i] = IF i < k THEN s[i] ELSE s[i + 1]
  <2>1. \A i \in 1 .. k - 1 : rest[i] = a[i]  BY <1>3, <1>4, <1>5
  <2>2. \A i \in k .. n - 1 : rest[i] = b[i - (k - 1)]
    <3>1. PICK x \in Nat, y \in Nat : x = Len(a) /\ y = Len(b) /\ x = k - 1 /\ y = n - k  BY <1>1, <1>3, <1>4
    <3>2. \A i \in x + 1 .. x + y : (a \o b)[i] = b[i - x]  BY <1>3, <1>4, <3>1
    <3>3. x + 1 = k /\ x + y = n - 1  BY <1>1, <3>1
    <3> QED  BY <1>5, <3>1, <3>2, <3>3
  <2>3. ASSUME NEW i \in k .. n - 1 PROVE b[i - (k - 1)] = s[i + 1]
    <3>1. PICK m \in 1 .. n - k : m = i - (k - 1) /\ k + m = i + 1  BY <1>1
    <3>2. b[m] = s[k + m]  BY <1>4
    <3> QED  BY <3>1, <3>2
  <2> QED  BY <1>1, <1>3, <2>1, <2>2, <2>3
<1>8. ASSUME NEW i \in 1 .. n - 1, NEW j \in 1 .. n - 1, rest[i] = rest[j] PROVE i = j
  <2>1. PICK x \in 1 .. n : rest[i] = s[x] /\ x = IF i < k THEN i ELSE i + 1  BY <1>1, <1>7
  <2>2. PICK y \in 1 .. n : rest[j] = s[y] /\ y = IF j < k THEN j ELSE j + 1  BY <1>1, <1>7
  <2>3. x = y  BY <1>0, <1>1, <1>8, <2>1, <2>2
  <2> QED  BY <1>1, <2>1, <2>2, <2>3
<1>9. ASSUME NEW i \in 1 .. n - 1 PROVE rest[i] # s[k] /\ \E j \in 1 .. n : rest[i] = s[j]
  <2>1. PICK x \in 1 .. n : rest[i] = s[x] /\ x = IF i < k THEN i ELSE i + 1  BY <1>1, <1>7
  <2>2. x # k  BY <1>1, <2>1
  <2>3. s[x] # s[k]  BY <1>0, <1>1, <2>2
  <2> QED  BY <2>1, <2>3
<1>10. rest \in Seq(Tenant) /\ Len(rest) = Len(s) - 1  BY <1>1, <1>6
<1>11. 1 .. Len(rest) = 1 .. n - 1 /\ 1 .. Len(s) = 1 .. n  BY <1>1, <1>6
<1>12. \A i, j \in 1 .. Len(rest) : rest[i] = rest[j] => i = j  BY <1>8, <1>11, Zenon
<1>13. \A i \in 1 .. Len(rest) : rest[i] # s[k] /\ \E j \in 1 .. Len(s) : rest[i] = s[j]
  BY <1>9, <1>11, Zenon
<1> QED  BY <1>10, <1>12, <1>13, Zenon DEF Without

\* Least recently used goes first.
LEMMA FirstGone ==
  ASSUME NEW s \in Seq(Tenant), s # <<>>,
         \A i, j \in 1 .. Len(s) : s[i] = s[j] => i = j,
         NEW rest, rest = Tail(s)
  PROVE  /\ rest \in Seq(Tenant) /\ Len(rest) = Len(s) - 1
         /\ \A i, j \in 1 .. Len(rest) : rest[i] = rest[j] => i = j
         /\ \A i \in 1 .. Len(rest) : \E j \in 1 .. Len(s) : rest[i] = s[j]
<1>1. PICK n \in Nat : n = Len(s) /\ n > 0  OBVIOUS
<1>2. rest \in Seq(Tenant) /\ Len(rest) = n - 1 /\ \A i \in 1 .. n - 1 : rest[i] = s[i + 1]  BY <1>1
<1> QED  BY <1>1, <1>2

LEMMA PoolGets ==
  ASSUME Sound, NEW t \in Tenant, Get(t)
  PROVE  /\ pool' \in Seq(Tenant) /\ Len(pool') =< MaxOpen
         /\ \A i, j \in 1 .. Len(pool') : pool'[i] = pool'[j] => i = j
         /\ handles' \in [Tenant -> 0 .. MaxHandles] /\ handles'[t] > 0
         /\ \A u \in Tenant : handles'[u] >= handles[u]
         /\ \A i \in 1 .. Len(pool') : handles'[pool'[i]] > 0
<1>1. PICK n \in Nat : n = Len(pool) /\ DOMAIN pool = 1 .. n  BY DEF Sound
<1>2. OpenFiles = {pool[i] : i \in 1 .. n}  BY <1>1 DEF OpenFiles, Range
<1>3. /\ handles' \in [Tenant -> 0 .. MaxHandles] /\ \A u \in Tenant : handles'[u] >= handles[u]
      /\ handles'[t] > 0
  <2>1. CASE t \in OpenFiles
    <3>1. handles' = handles  BY <2>1 DEF Get
    <3>2. handles[t] > 0  BY <1>1, <1>2, <2>1 DEF Sound
    <3> QED  BY <3>1, <3>2 DEF Sound
  <2>2. CASE t \notin OpenFiles
    <3>1. handles' = [handles EXCEPT ![t] = @ + 1] /\ handles[t] < MaxHandles  BY <2>2 DEF Get
    <3>2. handles \in [Tenant -> 0 .. MaxHandles]  BY DEF Sound
    <3> QED  BY <3>1, <3>2, PoolAssumption
  <2> QED  BY <2>1, <2>2
<1>4. PICK rest : /\ rest \in Seq(Tenant) /\ Len(rest) < MaxOpen /\ pool' = Append(rest, t)
                  /\ \A i, j \in 1 .. Len(rest) : rest[i] = rest[j] => i = j
                  /\ \A i \in 1 .. Len(rest) : rest[i] # t /\ \E j \in 1 .. n : rest[i] = pool[j]
  <2>1. CASE t \in OpenFiles
    <3>1. PICK k \in 1 .. n : k = (CHOOSE i \in DOMAIN pool : pool[i] = t) /\ pool[k] = t
      BY <1>1, <1>2, <2>1
    <3>2. PICK rest : rest = RemoveAt(pool, k)  OBVIOUS
    <3>3. pool' = Append(rest, t)  BY <2>1, <3>1, <3>2 DEF Get, Touched
    <3>4. /\ rest \in Seq(Tenant) /\ Len(rest) = n - 1
          /\ \A i, j \in 1 .. Len(rest) : rest[i] = rest[j] => i = j
          /\ \A i \in 1 .. Len(rest) : rest[i] # pool[k] /\ \E j \in 1 .. n : rest[i] = pool[j]
      <4>1. NoneTwice(pool)  BY DEF Sound, NoneTwice
      <4>2. k \in 1 .. Len(pool)  BY <1>1, <3>1
      <4>3. Without(rest, pool, k)  BY <3>2, <4>1, <4>2, TakenOut, Zenon
      <4> QED  BY <1>1, <4>3 DEF Without
    <3>5. n - 1 < MaxOpen  BY <1>1, PoolAssumption DEF Sound
    <3> QED  BY <3>1, <3>3, <3>4, <3>5
  <2>2. CASE t \notin OpenFiles /\ n < MaxOpen
    <3>1. pool' = Append(pool, t)  BY <1>1, <2>2 DEF Get, Touched
    <3> QED  BY <1>1, <1>2, <2>2, <3>1 DEF Sound
  <2>3. CASE t \notin OpenFiles /\ ~(n < MaxOpen)
    <3>1. PICK rest : rest = Tail(pool)  OBVIOUS
    <3>2. pool' = Append(rest, t)  BY <1>1, <2>3, <3>1 DEF Get, Touched
    <3>3. n = MaxOpen /\ n > 0 /\ pool # <<>>  BY <1>1, <2>3, PoolAssumption DEF Sound
    <3>4. /\ rest \in Seq(Tenant) /\ Len(rest) = n - 1
          /\ \A i, j \in 1 .. Len(rest) : rest[i] = rest[j] => i = j
          /\ \A i \in 1 .. Len(rest) : \E j \in 1 .. n : rest[i] = pool[j]
      BY <1>1, <3>1, <3>3, FirstGone DEF Sound
    <3>5. \A j \in 1 .. n : pool[j] # t  BY <1>2, <2>3
    <3>6. \A i \in 1 .. Len(rest) : rest[i] # t  BY <3>4, <3>5
    <3> QED  BY <3>2, <3>3, <3>4, <3>6
  <2> QED  BY <2>1, <2>2, <2>3
<1>5. /\ pool' \in Seq(Tenant) /\ Len(pool') =< MaxOpen
      /\ \A i, j \in 1 .. Len(pool') : pool'[i] = pool'[j] => i = j
      /\ \A i \in 1 .. Len(pool') : pool'[i] = t \/ \E j \in 1 .. Len(rest) : pool'[i] = rest[j]
  BY <1>4, OneMoreOpen
<1>6. \A i \in 1 .. Len(pool') : handles'[pool'[i]] > 0
  <2>1. \A j \in 1 .. n : pool[j] \in Tenant /\ handles[pool[j]] > 0  BY <1>1 DEF Sound
  <2>2. \A u \in Tenant : handles[u] \in Nat /\ handles'[u] \in Nat  BY <1>3 DEF Sound
  <2>3. \A j \in 1 .. n : handles'[pool[j]] > 0  BY <1>3, <2>1, <2>2
  <2> QED  BY <1>3, <1>4, <1>5, <2>3
<1> QED  BY <1>3, <1>5, <1>6

LEMMA GettingIsSound ==
  ASSUME Sound, NEW t \in Tenant, Get(t), NEW r \in Request, NEW a \in Addresses, NEW side,
         RequestsAreKept,
         UNCHANGED req \/ Wait(r, a, t, side)
  PROVE  Sound'
<1>1. /\ pool' \in Seq(Tenant) /\ Len(pool') =< MaxOpen
      /\ \A i, j \in 1 .. Len(pool') : pool'[i] = pool'[j] => i = j
      /\ handles' \in [Tenant -> 0 .. MaxHandles] /\ handles'[t] > 0
      /\ \A u \in Tenant : handles'[u] >= handles[u]
      /\ \A i \in 1 .. Len(pool') : handles'[pool'[i]] > 0
  BY PoolGets
<1>2. \A u \in Tenant : handles[u] \in 0 .. MaxHandles /\ handles'[u] \in 0 .. MaxHandles
  BY <1>1 DEF Sound
<1>3. ASSUME NEW q \in Request, req'[q].at = "waiting"
      PROVE  req'[q].tenant \in Tenant /\ req'[q].handle \in 1 .. handles'[req'[q].tenant]
  <2>1. CASE req'[q] = req[q]
    <3>1. req[q].tenant \in Tenant /\ req[q].handle \in 1 .. handles[req[q].tenant]
      BY <1>3, <2>1 DEF Sound
    <3>2. PICK u \in Tenant : u = req[q].tenant  BY <3>1
    <3>3. req[q].handle \in 1 .. handles'[u]  BY <1>1, <1>2, <3>1, <3>2, PoolAssumption
    <3> QED  BY <2>1, <3>2, <3>3
  <2>2. CASE req'[q] # req[q]
    <3>1. Wait(r, a, t, side) /\ q = r  BY <2>2 DEF Wait, RequestsAreKept
    <3>2. req'[q].tenant = t /\ req'[q].handle = handles'[t]  BY <3>1 DEF Wait, RequestsAreKept
    <3> QED  BY <1>1, <1>2, <3>2, PoolAssumption
  <2> QED  BY <2>1, <2>2
<1> QED  BY <1>1, <1>3 DEF Sound

LEMMA SoundStep == ServerInv /\ Sound /\ [ServerNext]_serverVars => Sound'
<1> SUFFICES ASSUME ServerInv, Sound, [ServerNext]_serverVars PROVE Sound'
  OBVIOUS
<1>0. RequestsAreKept  BY DEF ServerInv
<1>1. ASSUME NEW r \in Request, NEW a \in Addresses, GatewayPage(r, a) PROVE Sound'
  <2>1. Owner(a) \in Tenant  BY <1>1 DEF GatewayPage, Owner, Addresses, Address
  <2> QED  BY <1>0, <1>1, <2>1, GettingIsSound DEF GatewayPage
<1>2. ASSUME NEW r \in Request, NEW a \in Addresses, CorePage(r, a) PROVE Sound'
  <2>1. NamedTenant(a) \in Tenant  BY <1>2 DEF CorePage, NamedTenant, ByLink, Addresses, Address
  <2> QED  BY <1>0, <1>2, <2>1, GettingIsSound DEF CorePage
<1>3. ASSUME NEW r \in Request, Answer(r) \/ Throws(r) \/ Again(r) PROVE Sound'
  <2>1. req' = [req EXCEPT ![r] = Unasked] /\ UNCHANGED <<pool, handles>>
    BY <1>3 DEF Answer, Throws, Again
  <2>2. \A q \in Request : req'[q].at = "waiting" => req'[q] = req[q]
    BY <1>0, <2>1 DEF RequestsAreKept, Unasked
  <2> QED  BY <2>1, <2>2 DEF Sound
<1>4. ASSUME NEW r \in Request, Dies(r) PROVE Sound'
  <2>1. pool' = <<>> /\ handles' = handles  BY <1>4 DEF Dies
  <2>2. \A q \in Request : req'[q].at # "waiting"  BY <1>4 DEF Dies, Unasked
  <2>3. pool' \in Seq(Tenant) /\ Len(pool') = 0  BY <2>1
  <2> QED  BY <2>1, <2>2, <2>3, PoolAssumption DEF Sound
<1>5. CASE UNCHANGED <<req, handles, pool>>  BY <1>5 DEF Sound
<1>6. CASE \E t \in Tenant : Stand(t)  BY <1>5, <1>6 DEF Stand
<1>7. CASE UNCHANGED serverVars  BY <1>5, <1>7 DEF serverVars
<1> QED  BY <1>1, <1>2, <1>3, <1>4, <1>6, <1>7 DEF ServerNext

\* What a practice may do, and how often that changed.
StandingsTyped == standing \in [Tenant -> {"open", "walled", "leaving"}] /\ changes \in 0 .. MaxChanges

\* No step of the server leaves a practice in a standing that is none.
LEMMA StandingsStep == StandingsTyped /\ [ServerNext]_serverVars => StandingsTyped'
<1> SUFFICES ASSUME StandingsTyped, [ServerNext]_serverVars PROVE StandingsTyped'
  OBVIOUS
<1>1. ASSUME NEW t \in Tenant, Stand(t) PROVE StandingsTyped'
  <2>1. PICK s \in {"open", "walled", "leaving"} : standing' = [standing EXCEPT ![t] = s]
    BY <1>1 DEF Stand
  <2>2. changes' \in 0 .. MaxChanges  BY <1>1, PoolAssumption DEF Stand, StandingsTyped
  <2> QED  BY <2>1, <2>2 DEF StandingsTyped
<1>2. CASE UNCHANGED <<standing, changes>>  BY <1>2 DEF StandingsTyped
<1> QED
  BY <1>1, <1>2 DEF ServerNext, serverVars, GatewayPage, CorePage, Answer, Throws, Dies, Again

\* What every state of the server has: the shape of its requests, a sound pool, standings.
LEMMA ServerInvariant == ServerSpec => [](ServerInv /\ Sound /\ StandingsTyped)
<1>1. ServerInit => ServerInv /\ Sound /\ StandingsTyped
  <2> SUFFICES ASSUME ServerInit PROVE ServerInv /\ Sound /\ StandingsTyped  OBVIOUS
  <2>1. ServerInv  BY DEF ServerInit, ServerInv, RequestsAreKept, AnsweredByItsOwn, Unasked
  <2>2. pool \in Seq(Tenant) /\ Len(pool) = 0  BY DEF ServerInit
  <2>3. Sound  BY <2>2, PoolAssumption DEF ServerInit, Sound, Unasked
  <2>4. StandingsTyped  BY PoolAssumption DEF ServerInit, StandingsTyped
  <2> QED  BY <2>1, <2>3, <2>4
<1> QED  BY <1>1, ServerStep, SoundStep, StandingsStep, PTL DEF ServerSpec

\* For any practices, requests and limit: no more databases are open than the limit
\* says, none is open twice, and whoever waits holds a handle that was opened for the
\* practice it waits for, however often others pushed that practice out (createPool).
THEOREM PoolStaysSound == ServerSpec => []PoolIsSound
<1>1. Sound => PoolIsSound
  <2> SUFFICES ASSUME Sound PROVE PoolIsSound  OBVIOUS
  <2>1. DOMAIN pool = 1 .. Len(pool)  BY DEF Sound
  <2> QED  BY <2>1 DEF Sound, PoolIsSound
<1> QED  BY <1>1, ServerInvariant, PTL

\* The variables of the server keep their types.
THEOREM ServerTypesAreKept == ServerSpec => []ServerTypeOK
<1>1. ServerInv /\ Sound /\ StandingsTyped => ServerTypeOK
  <2> SUFFICES ASSUME ServerInv, Sound, StandingsTyped PROVE ServerTypeOK  OBVIOUS
  <2>1. OpenFiles \subseteq Tenant  BY DEF Sound, OpenFiles, Range
  <2>2. \A r \in Request : req[r].at \in {"idle", "waiting", "dropped"}  BY DEF ServerInv, RequestsAreKept
  <2> QED  BY <2>1, <2>2 DEF Sound, StandingsTyped, ServerTypeOK
<1> QED  BY <1>1, ServerInvariant, PTL

-----------------------------------------------------------------------------
(* An invitation accepted in two databases: HostedInvite implements            *)
(* InvitedMembership.                                                          *)

Waiting ==
  {Idle}
  \cup [at : {"hashing"}, invite : Invites, email : Emails, password : Passwords]
  \cup [at : {"verifying"}, invite : Invites, email : Emails, password : Passwords, known : BOOLEAN]
  \cup [at : {"login"}, email : Emails]

\* Types, that an invitation is made before it expires, and that one that is being
\* accepted is bound to an account.
InviteInv ==
  /\ invite \in [Invites -> [state : {"none", "open", "used", "revoked"}, by : Emails \cup {NoOne}]]
  /\ expired \subseteq Invites
  /\ practitioner \in [Emails -> {"none", "active", "removed"}]
  /\ session \subseteq Emails
  /\ hosted \in [Invites -> [state : {"none", "pending", "accepting", "accepted", "revoked"},
                             email : Emails \cup {NoOne}, account : Emails \cup {NoOne}]]
  /\ account \in [Emails -> Passwords \cup {NoOne}]
  /\ member \subseteq Emails
  /\ request \in [Requests -> Waiting]
  /\ faults \in 0 .. MaxFaults
  /\ \A i \in expired : invite[i].state # "none"
  /\ \A i \in Invites : hosted[i].state = "accepting" => hosted[i].account # NoOne

\* What the two databases amount to.
Standings == [e \in Emails |-> Standing(e)]
Spent     == {i \in Invites : invite[i].state = "used"}
Shut      == {i \in Invites : invite[i].state = "revoked" \/ (i \in expired /\ invite[i].state = "open")}

\* The steps of the promise, told of the two databases.
Joins(e, i) ==
  /\ Standings[e] = "out" /\ i \notin Spent \cup Shut
  /\ Spent' = Spent \cup {i} /\ Shut' = Shut
  /\ \E s \in {"owed", "in"} : Standings' = [Standings EXCEPT ![e] = s]
Enters(e) ==
  Standings[e] = "owed" /\ Standings' = [Standings EXCEPT ![e] = "in"] /\ Spent' = Spent /\ Shut' = Shut
GoesOut(e) ==
  Standings[e] # "out" /\ Standings' = [Standings EXCEPT ![e] = "out"] /\ Spent' = Spent /\ Shut' = Shut
Shuts(i) ==
  i \notin Spent /\ Shut' = Shut \cup {i} /\ Standings' = Standings /\ Spent' = Spent
Stays == Standings' = Standings /\ Spent' = Spent /\ Shut' = Shut

Kept ==
  \/ Stays
  \/ \E e \in Emails : Enters(e) \/ GoesOut(e) \/ \E i \in Invites : Joins(e, i)
  \/ \E i \in Invites : Shuts(i)

LEMMA KeptIsPromised == Kept => [Promise!Next]_(Promise!promise)
<1>1. ASSUME NEW e \in Emails, NEW i \in Invites, Joins(e, i) PROVE Promise!Join(e, i)
  BY <1>1 DEF Joins, Promise!Join, Standings, Spent, Shut
<1>2. ASSUME NEW e \in Emails, Enters(e) PROVE Promise!Enter(e)
  BY <1>2 DEF Enters, Promise!Enter, Standings, Spent, Shut
<1>3. ASSUME NEW e \in Emails, GoesOut(e) PROVE Promise!Leave(e)
  BY <1>3 DEF GoesOut, Promise!Leave, Standings, Spent, Shut
<1>4. ASSUME NEW i \in Invites, Shuts(i) PROVE Promise!Close(i)
  BY <1>4 DEF Shuts, Promise!Close, Standings, Spent, Shut
<1>5. Stays => UNCHANGED Promise!promise
  BY DEF Stays, Promise!promise, Standings, Spent, Shut
<1> QED  BY <1>1, <1>2, <1>3, <1>4, <1>5 DEF Kept, Promise!Next

\* An account that is, or may be, made a member: it enters if the practice owes it.
LEMMA MembersEnter ==
  ASSUME InviteInv, \E a : member' \in {member, member \cup {a}},
         invite' = invite, expired' = expired, practitioner' = practitioner
  PROVE  Kept
<1> PICK a : member' \in {member, member \cup {a}}  OBVIOUS
<1>1. Spent' = Spent /\ Shut' = Shut  BY DEF Spent, Shut
<1>2. CASE member' = member
  <2>1. Standings' = Standings  BY <1>2 DEF Standings, Standing, Active
  <2> QED  BY <1>1, <2>1 DEF Kept, Stays
<1>3. CASE member' = member \cup {a} /\ a \in Emails /\ Standing(a) = "owed"
  <2>1. Standings[a] = "owed" /\ Standing(a)' = "in"
    BY <1>3 DEF Standings, Standing, Active
  <2>2. \A e \in Emails : e # a => Standing(e)' = Standing(e)
    BY <1>3 DEF Standing, Active
  <2>3. Standings' = [Standings EXCEPT ![a] = "in"]
    BY <1>3, <2>1, <2>2 DEF Standings
  <2> QED  BY <1>1, <1>3, <2>1, <2>3 DEF Kept, Enters
<1>4. CASE member' = member \cup {a} /\ ~(a \in Emails /\ Standing(a) = "owed")
  <2>1. \A e \in Emails : Standing(e)' = Standing(e)
    BY <1>4 DEF Standing, Active
  <2>2. Standings' = Standings  BY <2>1 DEF Standings
  <2> QED  BY <1>1, <2>2 DEF Kept, Stays
<1> QED  BY <1>2, <1>3, <1>4

\* What a request does to its own place.
LEMMA RequestsWait ==
  ASSUME InviteInv, NEW r \in Requests, NEW q \in Waiting, request' = [request EXCEPT ![r] = q]
  PROVE  request' \in [Requests -> Waiting]
BY DEF InviteInv

LEMMA FaultsCount ==
  ASSUME InviteInv, NEW broken \in BOOLEAN, Fails(broken) PROVE faults' \in 0 .. MaxFaults
BY FaultAssumption DEF InviteInv, Fails

LEMMA IssueKeeps ==
  ASSUME InviteInv, NEW i \in Invites, NEW e \in Emails, Issue(i, e)
  PROVE  InviteInv' /\ Kept
<1>1. PICK broken \in BOOLEAN :
        /\ Fails(broken)
        /\ invite' = [invite EXCEPT ![i].state = IF broken THEN "revoked" ELSE "open"]
        /\ hosted' = IF broken THEN hosted
                     ELSE [hosted EXCEPT ![i] = [state |-> "pending", email |-> e, account |-> NoOne]]
  BY DEF Issue
<1>2. /\ invite[i].state = "none"
      /\ UNCHANGED <<expired, practitioner, session, account, member, request>>
  BY DEF Issue
<1>3. i \notin expired  BY <1>2 DEF InviteInv
<1>4. InviteInv'
  BY <1>1, <1>2, <1>3, FaultsCount DEF InviteInv
<1>5. Standings' = Standings  BY <1>2 DEF Standings, Standing, Active
<1>6. /\ \A j \in Invites : j # i => invite'[j] = invite[j]
      /\ invite'[i].state = IF broken THEN "revoked" ELSE "open"
  BY <1>1 DEF InviteInv
<1>7. i \notin Spent /\ Spent' = Spent  BY <1>2, <1>6 DEF Spent
<1>8. CASE broken
  <2>1. Shut' = Shut \cup {i}  BY <1>2, <1>6, <1>8 DEF Shut
  <2> QED  BY <1>4, <1>5, <1>7, <2>1 DEF Kept, Shuts
<1>9. CASE ~broken
  <2>1. Shut' = Shut  BY <1>2, <1>3, <1>6, <1>9 DEF Shut
  <2> QED  BY <1>4, <1>5, <1>7, <2>1 DEF Kept, Stays
<1> QED  BY <1>8, <1>9

LEMMA ExpireKeeps ==
  ASSUME InviteInv, NEW i \in Invites, Expire(i)
  PROVE  InviteInv' /\ Kept
<1>1. /\ i \notin expired /\ invite[i].state # "none" /\ expired' = expired \cup {i}
      /\ UNCHANGED <<invite, practitioner, session, hosted, account, member, request, faults>>
  BY DEF Expire, registry
<1>2. InviteInv'  BY <1>1 DEF InviteInv
<1>3. Standings' = Standings /\ Spent' = Spent  BY <1>1 DEF Standings, Standing, Active, Spent
<1>4. CASE invite[i].state = "open"
  <2>1. i \notin Spent /\ Shut' = Shut \cup {i}  BY <1>1, <1>4 DEF Shut, Spent
  <2> QED  BY <1>2, <1>3, <2>1 DEF Kept, Shuts
<1>5. CASE invite[i].state # "open"
  <2>1. Shut' = Shut  BY <1>1, <1>5 DEF Shut
  <2> QED  BY <1>2, <1>3, <2>1 DEF Kept, Stays
<1> QED  BY <1>4, <1>5

LEMMA RevokeKeeps ==
  ASSUME InviteInv, NEW i \in Invites, Revoke(i)
  PROVE  InviteInv' /\ Kept
<1>1. /\ invite[i].state = "open" /\ invite' = [invite EXCEPT ![i].state = "revoked"]
      /\ UNCHANGED <<expired, practitioner, session, account, member, request>>
  BY DEF Revoke
<1>2. PICK broken \in BOOLEAN :
        /\ Fails(broken)
        /\ hosted' = IF broken \/ hosted[i].state \notin {"pending", "accepting"} THEN hosted
                     ELSE [hosted EXCEPT ![i].state = "revoked"]
  BY DEF Revoke
<1>3. /\ \A j \in Invites : j # i => invite'[j] = invite[j]
      /\ invite'[i].state = "revoked"
  BY <1>1 DEF InviteInv
<1>4. InviteInv'
  <2>1. invite' \in [Invites -> [state : {"none", "open", "used", "revoked"}, by : Emails \cup {NoOne}]]
    BY <1>1 DEF InviteInv
  <2>2. /\ hosted' \in [Invites -> [state : {"none", "pending", "accepting", "accepted", "revoked"},
                             email : Emails \cup {NoOne}, account : Emails \cup {NoOne}]]
        /\ \A j \in Invites : hosted'[j].state = "accepting" => hosted'[j].account # NoOne
    BY <1>2 DEF InviteInv
  <2>3. \A j \in expired : invite'[j].state # "none"  BY <1>3 DEF InviteInv
  <2> QED  BY <1>1, <1>2, <2>1, <2>2, <2>3, FaultsCount DEF InviteInv
<1>5. Standings' = Standings  BY <1>1 DEF Standings, Standing, Active
<1>6. i \notin Spent /\ Spent' = Spent /\ Shut' = Shut \cup {i}
  BY <1>1, <1>3 DEF Spent, Shut
<1> QED  BY <1>4, <1>5, <1>6 DEF Kept, Shuts

LEMMA RemoveMemberKeeps ==
  ASSUME InviteInv, NEW e \in Emails, RemoveMember(e)
  PROVE  InviteInv' /\ Kept
<1>1. /\ Active(e) /\ practitioner' = [practitioner EXCEPT ![e] = "removed"]
      /\ session' = session \ {e}
      /\ UNCHANGED <<invite, expired, hosted, account, request>>
  BY DEF RemoveMember
<1>2. PICK broken \in BOOLEAN :
        Fails(broken) /\ member' = IF broken THEN member ELSE member \ {e}
  BY DEF RemoveMember
<1>3. InviteInv'
  BY <1>1, <1>2, FaultsCount DEF InviteInv
<1>4. Spent' = Spent /\ Shut' = Shut  BY <1>1 DEF Spent, Shut
<1>5. Standings[e] # "out" /\ Standing(e)' = "out"
  BY <1>1 DEF Standings, Standing, Active, InviteInv
<1>6. \A d \in Emails : d # e => Standing(d)' = Standing(d)
  BY <1>1, <1>2 DEF Standing, Active, InviteInv
<1>7. Standings' = [Standings EXCEPT ![e] = "out"]
  BY <1>5, <1>6 DEF Standings
<1> QED  BY <1>3, <1>4, <1>5, <1>7 DEF Kept, GoesOut

\* Who has claimed is recorded, and the registry's row says so.
LEMMA CompletedKeeps ==
  ASSUME InviteInv, NEW i \in Invites, Unfinished(i) => Completed(i),
         ~Unfinished(i) => UNCHANGED <<hosted, member>>,
         UNCHANGED <<invite, expired, practitioner, session, account, faults>>,
         request' \in [Requests -> Waiting]
  PROVE  InviteInv' /\ Kept
<1>1. CASE Unfinished(i)
  <2>1. /\ hosted' = [hosted EXCEPT ![i].state = "accepted"]
        /\ member' = member \cup {hosted[i].account}
    BY <1>1 DEF Completed
  <2>2. hosted[i].account \in Emails  BY <1>1 DEF Unfinished, InviteInv
  <2>3. InviteInv'  BY <2>1, <2>2 DEF InviteInv
  <2>4. PICK a : a = hosted[i].account  OBVIOUS
  <2>5. member' \in {member, member \cup {a}} /\ UNCHANGED <<invite, expired, practitioner>>
    BY <2>1, <2>4
  <2> QED  BY <2>3, <2>5, MembersEnter
<1>2. CASE ~Unfinished(i)
  <2>1. InviteInv'  BY <1>2 DEF InviteInv
  <2> QED  BY <1>2, <2>1, MembersEnter
<1> QED  BY <1>1, <1>2

LEMMA ReloadKeeps ==
  ASSUME InviteInv, NEW i \in Invites, Reload(i) PROVE InviteInv' /\ Kept
<1>1. request' \in [Requests -> Waiting]  BY DEF Reload, InviteInv
<1> QED  BY <1>1, CompletedKeeps DEF Reload, tenantDb

LEMMA RefuseKeeps ==
  ASSUME InviteInv, NEW r \in Requests, Refuse(r) PROVE InviteInv' /\ Kept
<1>1. PICK q \in Waiting : q = request[r]  BY DEF InviteInv
<1>2. q.at \in {"hashing", "verifying"} /\ Reconcile(q.invite)  BY <1>1 DEF Refuse
<1>3. q.invite \in Invites  BY <1>2 DEF Waiting, Idle
<1>4. request' \in [Requests -> Waiting]
  BY RequestsWait DEF Refuse, Waiting
<1> QED  BY <1>1, <1>2, <1>3, <1>4, CompletedKeeps DEF Refuse, tenantDb, Reconcile

\* Steps of a request alone.
LEMMA RequestAloneKeeps ==
  ASSUME InviteInv, request' \in [Requests -> Waiting], faults' \in 0 .. MaxFaults,
         UNCHANGED <<invite, expired, practitioner, hosted, account, member>>,
         session' \subseteq Emails
  PROVE  InviteInv' /\ Kept
BY MembersEnter DEF InviteInv

LEMMA PresentKeeps ==
  ASSUME InviteInv, NEW r \in Requests, NEW i \in Invites, NEW e \in Emails, NEW p \in Passwords,
         Present(r, i, e, p)
  PROVE  InviteInv' /\ Kept
<1>1. [at |-> "hashing", invite |-> i, email |-> e, password |-> p] \in Waiting  BY DEF Waiting
<1> QED  BY <1>1, RequestsWait, RequestAloneKeeps DEF Present, tenantDb, registry, InviteInv

LEMMA LoginKeeps ==
  ASSUME InviteInv, NEW r \in Requests, NEW e \in Emails, NEW p \in Passwords, Login(r, e, p)
  PROVE  InviteInv' /\ Kept
<1>1. [at |-> "login", email |-> e] \in Waiting  BY DEF Waiting
<1> QED  BY <1>1, RequestsWait, RequestAloneKeeps DEF Login, tenantDb, registry, InviteInv

LEMMA VerifyKeeps ==
  ASSUME InviteInv, NEW r \in Requests, Verify(r) PROVE InviteInv' /\ Kept
<1>1. PICK q \in Waiting : q = request[r]  BY DEF InviteInv
<1>2. q.at = "hashing"  BY <1>1 DEF Verify
<1>3. q.invite \in Invites /\ q.email \in Emails /\ q.password \in Passwords
  BY <1>2 DEF Waiting, Idle
<1>4. PICK known \in BOOLEAN : known = (hosted[q.invite].state # "none")  OBVIOUS
<1>5. [at |-> "verifying", invite |-> q.invite, email |-> q.email, password |-> q.password,
       known |-> known] \in Waiting
  BY <1>3 DEF Waiting
<1>6. request' = [request EXCEPT ![r] =
        [at |-> "verifying", invite |-> q.invite, email |-> q.email, password |-> q.password,
         known |-> known]]
  BY <1>1, <1>4 DEF Verify
<1> QED  BY <1>5, <1>6, RequestsWait, RequestAloneKeeps DEF Verify, tenantDb, registry, InviteInv

LEMMA SignInKeeps ==
  ASSUME InviteInv, NEW r \in Requests, SignIn(r) PROVE InviteInv' /\ Kept
<1>1. PICK q \in Waiting : q = request[r]  BY DEF InviteInv
<1>2. q.at = "login"  BY <1>1 DEF SignIn
<1>3. q.email \in Emails  BY <1>2 DEF Waiting, Idle
<1>4. request' \in [Requests -> Waiting]  BY RequestsWait DEF SignIn, Waiting
<1>5. session' \subseteq Emails  BY <1>1, <1>3 DEF SignIn, InviteInv
<1> QED  BY <1>4, <1>5, RequestAloneKeeps DEF SignIn, registry, InviteInv

LEMMA CrashKeeps ==
  ASSUME InviteInv, Crash PROVE InviteInv' /\ Kept
<1>1. request' \in [Requests -> Waiting]  BY DEF Crash, Waiting
<1>2. faults' \in 0 .. MaxFaults  BY FaultsCount DEF Crash
<1> QED  BY <1>1, <1>2, RequestAloneKeeps DEF Crash, tenantDb, registry, InviteInv

\* The account the address gets, or has.
LEMMA AccountsKept ==
  ASSUME InviteInv, NEW q, q.email \in Emails, q.password \in Passwords,
         account' = [account EXCEPT ![q.email] = AccountOf(q)]
  PROVE  account' \in [Emails -> Passwords \cup {NoOne}]
BY DEF InviteInv, AccountOf

\* What a request that accepts carries.
LEMMA Carries ==
  ASSUME InviteInv, NEW r \in Requests, request[r].at # "idle", request[r].at # "login"
  PROVE  /\ request[r].invite \in Invites /\ request[r].email \in Emails
         /\ request[r].password \in Passwords
<1>1. request[r] \in Waiting  BY DEF InviteInv
<1> QED  BY <1>1 DEF Waiting, Idle

LEMMA AcceptKeeps ==
  ASSUME InviteInv, NEW r \in Requests, Accept(r) PROVE InviteInv' /\ Kept
<1>1. PICK q : q = request[r]  OBVIOUS
<1>2. /\ q.at # "idle" /\ q.at # "login" /\ Claimable(q)
      /\ request' = [request EXCEPT ![r] = Idle]
      /\ account' = [account EXCEPT ![q.email] = AccountOf(q)]
  BY <1>1 DEF Accept
<1>3. q.invite \in Invites /\ q.email \in Emails /\ q.password \in Passwords
  BY <1>1, <1>2, Carries
<1>4. PICK i \in Invites, e \in Emails : i = q.invite /\ e = q.email  BY <1>3
<1>5. PICK reached \in {"bound", "claimed", "completed"} :
          /\ Fails(reached # "completed")
          /\ IF reached = "bound" THEN UNCHANGED <<invite, expired, practitioner>>
                                  ELSE Claim(q)
          /\ hosted' = [hosted EXCEPT ![q.invite] =
                [Bound(q) EXCEPT !.state = IF reached = "completed" THEN "accepted" ELSE @]]
          /\ member' = IF reached = "completed" THEN member \cup {q.email} ELSE member
          /\ session' = IF reached = "completed" THEN session \cup {q.email} ELSE session
  BY <1>1 DEF Accept
<1>6. hosted' = [hosted EXCEPT ![i] =
         [state |-> IF reached = "completed" THEN "accepted" ELSE "accepting",
          email |-> e, account |-> e]]
  <2>1. [Bound(q) EXCEPT !.state = IF reached = "completed" THEN "accepted" ELSE @]
          = [state |-> IF reached = "completed" THEN "accepted" ELSE "accepting",
             email |-> e, account |-> e]
    BY <1>4 DEF Bound
  <2> QED  BY <1>4, <1>5, <2>1
<1>7. invite[i].state = "open" /\ i \notin expired /\ practitioner[e] # "active"
  BY <1>2, <1>4 DEF Claimable, Open, Active
<1>8. /\ request' \in [Requests -> Waiting] /\ account' \in [Emails -> Passwords \cup {NoOne}]
      /\ faults' \in 0 .. MaxFaults
  <2>1. Idle \in Waiting  BY DEF Waiting
  <2>2. (reached # "completed") \in BOOLEAN  OBVIOUS
  <2> QED  BY <1>2, <1>3, <1>5, <2>1, <2>2, RequestsWait, AccountsKept, FaultsCount
<1>9. /\ hosted' \in [Invites -> [state : {"none", "pending", "accepting", "accepted", "revoked"},
                             email : Emails \cup {NoOne}, account : Emails \cup {NoOne}]]
      /\ \A j \in Invites : hosted'[j].state = "accepting" => hosted'[j].account # NoOne
  BY <1>6, NoOneAssumption DEF InviteInv
<1>10. CASE reached = "bound"
  <2>1. member' = member /\ session' = session /\ UNCHANGED <<invite, expired, practitioner>>
    BY <1>5, <1>10
  <2>2. InviteInv'  BY <1>8, <1>9, <2>1 DEF InviteInv
  <2> QED  BY <2>1, <2>2, MembersEnter
<1>11. CASE reached # "bound"
  <2>1. /\ invite' = [invite EXCEPT ![i] = [state |-> "used", by |-> e]]
        /\ practitioner' = [practitioner EXCEPT ![e] = "active"]
        /\ expired' = expired
    BY <1>4, <1>5, <1>11 DEF Claim
  <2>2. /\ member' \in {member, member \cup {e}} /\ session' \in {session, session \cup {e}}
    BY <1>4, <1>5
  <2>3. /\ invite' \in [Invites -> [state : {"none", "open", "used", "revoked"}, by : Emails \cup {NoOne}]]
        /\ practitioner' \in [Emails -> {"none", "active", "removed"}]
        /\ \A j \in Invites : invite'[j] = IF j = i THEN [state |-> "used", by |-> e] ELSE invite[j]
    BY <2>1 DEF InviteInv
  <2>4. InviteInv'
    <3>1. \A j \in expired' : invite'[j].state # "none"  BY <2>1, <2>3 DEF InviteInv
    <3>2. member' \subseteq Emails /\ session' \subseteq Emails  BY <2>2 DEF InviteInv
    <3> QED  BY <1>8, <1>9, <2>1, <2>3, <3>1, <3>2 DEF InviteInv
  <2>5. PICK s \in {"owed", "in"} : s = Standing(e)'
    BY <2>1 DEF Standing, Active, InviteInv
  <2>6. \A d \in Emails : d # e => Standing(d)' = Standing(d)
    BY <2>1, <2>2 DEF Standing, Active, InviteInv
  <2>7. Standings[e] = "out" /\ Standings' = [Standings EXCEPT ![e] = s]
    BY <1>7, <2>5, <2>6 DEF Standings, Standing, Active
  <2>8. i \notin Spent \cup Shut  BY <1>7 DEF Spent, Shut
  <2>9. Spent' = Spent \cup {i} /\ Shut' = Shut
    BY <1>7, <2>1, <2>3 DEF Spent, Shut
  <2>10. Joins(e, i)  BY <2>7, <2>8, <2>9 DEF Joins
  <2> QED  BY <2>4, <2>10 DEF Kept
<1> QED  BY <1>10, <1>11

LEMMA TooLateKeeps ==
  ASSUME InviteInv, NEW r \in Requests, TooLate(r) PROVE InviteInv' /\ Kept
<1>1. PICK q : q = request[r]  OBVIOUS
<1>2. /\ q.at # "idle" /\ q.at # "login"
      /\ request' = [request EXCEPT ![r] = Idle]
      /\ account' = [account EXCEPT ![q.email] = AccountOf(q)]
      /\ UNCHANGED <<invite, expired, practitioner, session, faults>>
  BY <1>1 DEF TooLate, tenantDb
<1>3. q.invite \in Invites /\ q.email \in Emails /\ q.password \in Passwords
  BY <1>1, <1>2, Carries
<1>4. PICK i \in Invites, e \in Emails : i = q.invite /\ e = q.email  BY <1>3
<1>5. PICK done \in BOOLEAN :
        /\ hosted' = [hosted EXCEPT ![q.invite] =
             [Bound(q) EXCEPT !.state = IF done THEN "accepted" ELSE @]]
        /\ member' = IF done THEN member \cup {q.email} ELSE member
  <2>1. PICK done \in BOOLEAN :
          done = (invite[q.invite] = [state |-> "used", by |-> q.email] /\ Active(q.email))
    OBVIOUS
  <2> QED  BY <1>1, <2>1 DEF TooLate
<1>6. hosted' = [hosted EXCEPT ![i] =
         [state |-> IF done THEN "accepted" ELSE "accepting", email |-> e, account |-> e]]
  <2>1. [Bound(q) EXCEPT !.state = IF done THEN "accepted" ELSE @]
          = [state |-> IF done THEN "accepted" ELSE "accepting", email |-> e, account |-> e]
    BY <1>4 DEF Bound
  <2> QED  BY <1>4, <1>5, <2>1
<1>7. /\ request' \in [Requests -> Waiting] /\ account' \in [Emails -> Passwords \cup {NoOne}]
  <2>1. Idle \in Waiting  BY DEF Waiting
  <2> QED  BY <1>2, <1>3, <2>1, RequestsWait, AccountsKept
<1>8. /\ hosted' \in [Invites -> [state : {"none", "pending", "accepting", "accepted", "revoked"},
                             email : Emails \cup {NoOne}, account : Emails \cup {NoOne}]]
      /\ \A j \in Invites : hosted'[j].state = "accepting" => hosted'[j].account # NoOne
  BY <1>6, NoOneAssumption DEF InviteInv
<1>9. member' \in {member, member \cup {e}}  BY <1>4, <1>5
<1>10. InviteInv'  BY <1>2, <1>7, <1>8, <1>9 DEF InviteInv
<1> QED  BY <1>2, <1>9, <1>10, MembersEnter

-----------------------------------------------------------------------------
LEMMA InviteInit == Init => InviteInv /\ Promise!Init
<1> SUFFICES ASSUME Init PROVE InviteInv /\ Promise!Init  OBVIOUS
<1>1. request \in [Requests -> Waiting]  BY DEF Init, Waiting
<1>2. hosted \in [Invites -> [state : {"none", "pending", "accepting", "accepted", "revoked"},
                             email : Emails \cup {NoOne}, account : Emails \cup {NoOne}]]
  BY DEF Init, NoHosted
<1>3. InviteInv  BY <1>1, <1>2, FaultAssumption DEF Init, InviteInv, NoHosted
<1> QED  BY <1>3 DEF Init, Promise!Init, Standing, Active

\* One step, whichever it is.
LEMMA InviteStep ==
  ASSUME InviteInv, [Next]_vars PROVE InviteInv' /\ Kept
<1>1. CASE UNCHANGED vars
  <2>1. InviteInv' /\ member' = member /\ UNCHANGED <<invite, expired, practitioner>>
    BY <1>1 DEF InviteInv, vars, tenantDb, registry
  <2> QED  BY <2>1, MembersEnter
<1>2. CASE Next
  <2>1. ASSUME NEW i \in Invites, Expire(i) \/ Revoke(i) \/ Reload(i) PROVE InviteInv' /\ Kept
    BY <2>1, ExpireKeeps, RevokeKeeps, ReloadKeeps
  <2>2. ASSUME NEW i \in Invites, NEW e \in Emails, Issue(i, e) PROVE InviteInv' /\ Kept
    BY <2>2, IssueKeeps
  <2>3. ASSUME NEW e \in Emails, RemoveMember(e) PROVE InviteInv' /\ Kept
    BY <2>3, RemoveMemberKeeps
  <2>4. ASSUME NEW r \in Requests, NEW i \in Invites, NEW e \in Emails, NEW p \in Passwords,
               Present(r, i, e, p)
        PROVE  InviteInv' /\ Kept
    BY <2>4, PresentKeeps
  <2>5. ASSUME NEW r \in Requests, NEW e \in Emails, NEW p \in Passwords, Login(r, e, p)
        PROVE  InviteInv' /\ Kept
    BY <2>5, LoginKeeps
  <2>6. ASSUME NEW r \in Requests, Verify(r) \/ Refuse(r) \/ Accept(r) \/ TooLate(r) \/ SignIn(r)
        PROVE  InviteInv' /\ Kept
    BY <2>6, VerifyKeeps, RefuseKeeps, AcceptKeeps, TooLateKeeps, SignInKeeps
  <2>7. CASE Crash  BY <2>7, CrashKeeps
  <2> QED  BY <1>2, <2>1, <2>2, <2>3, <2>4, <2>5, <2>6, <2>7 DEF Next
<1> QED  BY <1>1, <1>2

\* In every state the variables have their types, an invitation was made before
\* it expired, and one that is being accepted is bound to an account
\* (prepareHostedInviteAcceptance).
THEOREM InviteInvariant == Spec => []InviteInv
<1>1. Init => InviteInv  BY InviteInit
<1>2. InviteInv /\ [Next]_vars => InviteInv'  BY InviteStep
<1> QED  BY <1>1, <1>2, PTL DEF Spec

\* acceptInvite over the practice's database and the registry keeps the promise of
\* one: nobody gets in but by an open invitation, an invitation lets one person
\* in, and whoever claimed it is in, or owed it, until removed.
THEOREM InvitationsKeepThePromise == Spec => KeepsThePromise
<1>1. Init => InviteInv /\ Promise!Init  BY InviteInit
<1>2. InviteInv /\ [Next]_vars => InviteInv' /\ Kept  BY InviteStep
<1>3. Kept => [Promise!Next]_(Promise!promise)  BY KeptIsPromised
<1> QED  BY <1>1, <1>2, <1>3, PTL DEF Spec, KeepsThePromise, Promise!Spec

================================================================================
