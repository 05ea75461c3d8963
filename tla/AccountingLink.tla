---------------------------- MODULE AccountingLink ----------------------------
(***************************************************************************)
(* A practice's link to Xero or QuickBooks (src/xero-views.js,              *)
(* src/quickbooks-views.js, src/integrations-sync.js): the pair of tokens   *)
(* in the table `connection`, the refresh that spends one refresh token for *)
(* the next, and the client book read through it into the table `client`.   *)
(* Every call awaits the provider several times, and other handlers run     *)
(* meanwhile; the process may end while the provider's answer is under way. *)
(* A client list is a function from names, folded, to addresses.            *)
(***************************************************************************)
EXTENDS Naturals, FiniteSets

CONSTANTS
  Call,        \* handlers that may talk to the provider at one time
  Client,      \* ids of rows of `client`
  Name,        \* client names, as they compare without case
  Listed,      \* those of them the provider knows
  Address,     \* email addresses
  Company,     \* companies the practice may approve (realmId; one for all of Xero)
  None,        \* an empty address, a free row, no link
  MaxGrant,    \* approvals at the provider
  MaxToken,    \* refresh tokens per approval
  MaxFaults    \* processes that end, answers that are lost

ASSUME BoundAssumption == MaxGrant \in Nat /\ MaxToken \in Nat \ {0} /\ MaxFaults \in Nat
ASSUME ListedAssumption == Listed \subseteq Name
ASSUME FiniteAssumption == IsFiniteSet(Client) /\ IsFiniteSet(Name)

Grant == 1 .. MaxGrant
Token == 1 .. MaxToken
Mail  == Address \union {None}
Lists == UNION {[names -> Mail] : names \in SUBSET Listed}
NoRows == [n \in {} |-> None]

Reading == {"sync", "quiet", "preview"}
Links == [grant : Grant, token : Token, company : Company,
          fresh : BOOLEAN, recent : BOOLEAN]
Rows  == [name : Name, email : Mail]

ASSUME NoneAssumption ==
  None \notin Client \union Name \union Address \union Company \union Links \union Rows

VARIABLES
  link,       \* the row of `connection`, or None
  call,       \* what each handler is doing and holds
  syncing,    \* integrations-sync.js: a quiet refresh is under way
  book,       \* the rows of `client`
  approved,   \* at the provider: the company of each approval
  live,       \* at the provider: the refresh token of each approval that is good
  lost,       \* approvals of which an answer never arrived
  faults

linkVars == <<link, syncing>>
providerVars == <<approved, live>>
faultVars == <<lost, faults>>
vars == <<link, call, syncing, book, approved, live, lost, faults>>

Idle == [kind |-> "none", at |-> "idle", grant |-> 0, token |-> 0, company |-> None, rows |-> NoRows]

Init ==
  /\ link = None
  /\ call = [c \in Call |-> Idle]
  /\ syncing = FALSE
  /\ book = [k \in Client |-> None]
  /\ approved = [g \in Grant |-> None]
  /\ live = [g \in Grant |-> 0]
  /\ lost = {}
  /\ faults = 0

-----------------------------------------------------------------------------
(* The client book. *)

Known == {k \in Client : book[k] # None}
Named(n) == {k \in Known : book[k].name = n}

\* What importClients makes of a list when the names of `missing` go to the rows `at`.
\* An empty address does not erase one.
Merged(rows, missing, at) ==
  [k \in Client |->
     IF \E n \in missing : at[n] = k
     THEN LET n == CHOOSE m \in missing : at[m] = k IN [name |-> n, email |-> rows[n]]
     ELSE IF book[k] # None /\ book[k].name \in DOMAIN rows /\ rows[book[k].name] # None
     THEN [book[k] EXCEPT !.email = rows[book[k].name]]
     ELSE book[k]]

NewIds(missing) == {at \in [missing -> Client \ Known] : \A m, n \in missing : at[m] = at[n] => m = n}

ImportClients(rows) ==
  LET missing == {n \in DOMAIN rows : Named(n) = {}}
  IN \E at \in NewIds(missing) : book' = Merged(rows, missing, at)

\* createRequest: the name of a new request finds or makes its client.
NameClient(n, mail) ==
  /\ ImportClients([m \in {n} |-> mail])
  /\ UNCHANGED <<linkVars, call, providerVars, faultVars>>

\* Mutant: a client is given a name that another has.
UpdateAnyway(k, n, mail) ==
  /\ k \in Known
  /\ book' = [book EXCEPT ![k] = [name |-> n, email |-> mail]]
  /\ book' # book
  /\ UNCHANGED <<linkVars, call, providerVars, faultVars>>

\* saveClient: two clients may not have one name.
UpdateClient(k, n, mail) ==
  /\ k \in Known
  /\ Named(n) \subseteq {k}
  /\ book' = [book EXCEPT ![k] = [name |-> n, email |-> mail]]
  /\ book' # book
  /\ UNCHANGED <<linkVars, call, providerVars, faultVars>>

-----------------------------------------------------------------------------
(* The handlers that talk to the provider. *)

\* The `finally` of a quiet refresh.
Release(c) == syncing' = (syncing /\ call[c].kind # "quiet")
Finish(c) == call' = [call EXCEPT ![c] = Idle] /\ Release(c)
Go(c, changes) ==
  /\ call' = [call EXCEPT ![c] =
       [f \in DOMAIN call[c] |-> IF f \in DOMAIN changes THEN changes[f] ELSE call[c][f]]]
  /\ UNCHANGED syncing

\* freshAccessToken: a token that lasts another minute is used as it is.
NextStop == IF link.fresh THEN [at |-> "reading", token |-> 0] ELSE [at |-> "refreshing", token |-> link.token]

\* A handler starts from the row as it is now, and uses it later.
Begin(c, kind) ==
  /\ call[c] = Idle
  /\ link # None
  /\ call' = [call EXCEPT ![c] = [kind |-> kind, at |-> NextStop.at, grant |-> link.grant,
                                  token |-> NextStop.token, company |-> link.company, rows |-> NoRows]]
  /\ UNCHANGED <<link, book, providerVars, faultVars>>

\* The button "Sync now", and the import that shows first what it would do.
SyncNow(c) == Begin(c, "sync") /\ UNCHANGED syncing
Preview(c) == Begin(c, "preview") /\ UNCHANGED syncing

\* A page of the board or of the clients is opened when the book is an hour old.
MaybeSyncOnActivity(c) ==
  /\ Begin(c, "quiet")
  /\ ~link.recent
  /\ ~syncing
  /\ syncing' = TRUE

\* The provider's side of a refresh: the token is good once, and the answer carries the next.
RefreshTokens(c) ==
  /\ call[c].at = "refreshing"
  /\ call[c].token = live[call[c].grant]
  /\ live[call[c].grant] < MaxToken
  /\ live' = [live EXCEPT ![call[c].grant] = @ + 1]
  /\ Go(c, [at |-> "answered", token |-> call[c].token + 1])
  /\ UNCHANGED <<link, book, approved, faultVars>>

\* The callback: a code is good once, and stands for an approval of one company.
ExchangeCode(c, company) ==
  /\ call[c] = Idle
  /\ \E g \in Grant :
       /\ \A h \in Grant : approved[h] = None <=> h >= g
       /\ approved' = [approved EXCEPT ![g] = company]
       /\ live' = [live EXCEPT ![g] = 1]
       /\ Go(c, [kind |-> "connect", at |-> "answered", grant |-> g, token |-> 1, company |-> company])
  /\ UNCHANGED <<link, book, faultVars>>

\* The row a handler writes: what it was given, and the time of the last sync as it stands.
Row(c, token, company) ==
  [grant |-> call[c].grant, token |-> token, company |-> company, fresh |-> TRUE,
   recent |-> link # None /\ link.recent]

\* Mutant: a refresh keeps the refresh token it has used.
SavedOldToken(c) ==
  Row(c, IF call[c].kind = "connect" \/ link = None THEN call[c].token ELSE link.token, call[c].company)

\* Mutant: the tokens are stored, and the company of the row stays.
SavedTokensAlone(c) == Row(c, call[c].token, IF link = None THEN call[c].company ELSE link.company)

Saved(c) == Row(c, call[c].token, call[c].company)

\* saveConnection: the row is updated, or made when there is none (any more).
SaveConnection(c) ==
  /\ call[c].at = "answered"
  /\ link' = Saved(c)
  /\ IF call[c].kind = "connect" THEN Finish(c) ELSE Go(c, [at |-> "reading", token |-> 0])
  /\ UNCHANGED <<book, providerVars, faultVars>>

\* The provider's list, for the company the token was given for.
FetchClients(c, rows) ==
  /\ call[c].at = "reading"
  /\ call[c].company = approved[call[c].grant]
  /\ Go(c, [at |-> IF call[c].kind = "preview" THEN "shown" ELSE "read", rows |-> rows,
            grant |-> 0, token |-> 0, company |-> None])
  /\ UNCHANGED <<link, book, providerVars, faultVars>>

Ends(c) == call[c].at \in {"refreshing", "reading"}

\* The provider refuses, or cannot be reached.
Fails(c) == Ends(c) /\ Finish(c) /\ UNCHANGED <<link, book, providerVars, faultVars>>

\* syncProvider: the list is imported and the row, if there is one still, is stamped.
Sync(c) ==
  /\ call[c].at = "read"
  /\ ImportClients(call[c].rows)
  /\ link' = IF link = None THEN None ELSE [link EXCEPT !.recent = TRUE]
  /\ Finish(c)
  /\ UNCHANGED <<providerVars, faultVars>>

\* The button under a preview: the rows come back with the form, which is refused
\* when there is no link by then.
RunImport(c) ==
  /\ call[c].at = "shown"
  /\ link # None
  /\ ImportClients(call[c].rows)
  /\ Finish(c)
  /\ UNCHANGED <<link, providerVars, faultVars>>

CancelImport(c) ==
  /\ call[c].at = "shown"
  /\ Finish(c)
  /\ UNCHANGED <<link, book, providerVars, faultVars>>

DeleteConnection ==
  /\ link # None
  /\ link' = None
  /\ UNCHANGED <<call, syncing, book, providerVars, faultVars>>

-----------------------------------------------------------------------------
(* Time and faults. *)

TokenExpires ==
  /\ link # None /\ link.fresh
  /\ link' = [link EXCEPT !.fresh = FALSE]
  /\ UNCHANGED <<call, syncing, book, providerVars, faultVars>>

AnHourPasses ==
  /\ link # None /\ link.recent
  /\ link' = [link EXCEPT !.recent = FALSE]
  /\ UNCHANGED <<call, syncing, book, providerVars, faultVars>>

Fault == faults < MaxFaults /\ faults' = faults + 1

\* The provider has spent the token, and its answer does not arrive.
AnswerLost(c) ==
  /\ Fault
  /\ call[c].at = "answered"
  /\ lost' = lost \union {call[c].grant}
  /\ Finish(c)
  /\ UNCHANGED <<link, book, providerVars>>

\* The process ends: what its handlers held is gone, previews stay in their browsers.
Crash ==
  /\ Fault
  /\ lost' = lost \union {call[c].grant : c \in {d \in Call : call[d].at = "answered"}}
  /\ call' = [c \in Call |-> IF call[c].at = "shown" THEN call[c] ELSE Idle]
  /\ syncing' = FALSE
  /\ UNCHANGED <<link, book, providerVars>>

-----------------------------------------------------------------------------
BookStep ==
  \/ \E n \in Name, mail \in Mail : NameClient(n, mail)
  \/ \E k \in Client, n \in Name, mail \in Mail : UpdateClient(k, n, mail)

LinkStep == DeleteConnection \/ TokenExpires \/ AnHourPasses \/ Crash

Proceed(c) ==
  \/ RefreshTokens(c) \/ SaveConnection(c) \/ Fails(c) \/ Sync(c)
  \/ \E rows \in Lists : FetchClients(c, rows)

Start(c) ==
  \/ SyncNow(c) \/ Preview(c) \/ MaybeSyncOnActivity(c)
  \/ \E company \in Company : ExchangeCode(c, company)
  \/ RunImport(c) \/ CancelImport(c) \/ AnswerLost(c)

Next == BookStep \/ LinkStep \/ \E c \in Call : Proceed(c) \/ Start(c)

Spec == Init /\ [][Next]_vars

-----------------------------------------------------------------------------
(* Properties. *)

CallOK(c) ==
  /\ call[c].kind \in Reading \union {"none", "connect"}
  /\ call[c].at \in {"idle", "refreshing", "answered", "reading", "read", "shown"}
  /\ call[c].at = "idle" <=> call[c] = Idle
  /\ call[c].at \in {"refreshing", "answered"} => call[c].token \in Token
  /\ call[c].at \in {"refreshing", "answered", "reading"} => call[c].grant \in Grant /\ call[c].company \in Company
  /\ call[c].rows \in Lists

TypeOK ==
  /\ link \in Links \union {None}
  /\ \A c \in Call : CallOK(c)
  /\ syncing \in BOOLEAN
  /\ book \in [Client -> Rows \union {None}]
  /\ approved \in [Grant -> Company \union {None}]
  /\ live \in [Grant -> 0 .. MaxToken]
  /\ lost \subseteq Grant
  /\ faults \in 0 .. MaxFaults

(* Unless an answer was lost, the refresh token in the row is good, or the     *)
(* one that replaces it is in the hands of a handler that will store it: two   *)
(* refreshes at once, a new approval or an unlinking never leave the practice  *)
(* with a token that was spent (freshAccessToken stores the pair at once).     *)
NotLockedOut ==
  link # None /\ link.grant \notin lost =>
    \/ link.token = live[link.grant]
    \/ \E c \in Call :
         call[c].at = "answered" /\ call[c].grant = link.grant /\ call[c].token = live[link.grant]

(* Tokens are used and kept with the company they were given for, whichever    *)
(* approvals and refreshes cross (external_id travels with the pair).          *)
TokensKeepTheirCompany ==
  /\ link # None => link.company = approved[link.grant]
  /\ \A c \in Call : call[c].at \in {"refreshing", "answered", "reading"} =>
       call[c].company = approved[call[c].grant]

(* There is one client of a name, although syncs, previews confirmed late,     *)
(* new requests and renamings all write to the book and no index says so.      *)
OneNameOneClient == \A n \in Name : Cardinality(Named(n)) <= 1

=============================================================================
