------------------------ MODULE AccountingLinkProofs ------------------------
(* For any number of handlers, approvals, tokens, clients and faults: a        *)
(* practice is locked out only by an answer that was lost, tokens stay with    *)
(* the company they were given for, and a name has one client.  And for any     *)
(* files, keys, names and pages: a file moved from key to key is opened by the  *)
(* key its row names, and holds what it held; an archive the page builds is     *)
(* read back by its own offsets, each file once, under a name of its own.  The  *)
(* two parts share nothing.                                                     *)
EXTENDS AccountingLink, PracticePage, FiniteSetTheorems, WellFoundedInduction, TLAPS

\* What a handler holds.
Held == [kind : Reading \union {"none", "connect"},
         at : {"idle", "refreshing", "answered", "reading", "read", "shown"},
         grant : Grant \union {0}, token : Token \union {0},
         company : Company \union {None}, rows : Lists]

LinkTypes == TypeOK /\ call \in [Call -> Held]

\* No refresh token is ahead of the provider's.  One that was answered is the good
\* one, and nobody else has it: neither the row nor a handler that read the row.
TokensInHand ==
  /\ link # None => link.token <= live[link.grant]
  /\ \A d \in Call : call[d].at = "refreshing" => call[d].token <= live[call[d].grant]
  /\ \A c \in Call : call[c].at = "answered" =>
       /\ call[c].token = live[call[c].grant]
       /\ link # None /\ link.grant = call[c].grant => link.token < call[c].token
       /\ \A d \in Call \ {c} :
            call[d].at \in {"refreshing", "answered"} /\ call[d].grant = call[c].grant =>
              call[d].at = "refreshing" /\ call[d].token < call[c].token

\* Two clients have two names.
NamesDiffer == \A j, k \in Known : book[j].name = book[k].name => j = k

\* The inductive invariant.
LinkInv ==
  /\ LinkTypes
  /\ TokensKeepTheirCompany
  /\ TokensInHand
  /\ NotLockedOut
  /\ NamesDiffer
-----------------------------------------------------------------------------
(* The tokens.                                                                 *)

Tokens == TokensKeepTheirCompany /\ TokensInHand /\ NotLockedOut

\* A step that takes no token: the row goes or keeps its tokens, and whoever moves
\* has no token after it.  What was answered is lost if it is not kept.
Quiet ==
  /\ approved' = approved /\ live' = live
  /\ link' = None \/ (/\ link # None /\ link' # None
                      /\ link'.grant = link.grant /\ link'.token = link.token
                      /\ link'.company = link.company)
  /\ \A c \in Call : call'[c] = call[c] \/ call'[c].at \notin {"refreshing", "answered", "reading"}
  /\ lost \subseteq lost'
  /\ \A c \in Call : call[c].at = "answered" /\ call'[c] # call[c] => call[c].grant \in lost'

LEMMA QuietKeepsTokens ==
  ASSUME Tokens, Quiet
  PROVE  Tokens'
<1>1. TokensKeepTheirCompany'
  BY DEF Tokens, Quiet, TokensKeepTheirCompany
<1>2. TokensInHand'
  <2>1. \A d \in Call : call'[d].at \in {"refreshing", "answered"} => call'[d] = call[d]
    BY DEF Quiet
  <2> QED  BY <2>1 DEF Tokens, Quiet, TokensInHand
<1>3. NotLockedOut'
  <2> SUFFICES ASSUME link' # None, link'.grant \notin lost', link'.token # live[link'.grant]
               PROVE  \E c \in Call : /\ call'[c].at = "answered" /\ call'[c].grant = link'.grant
                                      /\ call'[c].token = live[link'.grant]
    BY DEF NotLockedOut, Quiet
  <2>1. PICK c \in Call : /\ call[c].at = "answered" /\ call[c].grant = link'.grant
                          /\ call[c].token = live[link'.grant]
    BY DEF Tokens, NotLockedOut, Quiet
  <2>2. call'[c] = call[c]  BY <2>1 DEF Quiet
  <2> QED  BY <2>1, <2>2
<1> QED  BY <1>1, <1>2, <1>3 DEF Tokens

\* One handler goes on, with what it holds now.
Proceeds(c, new) ==
  /\ call' = [call EXCEPT ![c] = new]
  /\ new \in Held
  /\ new.at = "idle" <=> new = Idle
  /\ new.at \in {"refreshing", "answered"} => new.token \in Token
  /\ new.at \in {"refreshing", "answered", "reading"} => new.grant \in Grant /\ new.company \in Company
  /\ syncing' \in BOOLEAN

LEMMA MovesAre ==
  ASSUME LinkTypes, NEW c \in Call, NEW new, Proceeds(c, new)
  PROVE  /\ call'[c] = new /\ \A d \in Call : d # c => call'[d] = call[d]
         /\ call' \in [Call -> Held] /\ \A d \in Call : CallOK(d)'
         /\ syncing' \in BOOLEAN
<1>1. call'[c] = new /\ (\A d \in Call : d # c => call'[d] = call[d]) /\ call' \in [Call -> Held]
  BY DEF LinkTypes, Proceeds
<1>2. ASSUME NEW d \in Call PROVE CallOK(d)'
  <2>1. CASE d = c  BY <1>1, <2>1 DEF Proceeds, CallOK, Held
  <2>2. CASE d # c  BY <1>1, <2>2 DEF LinkTypes, TypeOK, CallOK
  <2> QED  BY <2>1, <2>2
<1> QED  BY <1>1, <1>2 DEF Proceeds

\* Go changes the fields it is given.
LEMMA GoesOn ==
  ASSUME LinkTypes, NEW c \in Call, NEW changes, Go(c, changes),
         DOMAIN changes \subseteq {"kind", "at", "grant", "token", "company", "rows"}
  PROVE  \E new : /\ call' = [call EXCEPT ![c] = new]
                  /\ new = [kind    |-> IF "kind" \in DOMAIN changes THEN changes["kind"] ELSE call[c].kind,
                            at      |-> IF "at" \in DOMAIN changes THEN changes["at"] ELSE call[c].at,
                            grant   |-> IF "grant" \in DOMAIN changes THEN changes["grant"] ELSE call[c].grant,
                            token   |-> IF "token" \in DOMAIN changes THEN changes["token"] ELSE call[c].token,
                            company |-> IF "company" \in DOMAIN changes THEN changes["company"] ELSE call[c].company,
                            rows    |-> IF "rows" \in DOMAIN changes THEN changes["rows"] ELSE call[c].rows]
                  /\ syncing' \in BOOLEAN
<1>1. call[c] \in Held /\ syncing \in BOOLEAN  BY DEF LinkTypes, TypeOK
<1>2. DOMAIN call[c] = {"kind", "at", "grant", "token", "company", "rows"}  BY <1>1 DEF Held
<1> DEFINE new == [f \in {"kind", "at", "grant", "token", "company", "rows"} |->
                     IF f \in DOMAIN changes THEN changes[f] ELSE call[c][f]]
<1>3. call' = [call EXCEPT ![c] = new]  BY <1>2 DEF Go
<1>4. new = [kind    |-> IF "kind" \in DOMAIN changes THEN changes["kind"] ELSE call[c].kind,
             at      |-> IF "at" \in DOMAIN changes THEN changes["at"] ELSE call[c].at,
             grant   |-> IF "grant" \in DOMAIN changes THEN changes["grant"] ELSE call[c].grant,
             token   |-> IF "token" \in DOMAIN changes THEN changes["token"] ELSE call[c].token,
             company |-> IF "company" \in DOMAIN changes THEN changes["company"] ELSE call[c].company,
             rows    |-> IF "rows" \in DOMAIN changes THEN changes["rows"] ELSE call[c].rows]
  OBVIOUS
<1> QED  BY <1>1, <1>3, <1>4 DEF Go

LEMMA IdleIsHeld == Idle \in Held /\ NoRows \in Lists
<1>1. NoRows \in [{} -> Mail]  BY DEF NoRows
<1>2. NoRows \in Lists  BY <1>1 DEF Lists
<1> QED  BY <1>2 DEF Idle, Held

LEMMA FinishMoves ==
  ASSUME LinkTypes, NEW c \in Call, Finish(c)
  PROVE  Proceeds(c, Idle)
<1>1. syncing' \in BOOLEAN  BY DEF Finish, Release, LinkTypes, TypeOK
<1> QED  BY <1>1, IdleIsHeld DEF Finish, Proceeds, Idle

-----------------------------------------------------------------------------
(* The client book.                                                            *)

\* A list is imported: names that are missing get rows of their own.
LEMMA ImportKeepsBook ==
  ASSUME TypeOK, NamesDiffer, NEW given, ImportClients(given),
         DOMAIN given \subseteq Name, \A n \in DOMAIN given : given[n] \in Mail
  PROVE  book' \in [Client -> Rows \union {None}] /\ NamesDiffer'
<1> DEFINE missing == {n \in DOMAIN given : Named(n) = {}}
<1>1. PICK at \in NewIds(missing) : book' = Merged(given, missing, at)
  BY DEF ImportClients
<1>2. /\ at \in [missing -> Client \ Known]
      /\ \A m, n \in missing : at[m] = at[n] => m = n
  BY DEF NewIds
<1>3. book \in [Client -> Rows \union {None}]  BY DEF TypeOK, Rows
<1>4. ASSUME NEW k \in Known
      PROVE  k \in Client /\ book[k] \in Rows /\ book[k].name \notin missing
  <2>1. k \in Client /\ book[k] \in Rows  BY <1>3 DEF Known
  <2>2. k \in Named(book[k].name)  BY DEF Named
  <2> QED  BY <2>1, <2>2
<1> HIDE DEF missing
<1>5. missing \subseteq DOMAIN given  BY DEF missing
<1>6. ASSUME NEW k \in Client
      PROVE  \/ /\ k \notin Known
                /\ \E n \in missing : at[n] = k /\ book'[k] = [name |-> n, email |-> given[n]]
             \/ /\ k \in Known
                /\ book'[k] \in Rows /\ book'[k].name = book[k].name
             \/ k \notin Known /\ book'[k] = None
  <2>1. CASE \E n \in missing : at[n] = k
    <3>1. k \notin Known  BY <1>2, <2>1
    <3> DEFINE m == CHOOSE m \in missing : at[m] = k
    <3>2. m \in missing /\ at[m] = k  BY <2>1
    <3>3. book'[k] = [name |-> m, email |-> given[m]]  BY <1>1, <2>1 DEF Merged
    <3> QED  BY <3>1, <3>2, <3>3
  <2>2. CASE ~\E n \in missing : at[n] = k
    <3>1. CASE k \in Known
      <4>1. book[k] \in Rows /\ book[k] # None  BY <1>4, <3>1 DEF Known
      <4>2. \A mail \in Mail : [book[k] EXCEPT !.email = mail] \in Rows /\ [book[k] EXCEPT !.email = mail].name = book[k].name
        BY <4>1 DEF Rows
      <4>3. book'[k] = IF book[k] # None /\ book[k].name \in DOMAIN given /\ given[book[k].name] # None
                       THEN [book[k] EXCEPT !.email = given[book[k].name]] ELSE book[k]
        BY <1>1, <2>2 DEF Merged
      <4> QED  BY <3>1, <4>1, <4>2, <4>3
    <3>2. CASE k \notin Known
      <4>1. book[k] = None  BY <3>2 DEF Known
      <4> QED  BY <1>1, <2>2, <3>2, <4>1 DEF Merged
    <3> QED  BY <3>1, <3>2
  <2> QED  BY <2>1, <2>2
<1>7. ASSUME NEW k \in Client PROVE book'[k] \in Rows \union {None}
  <2>1. \A n \in missing : [name |-> n, email |-> given[n]] \in Rows  BY <1>5 DEF Rows
  <2> QED  BY <1>6, <2>1
<1>8. book' \in [Client -> Rows \union {None}]
  <2>1. book' = [k \in Client |-> book'[k]]  BY <1>1 DEF Merged
  <2> QED  BY <1>7, <2>1
<1>9. ASSUME NEW j \in Client, NEW k \in Client, book'[j] # None, book'[k] # None,
             book'[j].name = book'[k].name
      PROVE  j = k
  <2>1. CASE j \in Known /\ k \in Known  BY <1>6, <1>9, <2>1 DEF NamesDiffer
  <2>2. CASE j \notin Known /\ k \notin Known
    <3>1. PICK m \in missing : at[m] = j /\ book'[j] = [name |-> m, email |-> given[m]]
      BY <1>6, <1>9, <2>2
    <3>2. PICK n \in missing : at[n] = k /\ book'[k] = [name |-> n, email |-> given[n]]
      BY <1>6, <1>9, <2>2
    <3> QED  BY <1>9, <3>1, <3>2
  <2>3. ASSUME NEW o \in Client, NEW w \in Client, o \in Known, w \notin Known, book'[w] # None
        PROVE  book'[o].name # book'[w].name
    <3>1. PICK n \in missing : at[n] = w /\ book'[w] = [name |-> n, email |-> given[n]]
      BY <1>6, <2>3
    <3>2. book'[o].name = book[o].name /\ book[o].name \notin missing  BY <1>4, <1>6, <2>3
    <3> QED  BY <3>1, <3>2
  <2> QED  BY <1>9, <2>1, <2>2, <2>3
<1>10. NamesDiffer'  BY <1>9 DEF NamesDiffer, Known
<1> QED  BY <1>8, <1>10

LEMMA ListsAreOfNames ==
  \A given \in Lists : DOMAIN given \subseteq Name /\ \A n \in DOMAIN given : given[n] \in Mail
BY ListedAssumption DEF Lists

\* Only the book moves.
LEMMA BookKeeps ==
  ASSUME LinkInv, BookStep
  PROVE  LinkInv'
<1>1. /\ link' = link /\ syncing' = syncing /\ call' = call /\ approved' = approved
      /\ live' = live /\ lost' = lost /\ faults' = faults
  BY DEF BookStep, NameClient, UpdateClient, linkVars, providerVars, faultVars
<1>2. book' \in [Client -> Rows \union {None}] /\ NamesDiffer'
  <2>1. ASSUME NEW n \in Name, NEW mail \in Mail, NameClient(n, mail)
        PROVE  book' \in [Client -> Rows \union {None}] /\ NamesDiffer'
    <3> DEFINE given == [m \in {n} |-> mail]
    <3>1. DOMAIN given \subseteq Name /\ \A m \in DOMAIN given : given[m] \in Mail  OBVIOUS
    <3>2. ImportClients(given)  BY <2>1 DEF NameClient
    <3> HIDE DEF given
    <3> QED  BY <3>1, <3>2, ImportKeepsBook DEF LinkInv, LinkTypes
  <2>2. ASSUME NEW k \in Client, NEW n \in Name, NEW mail \in Mail, UpdateClient(k, n, mail)
        PROVE  book' \in [Client -> Rows \union {None}] /\ NamesDiffer'
    <3>1. book \in [Client -> Rows \union {None}]  BY DEF LinkInv, LinkTypes, TypeOK, Rows
    <3>2. /\ k \in Known /\ Named(n) \subseteq {k}
          /\ book' = [book EXCEPT ![k] = [name |-> n, email |-> mail]]
      BY <2>2 DEF UpdateClient
    <3>3. book' \in [Client -> Rows \union {None}]  BY <3>1, <3>2 DEF Rows
    <3>4. \A j \in Known : j # k => book[j].name # n  BY <3>2 DEF Named
    <3>5. NamesDiffer'
      BY <3>1, <3>2, <3>4 DEF NamesDiffer, Known, LinkInv
    <3> QED  BY <3>3, <3>5
  <2> QED  BY <2>1, <2>2 DEF BookStep
<1>3. LinkTypes'
  BY <1>1, <1>2 DEF LinkInv, LinkTypes, TypeOK, CallOK, Rows
<1>4. TokensKeepTheirCompany' /\ TokensInHand' /\ NotLockedOut'
  BY <1>1 DEF LinkInv, TokensKeepTheirCompany, TokensInHand, NotLockedOut
<1> QED  BY <1>2, <1>3, <1>4 DEF LinkInv

-----------------------------------------------------------------------------
(* The steps that take no token.                                               *)

LEMMA TypesOf ==
  ASSUME link' \in Links \union {None}, \A d \in Call : CallOK(d)', call' \in [Call -> Held],
         syncing' \in BOOLEAN, book' \in [Client -> Rows \union {None}],
         approved' \in [Grant -> Company \union {None}], live' \in [Grant -> 0 .. MaxToken],
         lost' \subseteq Grant, faults' \in 0 .. MaxFaults
  PROVE  LinkTypes'
BY DEF LinkTypes, TypeOK, Rows

\* A handler goes on without a token, after an answer that is lost or none.
LEMMA HandlersWithoutTokensKeep ==
  ASSUME LinkInv, NEW c \in Call, NEW new, Proceeds(c, new),
         new.at \notin {"refreshing", "answered", "reading"},
         approved' = approved, live' = live,
         link' = link \/ (link # None /\ link' = [link EXCEPT !.recent = TRUE]),
         lost \subseteq lost', lost' \subseteq Grant, faults' \in 0 .. MaxFaults,
         call[c].at = "answered" => call[c].grant \in lost',
         book' \in [Client -> Rows \union {None}], NamesDiffer'
  PROVE  LinkInv'
<1>1. /\ call'[c] = new /\ \A d \in Call : d # c => call'[d] = call[d]
      /\ call' \in [Call -> Held] /\ \A d \in Call : CallOK(d)'
      /\ syncing' \in BOOLEAN
  BY MovesAre DEF LinkInv
<1>3. /\ link' \in Links \union {None}
      /\ link' = None \/ (/\ link # None /\ link' # None
                          /\ link'.grant = link.grant /\ link'.token = link.token
                          /\ link'.company = link.company)
  <2>1. CASE link' = link  BY <2>1 DEF LinkInv, LinkTypes, TypeOK
  <2>2. CASE link # None /\ link' = [link EXCEPT !.recent = TRUE]
    <3>1. link \in Links  BY <2>2 DEF LinkInv, LinkTypes, TypeOK
    <3>2. link' \in Links /\ link'.grant = link.grant /\ link'.token = link.token /\ link'.company = link.company
      BY <2>2, <3>1 DEF Links
    <3> QED  BY <2>2, <3>2, NoneAssumption
  <2> QED  BY <2>1, <2>2
<1>4. Quiet  BY <1>1, <1>3 DEF Quiet
<1>5. Tokens'  BY <1>4, QuietKeepsTokens DEF LinkInv, Tokens
<1>6. LinkTypes'  BY <1>1, <1>3, TypesOf DEF LinkInv, LinkTypes, TypeOK
<1> QED  BY <1>5, <1>6 DEF LinkInv, Tokens

LEMMA BookStands ==
  ASSUME LinkInv, book' = book
  PROVE  book' \in [Client -> Rows \union {None}] /\ NamesDiffer'
BY DEF LinkInv, LinkTypes, TypeOK, Rows, NamesDiffer, Known

LEMMA QuietHandlersKeep ==
  ASSUME LinkInv, NEW c \in Call,
         \/ Fails(c) \/ Sync(c) \/ RunImport(c) \/ CancelImport(c) \/ AnswerLost(c)
         \/ \E given \in Lists : FetchClients(c, given)
  PROVE  LinkInv'
<1> USE DEF linkVars, providerVars, faultVars
<1>1. LinkTypes /\ faults \in 0 .. MaxFaults /\ lost \subseteq Grant /\ call[c] \in Held
  BY DEF LinkInv, LinkTypes, TypeOK
<1>2. Finish(c) => Proceeds(c, Idle) /\ Idle.at = "idle"
  BY <1>1, FinishMoves DEF Idle
<1>3. CASE Fails(c)
  <2>1. book' \in [Client -> Rows \union {None}] /\ NamesDiffer'
    BY <1>3, BookStands DEF Fails
  <2> QED
    BY <1>1, <1>2, <1>3, <2>1, HandlersWithoutTokensKeep DEF Fails, Ends
<1>4. CASE Sync(c)
  <2>1. call[c].rows \in Lists  BY <1>1 DEF Held
  <2>2. book' \in [Client -> Rows \union {None}] /\ NamesDiffer'
    BY <1>1, <1>4, <2>1, ListsAreOfNames, ImportKeepsBook DEF Sync, LinkInv, LinkTypes
  <2> QED
    BY <1>1, <1>2, <1>4, <2>2, HandlersWithoutTokensKeep DEF Sync
<1>5. CASE RunImport(c)
  <2>1. call[c].rows \in Lists  BY <1>1 DEF Held
  <2>2. book' \in [Client -> Rows \union {None}] /\ NamesDiffer'
    BY <1>1, <1>5, <2>1, ListsAreOfNames, ImportKeepsBook DEF RunImport, LinkInv, LinkTypes
  <2> QED
    BY <1>1, <1>2, <1>5, <2>2, HandlersWithoutTokensKeep DEF RunImport
<1>6. CASE CancelImport(c)
  <2>1. book' \in [Client -> Rows \union {None}] /\ NamesDiffer'
    BY <1>6, BookStands DEF CancelImport
  <2> QED
    BY <1>1, <1>2, <1>6, <2>1, HandlersWithoutTokensKeep DEF CancelImport
<1>7. CASE AnswerLost(c)
  <2>1. book' \in [Client -> Rows \union {None}] /\ NamesDiffer'
    BY <1>7, BookStands DEF AnswerLost
  <2>2. call[c].grant \in Grant  BY <1>1, <1>7 DEF AnswerLost, LinkTypes, TypeOK, CallOK
  <2>3. faults' \in 0 .. MaxFaults  BY <1>1, <1>7, BoundAssumption DEF AnswerLost, Fault
  <2> QED
    BY <1>1, <1>2, <1>7, <2>1, <2>2, <2>3, HandlersWithoutTokensKeep DEF AnswerLost
<1>8. ASSUME NEW given \in Lists, FetchClients(c, given) PROVE LinkInv'
  <2>1. book' \in [Client -> Rows \union {None}] /\ NamesDiffer'
    BY <1>8, BookStands DEF FetchClients
  <2>2. PICK to \in {"shown", "read"} :
          Go(c, [at |-> to, rows |-> given, grant |-> 0, token |-> 0, company |-> None])
    BY <1>8 DEF FetchClients
  <2> DEFINE changes == [at |-> to, rows |-> given, grant |-> 0, token |-> 0, company |-> None]
             new == [kind |-> call[c].kind, at |-> to, grant |-> 0, token |-> 0,
                     company |-> None, rows |-> given]
  <2>3. call' = [call EXCEPT ![c] = new] /\ syncing' \in BOOLEAN
    BY <1>1, <2>2, GoesOn
  <2>4. Proceeds(c, new) /\ new.at \in {"shown", "read"}
    BY <1>1, <2>3 DEF Proceeds, Held, Idle
  <2> HIDE DEF new
  <2>5. call[c].at # "answered" /\ approved' = approved /\ live' = live /\ link' = link
        /\ lost' = lost /\ faults' = faults
    BY <1>8 DEF FetchClients
  <2> QED
    BY <1>1, <2>1, <2>4, <2>5, HandlersWithoutTokensKeep
<1> QED  BY <1>3, <1>4, <1>5, <1>6, <1>7, <1>8

\* The row goes, or time passes for it, or the process ends.
LEMMA LinkStepKeeps ==
  ASSUME LinkInv, LinkStep
  PROVE  LinkInv'
<1> USE DEF linkVars, providerVars, faultVars
<1>1. LinkTypes /\ faults \in 0 .. MaxFaults /\ lost \subseteq Grant /\ call \in [Call -> Held]
      /\ link \in Links \union {None} /\ approved \in [Grant -> Company \union {None}]
      /\ live \in [Grant -> 0 .. MaxToken] /\ syncing \in BOOLEAN
      /\ \A c \in Call : CallOK(c)
  BY DEF LinkInv, LinkTypes, TypeOK
<1>2. book' = book /\ approved' = approved /\ live' = live
  BY DEF LinkStep, DeleteConnection, TokenExpires, AnHourPasses, Crash
<1>3. book' \in [Client -> Rows \union {None}] /\ NamesDiffer'  BY <1>2, BookStands
<1>4. CASE DeleteConnection \/ TokenExpires \/ AnHourPasses
  <2>1. call' = call /\ syncing' = syncing /\ lost' = lost /\ faults' = faults
    BY <1>4 DEF DeleteConnection, TokenExpires, AnHourPasses
  <2>2. /\ link' \in Links \union {None}
        /\ link' = None \/ (/\ link # None /\ link' # None
                            /\ link'.grant = link.grant /\ link'.token = link.token
                            /\ link'.company = link.company)
    <3>1. CASE DeleteConnection  BY <3>1 DEF DeleteConnection
    <3>2. CASE TokenExpires \/ AnHourPasses
      <4>1. link \in Links  BY <1>1, <3>2 DEF TokenExpires, AnHourPasses
      <4>2. link' \in Links /\ link'.grant = link.grant /\ link'.token = link.token /\ link'.company = link.company
        BY <3>2, <4>1 DEF TokenExpires, AnHourPasses, Links
      <4> QED  BY <4>1, <4>2, NoneAssumption
    <3> QED  BY <1>4, <3>1, <3>2
  <2>3. Quiet  BY <1>2, <2>1, <2>2 DEF Quiet
  <2>4. Tokens'  BY <2>3, QuietKeepsTokens DEF LinkInv, Tokens
  <2>5. \A c \in Call : CallOK(c)'  BY <1>1, <2>1 DEF CallOK
  <2>6. LinkTypes'  BY <1>1, <1>2, <1>3, <2>1, <2>2, <2>5, TypesOf
  <2> QED  BY <1>3, <2>4, <2>6 DEF LinkInv, Tokens
<1>5. CASE Crash
  <2>1. /\ \A c \in Call : call'[c] = call[c] \/ call'[c] = Idle
        /\ call' \in [Call -> Held] /\ link' = link /\ syncing' \in BOOLEAN
        /\ lost' = lost \union {call[c].grant : c \in {d \in Call : call[d].at = "answered"}}
        /\ faults' \in 0 .. MaxFaults
    <3>1. /\ call' = [d \in Call |-> IF call[d].at = "shown" THEN call[d] ELSE Idle]
          /\ link' = link /\ syncing' = FALSE
          /\ lost' = lost \union {call[d].grant : d \in {e \in Call : call[e].at = "answered"}}
          /\ faults < MaxFaults /\ faults' = faults + 1
      BY <1>5 DEF Crash, Fault
    <3>2. faults' \in 0 .. MaxFaults  BY <1>1, <3>1, BoundAssumption
    <3>3. call' \in [Call -> Held] /\ \A c \in Call : call'[c] = call[c] \/ call'[c] = Idle
      BY <1>1, <3>1, IdleIsHeld
    <3> QED  BY <3>1, <3>2, <3>3
  <2>2. lost' \subseteq Grant  BY <1>1, <2>1 DEF CallOK
  <2>3. \A c \in Call : CallOK(c)'
    <3>1. ASSUME NEW c \in Call, call'[c] = Idle PROVE CallOK(c)'
      BY <3>1, IdleIsHeld DEF CallOK, Idle
    <3>2. ASSUME NEW c \in Call, call'[c] = call[c] PROVE CallOK(c)'
      BY <1>1, <3>2 DEF CallOK
    <3> QED  BY <2>1, <3>1, <3>2
  <2>4. Quiet
    <3>1. Idle.at = "idle"  BY DEF Idle
    <3>2. link' = None \/ (link # None /\ link' # None /\ link' = link)  BY <2>1
    <3> QED  BY <1>2, <2>1, <3>1, <3>2 DEF Quiet
  <2>5. Tokens'  BY <2>4, QuietKeepsTokens DEF LinkInv, Tokens
  <2>6. LinkTypes'  BY <1>1, <1>2, <1>3, <2>1, <2>2, <2>3, TypesOf
  <2> QED  BY <1>3, <2>5, <2>6 DEF LinkInv, Tokens
<1> QED  BY <1>4, <1>5 DEF LinkStep

-----------------------------------------------------------------------------
(* The steps that take, spend or store a token.                                *)

\* What each of them leaves alone.
Rest == book' = book /\ lost' = lost /\ faults' = faults

LEMMA RestStands ==
  ASSUME LinkInv, Rest, link' \in Links \union {None}, NEW c \in Call, NEW new, Proceeds(c, new),
         approved' \in [Grant -> Company \union {None}], live' \in [Grant -> 0 .. MaxToken], Tokens'
  PROVE  LinkInv'
<1>1. book' \in [Client -> Rows \union {None}] /\ NamesDiffer'  BY BookStands DEF Rest
<1>2. call' \in [Call -> Held] /\ (\A d \in Call : CallOK(d)') /\ syncing' \in BOOLEAN
  BY MovesAre DEF LinkInv
<1>3. lost' \subseteq Grant /\ faults' \in 0 .. MaxFaults  BY DEF Rest, LinkInv, LinkTypes, TypeOK
<1>4. LinkTypes'  BY <1>1, <1>2, <1>3, TypesOf
<1> QED  BY <1>1, <1>4 DEF LinkInv, Tokens

\* A handler takes the token of the row, which is no newer than the good one.
LEMMA BeginKeeps ==
  ASSUME LinkInv, NEW c \in Call, NEW kind \in Reading, Begin(c, kind), syncing' \in BOOLEAN
  PROVE  LinkInv'
<1> DEFINE new == [kind |-> kind, at |-> NextStop.at, grant |-> link.grant,
                   token |-> NextStop.token, company |-> link.company, rows |-> NoRows]
<1>1. link \in Links /\ call[c] = Idle  BY DEF Begin, LinkInv, LinkTypes, TypeOK
<1>2. call' = [call EXCEPT ![c] = new] /\ link' = link /\ approved' = approved /\ live' = live /\ Rest
  BY DEF Begin, Rest, providerVars, faultVars
<1>3. /\ new.at \in {"reading", "refreshing"} /\ new.grant = link.grant /\ new.company = link.company
      /\ new.at = "refreshing" => new.token = link.token
      /\ new.kind = kind /\ new.rows = NoRows
      /\ new \in Held
  BY <1>1, IdleIsHeld DEF NextStop, Held, Links
<1>4. Proceeds(c, new)  BY <1>1, <1>2, <1>3 DEF Proceeds, Idle, Links
<1> HIDE DEF new
<1>5. call'[c] = new /\ \A d \in Call : d # c => call'[d] = call[d]
  BY <1>4, MovesAre DEF LinkInv
<1>6. TokensKeepTheirCompany'
  <2>1. \A d \in Call : call'[d].at \in {"refreshing", "answered", "reading"} =>
          call'[d].company = approved[call'[d].grant]
    BY <1>1, <1>3, <1>5, NoneAssumption DEF TokensKeepTheirCompany, LinkInv
  <2> QED  BY <1>2, <2>1 DEF TokensKeepTheirCompany, LinkInv
<1>7. link # None  BY <1>1, NoneAssumption
<1>8. TokensInHand'
  <2>1. \A d \in Call : call'[d].at = "answered" => d # c /\ call'[d] = call[d]  BY <1>3, <1>5
  <2>2. \A d \in Call : call'[d].at = "refreshing" => call'[d].token <= live[call'[d].grant]
    BY <1>3, <1>5, <1>7 DEF TokensInHand, LinkInv
  <2>3. ASSUME NEW e \in Call, call'[e].at = "answered", NEW d \in Call \ {e},
               call'[d].at \in {"refreshing", "answered"}, call'[d].grant = call'[e].grant
        PROVE  call'[d].at = "refreshing" /\ call'[d].token < call'[e].token
    <3>1. CASE d = c  BY <1>3, <1>5, <1>7, <2>1, <2>3, <3>1 DEF TokensInHand, LinkInv
    <3>2. CASE d # c  BY <1>5, <2>1, <2>3, <3>2 DEF TokensInHand, LinkInv
    <3> QED  BY <3>1, <3>2
  <2> QED  BY <1>2, <1>7, <2>1, <2>2, <2>3 DEF TokensInHand, LinkInv
<1>9. NotLockedOut'
  <2>1. \A d \in Call : call[d].at = "answered" => d # c /\ call'[d] = call[d]
    BY <1>1, <1>5 DEF Idle
  <2> QED  BY <1>2, <2>1 DEF NotLockedOut, LinkInv, Rest
<1> QED  BY <1>1, <1>2, <1>4, <1>6, <1>8, <1>9, RestStands DEF Tokens, LinkInv, LinkTypes, TypeOK

\* The good token is spent: nobody else was answered with it, and the next is newer
\* than any that was read.
LEMMA RefreshTokensKeeps ==
  ASSUME LinkInv, NEW c \in Call, RefreshTokens(c)
  PROVE  LinkInv'
<1> PICK g, t : g = call[c].grant /\ t = call[c].token  OBVIOUS
<1> DEFINE new == [kind |-> call[c].kind, at |-> "answered", grant |-> g, token |-> t + 1,
                   company |-> call[c].company, rows |-> call[c].rows]
<1>1. /\ LinkTypes /\ call[c] \in Held /\ CallOK(c) /\ live \in [Grant -> 0 .. MaxToken]
      /\ link \in Links \union {None} /\ approved \in [Grant -> Company \union {None}]
  BY DEF LinkInv, LinkTypes, TypeOK
<1>2. /\ call[c].at = "refreshing" /\ t = live[g] /\ t < MaxToken
      /\ live' = [live EXCEPT ![g] = t + 1] /\ link' = link /\ approved' = approved /\ Rest
      /\ Go(c, [at |-> "answered", token |-> t + 1])
  BY DEF RefreshTokens, Rest, faultVars
<1>3. g \in Grant /\ t \in Token /\ call[c].company \in Company /\ MaxToken \in Nat
  BY <1>1, <1>2, BoundAssumption DEF CallOK
<1>4. call' = [call EXCEPT ![c] = new] /\ syncing' \in BOOLEAN
  BY <1>1, <1>2, GoesOn
<1>5. live' \in [Grant -> 0 .. MaxToken] /\ live'[g] = t + 1 /\ t + 1 \in Token
      /\ \A h \in Grant : h # g => live'[h] = live[h]
  BY <1>1, <1>2, <1>3 DEF Token
<1>6. Proceeds(c, new)  BY <1>1, <1>3, <1>4, <1>5 DEF Proceeds, Held, Idle
<1>7. /\ new.at = "answered" /\ new.grant = g /\ new.token = t + 1 /\ new.company = call[c].company
  OBVIOUS
<1> HIDE DEF new
<1>8. call'[c] = new /\ \A d \in Call : d # c => call'[d] = call[d]
  BY <1>6, MovesAre DEF LinkInv
<1>9. TokensKeepTheirCompany'
  BY <1>2, <1>7, <1>8 DEF TokensKeepTheirCompany, LinkInv
<1>10. \A d \in Call : call[d].at \in {"refreshing", "answered"} => call[d].token \in Int /\ call[d].grant \in Grant
  BY DEF LinkInv, LinkTypes, TypeOK, CallOK, Token
<1>11. \A d \in Call : d # c /\ call[d].grant = g => call[d].at # "answered"
  <2> SUFFICES ASSUME NEW d \in Call, d # c, call[d].grant = g, call[d].at = "answered"
               PROVE  FALSE
    OBVIOUS
  <2>1. call[d].token = live[g] /\ c \in Call \ {d} /\ call[c].grant = call[d].grant
    BY DEF TokensInHand, LinkInv
  <2>2. call[c].token < call[d].token  BY <1>2, <2>1 DEF TokensInHand, LinkInv
  <2>3. t < t /\ t \in Int  BY <1>2, <1>3, <2>1, <2>2 DEF Token
  <2> QED  BY <2>3
<1>12. link # None => link.grant \in Grant /\ link.token \in Int  BY <1>1 DEF Links, Token
<1>13. t \in Int /\ \A h \in Grant : live[h] \in Int /\ live'[h] \in Int /\ live[h] <= live'[h]
  BY <1>1, <1>2, <1>3, <1>5 DEF Token
<1>14. TokensInHand'
  <2>1. link # None => link.token <= live'[link.grant]
    BY <1>2, <1>12, <1>13 DEF TokensInHand, LinkInv
  <2>2. \A d \in Call : call'[d].at = "refreshing" => call'[d].token <= live'[call'[d].grant]
    BY <1>7, <1>8, <1>10, <1>13 DEF TokensInHand, LinkInv
  <2>3. ASSUME NEW e \in Call, call'[e].at = "answered"
        PROVE  /\ call'[e].token = live'[call'[e].grant]
               /\ link # None /\ link.grant = call'[e].grant => link.token < call'[e].token
               /\ \A d \in Call \ {e} :
                    call'[d].at \in {"refreshing", "answered"} /\ call'[d].grant = call'[e].grant =>
                      call'[d].at = "refreshing" /\ call'[d].token < call'[e].token
    <3>1. CASE e = c
      <4>1. link # None /\ link.grant = g => link.token < t + 1
        BY <1>2, <1>12, <1>13 DEF TokensInHand, LinkInv
      <4>2. \A d \in Call \ {c} : call[d].at \in {"refreshing", "answered"} /\ call[d].grant = g =>
              call[d].at = "refreshing" /\ call[d].token < t + 1
        BY <1>2, <1>10, <1>11, <1>13 DEF TokensInHand, LinkInv
      <4> QED  BY <1>5, <1>7, <1>8, <3>1, <4>1, <4>2
    <3>2. CASE e # c
      <4>1. call'[e] = call[e] /\ call[e].at = "answered" /\ call[e].grant # g /\ call[e].grant \in Grant
        BY <1>8, <1>10, <1>11, <2>3, <3>2
      <4>2. \A d \in Call \ {e} : call'[d].grant = call[e].grant => call'[d] = call[d]
        BY <1>7, <1>8, <4>1
      <4> QED  BY <1>5, <4>1, <4>2 DEF TokensInHand, LinkInv
    <3> QED  BY <3>1, <3>2
  <2> QED  BY <1>2, <2>1, <2>2, <2>3 DEF TokensInHand
<1>15. NotLockedOut'
  <2> SUFFICES ASSUME link # None, link.grant \notin lost, link.token # live'[link.grant]
               PROVE  \E d \in Call : /\ call'[d].at = "answered" /\ call'[d].grant = link.grant
                                      /\ call'[d].token = live'[link.grant]
    BY <1>2 DEF NotLockedOut, Rest
  <2>1. CASE link.grant = g  BY <1>5, <1>7, <1>8, <2>1
  <2>2. CASE link.grant # g
    <3>1. live'[link.grant] = live[link.grant]  BY <1>5, <1>12, <2>2
    <3>2. PICK d \in Call : /\ call[d].at = "answered" /\ call[d].grant = link.grant
                            /\ call[d].token = live[link.grant]
      BY <3>1 DEF NotLockedOut, LinkInv
    <3>3. call'[d] = call[d]  BY <1>2, <1>8, <3>2
    <3> QED  BY <3>1, <3>2, <3>3
  <2> QED  BY <2>1, <2>2
<1> QED  BY <1>1, <1>2, <1>5, <1>6, <1>9, <1>14, <1>15, RestStands DEF Tokens

\* An approval nobody has yet has no token anywhere.
LEMMA ExchangeCodeKeeps ==
  ASSUME LinkInv, NEW c \in Call, NEW company \in Company, ExchangeCode(c, company)
  PROVE  LinkInv'
<1>1. /\ LinkTypes /\ call[c] \in Held /\ live \in [Grant -> 0 .. MaxToken]
      /\ link \in Links \union {None} /\ approved \in [Grant -> Company \union {None}]
      /\ \A d \in Call : CallOK(d)
  BY DEF LinkInv, LinkTypes, TypeOK
<1>2. PICK g \in Grant :
        /\ \A h \in Grant : approved[h] = None <=> h >= g
        /\ approved' = [approved EXCEPT ![g] = company]
        /\ live' = [live EXCEPT ![g] = 1]
        /\ Go(c, [kind |-> "connect", at |-> "answered", grant |-> g, token |-> 1, company |-> company])
  BY DEF ExchangeCode
<1>3. call[c] = Idle /\ link' = link /\ Rest  BY DEF ExchangeCode, Rest, faultVars
<1> DEFINE new == [kind |-> "connect", at |-> "answered", grant |-> g, token |-> 1,
                   company |-> company, rows |-> call[c].rows]
<1>4. call' = [call EXCEPT ![c] = new] /\ syncing' \in BOOLEAN  BY <1>1, <1>2, GoesOn
<1>5. 1 \in Token /\ 1 \in 0 .. MaxToken  BY BoundAssumption DEF Token
<1>6. Proceeds(c, new)  BY <1>1, <1>4, <1>5 DEF Proceeds, Held, Idle
<1>7. new.at = "answered" /\ new.grant = g /\ new.token = 1 /\ new.company = company  OBVIOUS
<1> HIDE DEF new
<1>8. call'[c] = new /\ \A d \in Call : d # c => call'[d] = call[d]
  BY <1>6, MovesAre DEF LinkInv
<1>9. /\ approved' \in [Grant -> Company \union {None}] /\ approved'[g] = company
      /\ \A h \in Grant : h # g => approved'[h] = approved[h]
      /\ live' \in [Grant -> 0 .. MaxToken] /\ live'[g] = 1
      /\ \A h \in Grant : h # g => live'[h] = live[h]
  BY <1>1, <1>2, <1>5
<1>10. approved[g] = None
  <2>1. g >= g  BY DEF Grant
  <2> QED  BY <1>2, <2>1
<1>11. \A d \in Call : call[d].at \in {"refreshing", "answered", "reading"} =>
          call[d].grant \in Grant /\ call[d].grant # g
  BY <1>1, <1>10, NoneAssumption DEF TokensKeepTheirCompany, LinkInv, CallOK
<1>12. link # None => link.grant \in Grant /\ link.grant # g
  BY <1>1, <1>10, NoneAssumption DEF TokensKeepTheirCompany, LinkInv, Links
<1>13. TokensKeepTheirCompany'
  BY <1>3, <1>7, <1>8, <1>9, <1>11, <1>12 DEF TokensKeepTheirCompany, LinkInv
<1>14. TokensInHand'
  <2>1. ASSUME NEW e \in Call, call'[e].at = "answered"
        PROVE  /\ call'[e].token = live'[call'[e].grant]
               /\ link # None /\ link.grant = call'[e].grant => link.token < call'[e].token
               /\ \A d \in Call \ {e} :
                    call'[d].at \in {"refreshing", "answered"} /\ call'[d].grant = call'[e].grant =>
                      call'[d].at = "refreshing" /\ call'[d].token < call'[e].token
    <3>1. CASE e = c  BY <1>7, <1>8, <1>9, <1>11, <1>12, <3>1
    <3>2. CASE e # c
      <4>1. call'[e] = call[e] /\ call[e].at = "answered" /\ call[e].grant \in Grant /\ call[e].grant # g
        BY <1>8, <1>11, <2>1, <3>2
      <4>2. \A d \in Call \ {e} : call'[d].grant = call[e].grant => call'[d] = call[d]
        BY <1>7, <1>8, <4>1
      <4> QED  BY <1>9, <4>1, <4>2 DEF TokensInHand, LinkInv
    <3> QED  BY <3>1, <3>2
  <2>2. \A d \in Call : call'[d].at = "refreshing" => call'[d].token <= live'[call'[d].grant]
    BY <1>7, <1>8, <1>9, <1>11 DEF TokensInHand, LinkInv
  <2>3. link # None => link.token <= live'[link.grant]
    BY <1>9, <1>12 DEF TokensInHand, LinkInv
  <2> QED  BY <1>3, <2>1, <2>2, <2>3 DEF TokensInHand
<1>15. NotLockedOut'
  <2> SUFFICES ASSUME link # None, link.grant \notin lost, link.token # live'[link.grant]
               PROVE  \E d \in Call : /\ call'[d].at = "answered" /\ call'[d].grant = link.grant
                                      /\ call'[d].token = live'[link.grant]
    BY <1>3 DEF NotLockedOut, Rest
  <2>1. live'[link.grant] = live[link.grant]  BY <1>9, <1>12
  <2>2. PICK d \in Call : /\ call[d].at = "answered" /\ call[d].grant = link.grant
                          /\ call[d].token = live[link.grant]
    BY <2>1 DEF NotLockedOut, LinkInv
  <2>3. call'[d] = call[d]  BY <1>3, <1>8, <2>2 DEF Idle
  <2> QED  BY <2>1, <2>2, <2>3
<1> QED  BY <1>1, <1>3, <1>6, <1>9, <1>13, <1>14, <1>15, RestStands DEF Tokens

\* The row gets the good token, and with it the company it was given for.
LEMMA SaveConnectionKeeps ==
  ASSUME LinkInv, NEW c \in Call, SaveConnection(c)
  PROVE  LinkInv'
<1>1. /\ LinkTypes /\ call[c] \in Held /\ CallOK(c) /\ live \in [Grant -> 0 .. MaxToken]
      /\ link \in Links \union {None} /\ approved \in [Grant -> Company \union {None}]
      /\ \A d \in Call : CallOK(d)
  BY DEF LinkInv, LinkTypes, TypeOK
<1> PICK g, t, company : g = call[c].grant /\ t = call[c].token /\ company = call[c].company  OBVIOUS
<1>2. /\ call[c].at = "answered" /\ link' = Saved(c) /\ approved' = approved /\ live' = live /\ Rest
  BY DEF SaveConnection, Rest, providerVars, faultVars
<1>3. g \in Grant /\ t \in Token /\ company \in Company  BY <1>1, <1>2 DEF CallOK
<1>4. link' \in Links /\ link'.grant = g /\ link'.token = t /\ link'.company = company /\ link' # None
  <2>1. (link # None /\ link.recent) \in BOOLEAN  BY <1>1 DEF Links
  <2>2. link' = [grant |-> g, token |-> t, company |-> company, fresh |-> TRUE,
                 recent |-> link # None /\ link.recent]
    BY <1>2 DEF Saved, Row
  <2>3. link' \in Links  BY <1>3, <2>1, <2>2 DEF Links
  <2> QED  BY <2>2, <2>3, NoneAssumption
<1>5. PICK new : Proceeds(c, new) /\ (new = Idle \/ (new.at = "reading" /\ new.grant = g /\ new.company = company))
  <2>1. CASE call[c].kind = "connect"
    BY <1>1, <2>1, FinishMoves DEF SaveConnection
  <2>2. CASE call[c].kind # "connect"
    <3> DEFINE changes == [at |-> "reading", token |-> 0]
               one == [kind |-> call[c].kind, at |-> "reading", grant |-> g, token |-> 0,
                       company |-> company, rows |-> call[c].rows]
    <3>1. Go(c, changes)  BY <2>2 DEF SaveConnection
    <3>2. call' = [call EXCEPT ![c] = one] /\ syncing' \in BOOLEAN
      BY <1>1, <3>1, GoesOn
    <3>3. Proceeds(c, one)  BY <1>1, <1>3, <3>2 DEF Proceeds, Held, Idle
    <3> QED  BY <3>3
  <2> QED  BY <2>1, <2>2
<1>6. call'[c] = new /\ \A d \in Call : d # c => call'[d] = call[d]
  BY <1>5, MovesAre DEF LinkInv
<1>7. new.at \notin {"refreshing", "answered"}  BY <1>5 DEF Idle
<1>8. company = approved[g] /\ t = live[g]
  BY <1>2 DEF TokensKeepTheirCompany, TokensInHand, LinkInv
<1>9. TokensKeepTheirCompany'
  <2>1. \A d \in Call : call'[d].at \in {"refreshing", "answered", "reading"} =>
          call'[d].company = approved[call'[d].grant]
    BY <1>5, <1>6, <1>8 DEF TokensKeepTheirCompany, LinkInv, Idle
  <2> QED  BY <1>2, <1>4, <1>8, <2>1 DEF TokensKeepTheirCompany
<1>10. \A d \in Call : call'[d].at \in {"refreshing", "answered"} => d # c /\ call'[d] = call[d]
  BY <1>6, <1>7
<1>11. TokensInHand'
  <2>1. \A d \in Call \ {c} : ~(call[d].at = "answered" /\ call[d].grant = g)
    BY <1>2 DEF TokensInHand, LinkInv
  <2>2. t <= live[g]  BY <1>3, <1>8 DEF Token
  <2> QED  BY <1>2, <1>4, <1>10, <2>1, <2>2 DEF TokensInHand, LinkInv
<1>12. NotLockedOut'  BY <1>2, <1>4, <1>8 DEF NotLockedOut
<1> QED  BY <1>1, <1>2, <1>4, <1>5, <1>9, <1>11, <1>12, RestStands DEF Tokens

-----------------------------------------------------------------------------
LEMMA InitiallyUnlinked == Init => LinkInv
<1> SUFFICES ASSUME Init PROVE LinkInv  OBVIOUS
<1>1. TypeOK
  <2>1. \A c \in Call : CallOK(c)  BY IdleIsHeld DEF Init, CallOK, Idle
  <2>2. 0 \in 0 .. MaxToken /\ 0 \in 0 .. MaxFaults  BY BoundAssumption
  <2> QED  BY <2>1, <2>2 DEF Init, TypeOK
<1>2. LinkTypes  BY <1>1, IdleIsHeld DEF LinkTypes, Init
<1>3. TokensKeepTheirCompany /\ TokensInHand /\ NotLockedOut
  BY DEF Init, TokensKeepTheirCompany, TokensInHand, NotLockedOut, Idle
<1>4. NamesDiffer  BY DEF Init, NamesDiffer, Known
<1> QED  BY <1>2, <1>3, <1>4 DEF LinkInv

LEMMA StepsKeepTheLink == LinkInv /\ [Next]_vars => LinkInv'
<1> SUFFICES ASSUME LinkInv, [Next]_vars PROVE LinkInv'  OBVIOUS
<1>1. CASE BookStep  BY <1>1, BookKeeps
<1>2. CASE LinkStep  BY <1>2, LinkStepKeeps
<1>3. ASSUME NEW c \in Call, Proceed(c) PROVE LinkInv'
  BY <1>3, RefreshTokensKeeps, SaveConnectionKeeps, QuietHandlersKeep DEF Proceed
<1>4. ASSUME NEW c \in Call, Start(c) PROVE LinkInv'
  <2>1. syncing \in BOOLEAN  BY DEF LinkInv, LinkTypes, TypeOK
  <2>2. CASE SyncNow(c)
    BY <2>1, <2>2, BeginKeeps DEF SyncNow, Reading
  <2>3. CASE Preview(c)
    BY <2>1, <2>3, BeginKeeps DEF Preview, Reading
  <2>4. CASE MaybeSyncOnActivity(c)
    BY <2>4, BeginKeeps DEF MaybeSyncOnActivity, Reading
  <2> QED
    BY <1>4, <2>2, <2>3, <2>4, ExchangeCodeKeeps, QuietHandlersKeep DEF Start
<1>5. CASE UNCHANGED vars
  <2>1. TypeOK' /\ LinkTypes'
    BY <1>5 DEF vars, LinkInv, LinkTypes, TypeOK, CallOK
  <2> QED
    BY <1>5, <2>1 DEF vars, LinkInv, TokensKeepTheirCompany, TokensInHand, NotLockedOut, NamesDiffer, Known
<1> QED  BY <1>1, <1>2, <1>3, <1>4, <1>5 DEF Next

\* The row and whoever holds a token agree with the provider, and the client book has
\* no name twice, whatever handlers cross.
THEOREM LinkInvariant == Spec => []LinkInv
<1> QED  BY InitiallyUnlinked, StepsKeepTheLink, PTL DEF Spec

\* Unless an answer was lost the refresh token in the row is good, or the good one is
\* in the hands of a handler that stores it (freshAccessToken, saveConnection).
THEOREM NeverLockedOut == Spec => []NotLockedOut
<1>1. LinkInv => NotLockedOut  BY DEF LinkInv
<1> QED  BY LinkInvariant, <1>1, PTL

\* Tokens are used and kept with the company they were given for (external_id).
THEOREM CompaniesAreKept == Spec => []TokensKeepTheirCompany
<1>1. LinkInv => TokensKeepTheirCompany  BY DEF LinkInv
<1> QED  BY LinkInvariant, <1>1, PTL

\* Every writer of the client book leaves one client of a name (importClients,
\* saveClient, createRequest), though no index of the table says so.
THEOREM NamesAreUnique == Spec => []OneNameOneClient
<1>1. ASSUME LinkInv PROVE OneNameOneClient
  <2> SUFFICES ASSUME NEW n \in Name PROVE Cardinality(Named(n)) <= 1
    BY DEF OneNameOneClient
  <2>1. CASE Named(n) = {}  BY <2>1, FS_EmptySet
  <2>2. CASE Named(n) # {}
    <3>1. PICK k : k \in Named(n)  BY <2>2
    <3>2. Named(n) = {k}  BY <1>1, <3>1 DEF Named, NamesDiffer, LinkInv
    <3> QED  BY <3>2, FS_Singleton
  <2> QED  BY <2>1, <2>2
<1> QED  BY LinkInvariant, <1>1, PTL

-----------------------------------------------------------------------------
(* Files moved onto the current key by several pages at once: PracticePage.    *)

Envelopes == [magic : {"TKME"}, key : Key \union {NoKey}, doc : Upload \union {Garbled}]
Moving    == [at : {"idle", "asking", "fetching", "posting"},
              from : Key \union {NoKey}, to : Key \union {NoKey},
              file : SUBSET Upload, sealed : SUBSET Envelopes]

\* What a page has in hand: one file, once it has asked, and when it posts the
\* envelope of that file and no other.
HasInHand(q) ==
  /\ q.at # "idle" => q.from \in Key /\ q.to \in Key
  /\ q.at \in {"fetching", "posting"} =>
       \E u \in Upload : /\ q.file = {u}
                         /\ q.at = "posting" => q.sealed = {EncryptFile(q.to, u)}

MovingInv ==
  /\ rows \in [Upload -> [key : Key, envelope : Envelopes]]
  /\ current \in Key
  /\ mover \in [Mover -> Moving]
  /\ \A m \in Mover : HasInHand(mover[m])
  /\ MovedFilesOpen

\* A page goes on, and no file moves.
LEMMA PageGoesOn ==
  ASSUME MovingInv, NEW m \in Mover, NEW q \in Moving, HasInHand(q),
         mover' = [mover EXCEPT ![m] = q],
         UNCHANGED <<rows, records, current>>
  PROVE  MovingInv'
<1>1. \A n \in Mover : mover'[n] = IF n = m THEN q ELSE mover[n]  BY DEF MovingInv
<1>2. mover' \in [Mover -> Moving]  BY DEF MovingInv
<1>3. \A n \in Mover : HasInHand(mover'[n])  BY <1>1 DEF MovingInv
<1>4. MovedFilesOpen'  BY DEF MovingInv, MovedFilesOpen, Live
<1> QED  BY <1>2, <1>3, <1>4 DEF MovingInv

LEMMA NotMovingIsSound == NotMoving \in Moving /\ HasInHand(NotMoving)
BY DEF NotMoving, Moving, HasInHand

LEMMA StopKeeps ==
  ASSUME MovingInv, NEW m \in Mover, Stop(m), UNCHANGED <<rows, records, current>>
  PROVE  MovingInv'
BY PageGoesOn, NotMovingIsSound DEF Stop

LEMMA StartMovingKeeps ==
  ASSUME MovingInv, NEW m \in Mover, NEW k \in Key, StartMoving(m, k) PROVE MovingInv'
<1>1. PICK q : q = [NotMoving EXCEPT !.at = "asking", !.from = k, !.to = current]  OBVIOUS
<1>2. /\ q = [at |-> "asking", from |-> k, to |-> current, file |-> {}, sealed |-> {}]
      /\ current \in Key
  BY <1>1 DEF NotMoving, MovingInv
<1>3. q \in Moving /\ HasInHand(q)  BY <1>2 DEF Moving, HasInHand
<1>4. mover' = [mover EXCEPT ![m] = q] /\ UNCHANGED <<rows, records, current>>
  BY <1>1 DEF StartMoving
<1> QED  BY <1>3, <1>4, PageGoesOn

\* A record with some fields of a page's changed.
LEMMA PageFields ==
  ASSUME MovingInv, NEW m \in Mover
  PROVE  /\ mover[m] \in Moving /\ HasInHand(mover[m])
         /\ mover[m] = [at |-> mover[m].at, from |-> mover[m].from, to |-> mover[m].to,
                        file |-> mover[m].file, sealed |-> mover[m].sealed]
BY DEF MovingInv, Moving

LEMMA AskKeeps ==
  ASSUME MovingInv, NEW m \in Mover, AskWhatIsLeft(m) PROVE MovingInv'
<1>1. mover[m].at = "asking" /\ UNCHANGED <<rows, records, current>>  BY DEF AskWhatIsLeft
<1>2. CASE Stop(m)  BY <1>1, <1>2, StopKeeps
<1>3. ASSUME NEW u \in Pending(mover[m].from),
             mover' = [mover EXCEPT ![m].at = "fetching", ![m].file = {u}]
      PROVE  MovingInv'
  <2>1. PICK q : q = [at |-> "fetching", from |-> mover[m].from, to |-> mover[m].to,
                      file |-> {u}, sealed |-> mover[m].sealed]
    OBVIOUS
  <2>2. u \in Upload  BY DEF Pending
  <2>3. q \in Moving /\ HasInHand(q)
    BY <1>1, <2>1, <2>2, PageFields DEF Moving, HasInHand
  <2>4. mover' = [mover EXCEPT ![m] = q]
    <3>1. mover' = [n \in Mover |-> IF n = m
            THEN [mover[m] EXCEPT !.at = "fetching", !.file = {u}] ELSE mover[n]]
      BY <1>3, Zenon DEF MovingInv
    <3>2. [mover[m] EXCEPT !.at = "fetching", !.file = {u}] = q
      <4>1. DOMAIN mover[m] = {"at", "from", "to", "file", "sealed"}  BY PageFields DEF Moving
      <4>2. [mover[m] EXCEPT !.at = "fetching", !.file = {u}]
              = [f \in {"at", "from", "to", "file", "sealed"} |-> IF f = "file" THEN {u} ELSE IF f = "at" THEN "fetching" ELSE mover[m][f]]
        BY <4>1, Zenon
      <4> QED  BY <4>2, <2>1
    <3> QED  BY <3>1, <3>2 DEF MovingInv
  <2> QED  BY <1>1, <2>3, <2>4, PageGoesOn
<1> QED  BY <1>1, <1>2, <1>3 DEF AskWhatIsLeft

LEMMA ResealKeeps ==
  ASSUME MovingInv, NEW m \in Mover, Reseal(m) PROVE MovingInv'
<1>1. mover[m].at = "fetching" /\ UNCHANGED <<rows, records, current>>  BY DEF Reseal
<1>2. CASE Stop(m)  BY <1>1, <1>2, StopKeeps
<1>3. CASE ~Stop(m)
  <2>1. PICK u \in Upload : mover[m].file = {u}
    BY <1>1, PageFields DEF HasInHand
  <2>2. PICK to \in Key, from \in Key : to = mover[m].to /\ from = mover[m].from
    BY <1>1, PageFields DEF HasInHand
  <2>3. PICK plain : plain = DecryptEnvelope(from, rows[u].envelope)  OBVIOUS
  <2>4. PICK made \in plain \union {Garbled} :
          /\ plain # {}
          /\ RoundTrips(to, EncryptFile(to, made), plain)
          /\ mover' = [mover EXCEPT ![m].at = "posting", ![m].sealed = {EncryptFile(to, made)}]
    BY <1>3, <2>1, <2>2, <2>3 DEF Reseal
  <2>5. plain = {u}
    <3>1. rows[u].envelope.key = from /\ plain = {rows[u].envelope.doc}
      BY <2>3, <2>4 DEF DecryptEnvelope
    <3>2. rows[u].envelope.key # NoKey  BY <3>1 DEF Key, NoKey
    <3>3. rows[u].envelope = EncryptFile(rows[u].key, u)
      BY <3>2 DEF MovingInv, MovedFilesOpen
    <3>4. rows[u].envelope.doc = u  BY <3>3 DEF EncryptFile
    <3> QED  BY <3>1, <3>4
  <2>6. made = u
    <3>1. DecryptEnvelope(to, EncryptFile(to, made)) = {made}
      BY DEF DecryptEnvelope, ReadEnvelope, EncryptFile
    <3> QED  BY <2>4, <2>5, <3>1 DEF RoundTrips
  <2>7. EncryptFile(to, u) \in Envelopes  BY DEF EncryptFile, Envelopes
  <2>8. PICK q : q = [at |-> "posting", from |-> from, to |-> to, file |-> {u},
                      sealed |-> {EncryptFile(to, u)}]
    OBVIOUS
  <2>9. q \in Moving  BY <2>7, <2>8 DEF Moving
  <2>10. HasInHand(q)  BY <2>8 DEF HasInHand
  <2>11. mover' = [mover EXCEPT ![m] = q]
    <3>1. mover' = [n \in Mover |-> IF n = m
            THEN [mover[m] EXCEPT !.at = "posting", !.sealed = {EncryptFile(to, made)}] ELSE mover[n]]
      BY <2>4, Zenon DEF MovingInv
    <3>2. [mover[m] EXCEPT !.at = "posting", !.sealed = {EncryptFile(to, made)}] = q
      <4>1. DOMAIN mover[m] = {"at", "from", "to", "file", "sealed"}  BY PageFields DEF Moving
      <4>2. [mover[m] EXCEPT !.at = "posting", !.sealed = {EncryptFile(to, made)}]
              = [f \in {"at", "from", "to", "file", "sealed"} |-> IF f = "sealed" THEN {EncryptFile(to, made)} ELSE IF f = "at" THEN "posting" ELSE mover[m][f]]
        BY <4>1, Zenon
      <4> QED  BY <4>2, <2>1, <2>2, <2>6, <2>8
    <3> QED  BY <3>1, <3>2 DEF MovingInv
  <2> QED  BY <1>1, <2>9, <2>10, <2>11, PageGoesOn
<1> QED  BY <1>2, <1>3

LEMMA PostKeeps ==
  ASSUME MovingInv, NEW m \in Mover, Post(m) PROVE MovingInv'
<1>1. mover[m].at = "posting" /\ UNCHANGED <<records, current>>  BY DEF Post
<1>2. CASE Stop(m) /\ UNCHANGED rows  BY <1>1, <1>2, StopKeeps
<1>3. CASE ~(Stop(m) /\ UNCHANGED rows)
  <2>1. PICK u \in Upload : mover[m].file = {u} /\ mover[m].sealed = {EncryptFile(mover[m].to, u)}
    BY <1>1, PageFields DEF HasInHand
  <2>2. PICK to \in Key : to = mover[m].to
    BY <1>1, PageFields DEF HasInHand
  <2>3. /\ Live(to)
        /\ rows' = [rows EXCEPT ![u] = [key |-> to, envelope |-> EncryptFile(to, u)]]
        /\ mover' = [mover EXCEPT ![m].at = "asking", ![m].file = {}, ![m].sealed = {}]
    BY <1>3, <2>1, <2>2 DEF Post, MovedTo
  <2>4. EncryptFile(to, u) \in Envelopes  BY DEF EncryptFile, Envelopes
  <2>5. /\ rows' \in [Upload -> [key : Key, envelope : Envelopes]]
        /\ rows'[u] = [key |-> to, envelope |-> EncryptFile(to, u)]
        /\ \A v \in Upload : v # u => rows'[v] = rows[v]
    BY <2>3, <2>4 DEF MovingInv
  <2>6. MovedFilesOpen'
    BY <1>1, <2>3, <2>5 DEF MovingInv, MovedFilesOpen, Live
  <2>7. PICK q : q = [at |-> "asking", from |-> mover[m].from, to |-> to, file |-> {}, sealed |-> {}]
    OBVIOUS
  <2>8. q \in Moving /\ HasInHand(q)
    BY <1>1, <2>7, PageFields DEF Moving, HasInHand
  <2>9. mover' = [mover EXCEPT ![m] = q]
    <3>1. mover' = [n \in Mover |-> IF n = m
            THEN [mover[m] EXCEPT !.at = "asking", !.file = {}, !.sealed = {}] ELSE mover[n]]
      BY <2>3, Zenon DEF MovingInv
    <3>2. [mover[m] EXCEPT !.at = "asking", !.file = {}, !.sealed = {}] = q
      <4>1. DOMAIN mover[m] = {"at", "from", "to", "file", "sealed"}  BY PageFields DEF Moving
      <4>2. [mover[m] EXCEPT !.at = "asking", !.file = {}, !.sealed = {}]
              = [f \in {"at", "from", "to", "file", "sealed"} |-> IF f = "sealed" THEN {} ELSE IF f = "file" THEN {} ELSE IF f = "at" THEN "asking" ELSE mover[m][f]]
        BY <4>1, Zenon
      <4> QED  BY <4>2, <2>2, <2>7
    <3> QED  BY <3>1, <3>2 DEF MovingInv
  <2>10. \A n \in Mover : mover'[n] = IF n = m THEN q ELSE mover[n]  BY <2>9 DEF MovingInv
  <2>11. mover' \in [Mover -> Moving] /\ \A n \in Mover : HasInHand(mover'[n])
    BY <2>8, <2>9, <2>10 DEF MovingInv
  <2> QED  BY <1>1, <2>5, <2>6, <2>11 DEF MovingInv
<1> QED  BY <1>2, <1>3

\* Keys come and go, and so does the saving page.
LEMMA PagesStay ==
  ASSUME MovingInv, UNCHANGED <<rows, mover>>, current' \in Key,
         \A k \in Key : (\E u \in Upload : rows[u].key = k) /\ Live(k) => Live(k)'
  PROVE  MovingInv'
BY DEF MovingInv, MovedFilesOpen

LEMMA RotateKeeps == ASSUME MovingInv, Rotate PROVE MovingInv'
<1>1. UNCHANGED <<rows, mover>> /\ records \subseteq records'  BY DEF Rotate
<1>2. current' \in Key  BY KeysAssumption DEF Rotate, MovingInv, Key
<1> QED  BY <1>1, <1>2, PagesStay DEF Live

LEMMA RetireKeeps == ASSUME MovingInv, NEW k \in Key, Retire(k) PROVE MovingInv'
<1>1. PICK r \in records :
        r.key = k /\ records' = records \ {r} /\ UNCHANGED <<rows, mover, current>>
        /\ \A u \in Upload : rows[u].key # k
  BY DEF Retire
<1>2. current' \in Key  BY <1>1 DEF MovingInv
<1> QED  BY <1>1, <1>2, PagesStay DEF Live

\* In every state a page that moves files has one file in hand, and the envelope it
\* posts is of that file and opens with the key it says (web/reencrypt.js).
THEOREM MovingInvariant == PracticePageSpec => []MovingInv
<1>1. PracticePageInit => MovingInv
  <2> SUFFICES ASSUME PracticePageInit PROVE MovingInv  OBVIOUS
  <2>1. 1 \in Key /\ NoKey \notin Key  BY KeysAssumption DEF Key, NoKey
  <2>2. \A u \in Upload, k \in {1, NoKey} : EncryptFile(k, u) \in Envelopes
    BY <2>1 DEF EncryptFile, Envelopes
  <2>3. PICK rubbish \in SUBSET MayBeRubbish :
          rows = [u \in Upload |-> [key |-> 1, envelope |->
                                  EncryptFile(IF u \in rubbish THEN NoKey ELSE 1, u)]]
    BY DEF PracticePageInit
  <2>4. rows \in [Upload -> [key : Key, envelope : Envelopes]]  BY <2>1, <2>2, <2>3
  <2>5. Live(1)  BY DEF PracticePageInit, Live, WrapPkcs8
  <2>6. MovedFilesOpen  BY <2>3, <2>5 DEF MovedFilesOpen, EncryptFile
  <2> QED  BY <2>1, <2>4, <2>6, NotMovingIsSound DEF PracticePageInit, MovingInv
<1>2. MovingInv /\ [PracticePageNext]_practicePageVars => MovingInv'
  <2> SUFFICES ASSUME MovingInv, [PracticePageNext]_practicePageVars PROVE MovingInv'  OBVIOUS
  <2>1. CASE UNCHANGED <<rows, records, current, mover>>
    BY <2>1, PagesStay DEF MovingInv, Live
  <2>2. CASE Rotate  BY <2>2, RotateKeeps
  <2>3. ASSUME NEW k \in Key, Retire(k) PROVE MovingInv'  BY <2>3, RetireKeeps
  <2>4. ASSUME NEW m \in Mover, NEW k \in Key, StartMoving(m, k) PROVE MovingInv'
    BY <2>4, StartMovingKeeps
  <2>5. ASSUME NEW m \in Mover, Moves(m) PROVE MovingInv'
    BY <2>5, AskKeeps, ResealKeeps, PostKeeps DEF Moves
  <2>6. ASSUME NEW m \in Mover, MoverEnds(m) PROVE MovingInv'
    BY <2>6, StopKeeps DEF MoverEnds
  <2>7. CASE Unlock \/ SaveAll \/ OpenNext \/ FetchFails \/ PackAndSave \/ CloseTab
               \/ UNCHANGED practicePageVars
    <3>1. UNCHANGED <<rows, records, current, mover>>
      BY <2>7 DEF Unlock, SaveAll, OpenNext, FetchFails, PackAndSave, CloseTab, practicePageVars
    <3> QED  BY <3>1, <2>1
  <2> QED  BY <2>2, <2>3, <2>4, <2>5, <2>6, <2>7 DEF PracticePageNext
<1> QED  BY <1>1, <1>2, PTL DEF PracticePageSpec

\* Whatever pages move files at once, with whatever re-seal goes wrong and whichever
\* keys are made and retired meanwhile, a document that opened opens still, with a
\* key that is kept.
THEOREM MovedFilesStayOpen == PracticePageSpec => []MovedFilesOpen
BY MovingInvariant, PTL DEF MovingInv

-----------------------------------------------------------------------------
(* What follows from going one by one.                                       *)

\* Of some numbers one is the least.
LEMMA OneIsLeast ==
  ASSUME NEW T, T \subseteq Nat, T # {}
  PROVE  \E x \in T : \A y \in T : x <= y
<1>1. PICK R : R = OpToRel(<, Nat)  OBVIOUS
<1>2. IsWellFoundedOn(R, Nat)  BY <1>1, NatLessThanWellFounded
<1>3. \A x, y \in Nat : <<y, x>> \in R <=> y < x  BY <1>1 DEF OpToRel
<1> HIDE <1>1
<1>4. PICK x \in T : \A y \in T : ~ (<<y, x>> \in R)  BY <1>2, WFMin
<1>5. ASSUME NEW y \in T PROVE x <= y
  <2>1. x \in Nat /\ y \in Nat /\ ~ (<<y, x>> \in R)  BY <1>4
  <2> QED  BY <2>1, <1>3
<1> QED  BY <1>5

\* What holds of 0, and of each number's successor with it, holds of every number.
LEMMA OneByOne ==
  ASSUME NEW S, 0 \in S, \A n \in Nat : n \in S => n + 1 \in S
  PROVE  Nat \subseteq S
<1> SUFFICES ASSUME ~ (Nat \subseteq S) PROVE FALSE  OBVIOUS
<1>1. PICK T : T = Nat \ S  OBVIOUS
<1>2. T \subseteq Nat /\ T # {}  BY <1>1
<1>3. PICK x \in T : \A y \in T : x <= y  BY <1>2, OneIsLeast
<1>4. x \in Nat /\ x # 0 /\ x \notin S  BY <1>1, <1>3
<1>5. x - 1 \in Nat /\ x - 1 + 1 = x  BY <1>4
<1>6. x - 1 \in S
  <2>1. x - 1 \in T => x <= x - 1  BY <1>3
  <2>2. ~ (x <= x - 1)  BY <1>4
  <2> QED  BY <1>1, <1>5, <2>1, <2>2
<1> QED  BY <1>4, <1>5, <1>6

\* The same up to a bound.
LEMMA OneByOneUpTo ==
  ASSUME NEW n \in Nat, NEW S, 0 \in S, \A k \in 0 .. n - 1 : k \in S => k + 1 \in S
  PROVE  0 .. n \subseteq S
<1>1. PICK T : T = {k \in Nat : k <= n => k \in S}  OBVIOUS
<1>2. 0 \in T  BY <1>1
<1>3. ASSUME NEW k \in Nat, k \in T PROVE k + 1 \in T
  <2>1. CASE k + 1 <= n
    <3>1. k \in 0 .. n - 1 /\ k \in S  BY <1>1, <1>3, <2>1
    <3> QED  BY <1>1, <3>1
  <2>2. CASE ~ (k + 1 <= n)  BY <1>1, <2>2
  <2> QED  BY <2>1, <2>2
<1>4. Nat \subseteq T  BY <1>2, <1>3, OneByOne
<1> QED  BY <1>1, <1>4

-----------------------------------------------------------------------------
(* Where the entries of an archive begin: Offsets.                           *)

OffsetsOf(from, sizes, n) == {f \in [1 .. n + 1 -> Nat] :
  \A i \in 1 .. n + 1 : f[i] = IF i = 1 THEN from ELSE f[i - 1] + sizes[i - 1]}

LEMMA OffsetsExist ==
  ASSUME NEW from \in Nat, NEW n \in Nat, NEW sizes \in [1 .. n -> Nat]
  PROVE  OffsetsOf(from, sizes, n) # {}
<1>1. PICK S : S = {k \in Nat : k <= n => OffsetsOf(from, sizes, k) # {}}  OBVIOUS
<1>2. 0 \in S
  <2>1. PICK f : f = [i \in 1 .. 1 |-> from]  OBVIOUS
  <2>2. f \in OffsetsOf(from, sizes, 0)  BY <2>1 DEF OffsetsOf
  <2> QED  BY <1>1, <2>2
<1>3. ASSUME NEW k \in Nat, k \in S PROVE k + 1 \in S
  <2> SUFFICES ASSUME k + 1 <= n PROVE OffsetsOf(from, sizes, k + 1) # {}  BY <1>1
  <2>1. PICK f \in OffsetsOf(from, sizes, k) : TRUE  BY <1>1, <1>3
  <2>2. PICK g : g = [i \in 1 .. k + 2 |-> IF i \in 1 .. k + 1 THEN f[i] ELSE f[k + 1] + sizes[k + 1]]
    OBVIOUS
  <2>3. f \in [1 .. k + 1 -> Nat] /\ sizes[k + 1] \in Nat  BY <2>1 DEF OffsetsOf
  <2>4. g \in [1 .. (k + 1) + 1 -> Nat]  BY <2>2, <2>3
  <2>5. ASSUME NEW i \in 1 .. (k + 1) + 1
        PROVE  g[i] = IF i = 1 THEN from ELSE g[i - 1] + sizes[i - 1]
    <3>1. CASE i \in 1 .. k + 1
      <4>1. g[i] = f[i] /\ (i # 1 => g[i - 1] = f[i - 1])  BY <2>2, <3>1
      <4> QED  BY <2>1, <3>1, <4>1 DEF OffsetsOf
    <3>2. CASE i = k + 2
      <4>1. g[i] = f[k + 1] + sizes[k + 1] /\ g[i - 1] = f[k + 1]  BY <2>2, <3>2
      <4> QED  BY <3>2, <4>1
    <3> QED  BY <3>1, <3>2
  <2>6. g \in OffsetsOf(from, sizes, k + 1)  BY <2>4, <2>5 DEF OffsetsOf
  <2> QED  BY <2>6
<1>4. n \in S  BY <1>2, <1>3, OneByOne
<1> QED  BY <1>1, <1>4

\* Each begins where the one before it ends.
LEMMA OffsetsAdd ==
  ASSUME NEW from \in Nat, NEW n \in Nat, NEW sizes \in [1 .. n -> Nat]
  PROVE  /\ Offsets(from, sizes) \in [1 .. n + 1 -> Nat]
         /\ Offsets(from, sizes)[1] = from
         /\ \A i \in 1 .. n : Offsets(from, sizes)[i + 1] = Offsets(from, sizes)[i] + sizes[i]
<1>1. Len(sizes) = n /\ sizes \in Seq(Nat)  OBVIOUS
<1>2. PICK f \in OffsetsOf(from, sizes, n) : TRUE  BY OffsetsExist
<1>3. f = [i \in 1 .. Len(sizes) + 1 |-> IF i = 1 THEN from ELSE f[i - 1] + sizes[i - 1]]
  BY <1>1, <1>2 DEF OffsetsOf
<1>4. PICK g : g = Offsets(from, sizes)  OBVIOUS
<1>5. g = [i \in 1 .. Len(sizes) + 1 |-> IF i = 1 THEN from ELSE g[i - 1] + sizes[i - 1]]
  BY <1>3, <1>4, Zenon DEF Offsets
<1>6. \A i \in 1 .. n + 1 : g[i] = IF i = 1 THEN from ELSE g[i - 1] + sizes[i - 1]
  BY <1>1, <1>5
<1>7. \A i \in 1 .. n : g[i + 1] = g[i] + sizes[i]
  <2> SUFFICES ASSUME NEW i \in 1 .. n PROVE g[i + 1] = g[i] + sizes[i]  OBVIOUS
  <2>1. i + 1 \in 1 .. n + 1 /\ i + 1 # 1 /\ i + 1 - 1 = i  OBVIOUS
  <2> QED  BY <1>6, <2>1
<1>8. g[1] = from  BY <1>6
<1>9. \A k \in 0 .. n : g[k + 1] \in Nat
  <2>1. PICK S : S = {k \in Nat : g[k + 1] \in Nat}  OBVIOUS
  <2>2. 0 \in S  BY <1>8, <2>1
  <2>3. ASSUME NEW k \in 0 .. n - 1, k \in S PROVE k + 1 \in S
    <3>1. k \in Nat /\ k + 1 \in 1 .. n /\ g[k + 1] \in Nat  BY <2>1, <2>3
    <3>2. g[(k + 1) + 1] = g[k + 1] + sizes[k + 1] /\ sizes[k + 1] \in Nat  BY <1>7, <3>1
    <3> QED  BY <2>1, <3>1, <3>2
  <2>4. 0 .. n \subseteq S  BY <2>2, <2>3, OneByOneUpTo
  <2> QED  BY <2>1, <2>4
<1>10. \A i \in 1 .. n + 1 : g[i] \in Nat
  <2> SUFFICES ASSUME NEW i \in 1 .. n + 1 PROVE g[i] \in Nat  OBVIOUS
  <2>1. i - 1 \in 0 .. n /\ (i - 1) + 1 = i  OBVIOUS
  <2> QED  BY <1>9, <2>1
<1>11. g \in [1 .. n + 1 -> Nat]  BY <1>1, <1>5, <1>10
<1> QED  BY <1>4, <1>7, <1>8, <1>11

\* And, where no size is 0, later ones begin later.
LEMMA OffsetsGrow ==
  ASSUME NEW n \in Nat, NEW g \in [1 .. n + 1 -> Nat],
         \A i \in 1 .. n : g[i] < g[i + 1]
  PROVE  \A i, j \in 1 .. n + 1 : i < j => g[i] < g[j]
<1> SUFFICES ASSUME NEW i \in 1 .. n + 1 PROVE \A j \in 1 .. n + 1 : i < j => g[i] < g[j]
  OBVIOUS
<1>1. PICK S : S = {k \in Nat : (k + 1 \in 1 .. n + 1 /\ i < k + 1) => g[i] < g[k + 1]}  OBVIOUS
<1>2. 0 \in S  BY <1>1
<1>3. ASSUME NEW k \in Nat, k \in S PROVE k + 1 \in S
  <2> SUFFICES ASSUME k + 2 \in 1 .. n + 1, i < k + 2 PROVE g[i] < g[k + 2]  BY <1>1
  <2>1. k + 1 \in 1 .. n /\ g[k + 1] < g[(k + 1) + 1]  OBVIOUS
  <2>2. g[i] \in Nat /\ g[k + 1] \in Nat /\ g[k + 2] \in Nat  BY <2>1
  <2>3. CASE i = k + 1  BY <2>1, <2>3
  <2>4. CASE i < k + 1  BY <1>1, <1>3, <2>1, <2>2, <2>4
  <2> QED  BY <2>3, <2>4
<1>4. Nat \subseteq S  BY <1>2, <1>3, OneByOne
<1> SUFFICES ASSUME NEW j \in 1 .. n + 1, i < j PROVE g[i] < g[j]  OBVIOUS
<1>5. j - 1 \in S /\ (j - 1) + 1 = j  BY <1>4
<1> QED  BY <1>1, <1>5
-----------------------------------------------------------------------------
(* The names of an archive: AddName and ArchiveNames.                        *)

Numbered(u, n) == Append(Stem[u], ToString(n))

\* Different numbers make different names, however they are cased.
LEMMA NumbersTellApart ==
  ASSUME NEW u \in Upload, NEW m \in 2 .. Cardinality(Upload) + 2, NEW n \in 2 .. Cardinality(Upload) + 2,
         FoldName(Numbered(u, m)) = FoldName(Numbered(u, n))
  PROVE  m = n
<1>1. Stem[u] \in Seq(STRING)  BY NamesAssumption
<1>2. PICK k \in Nat : k = Len(Stem[u])  BY <1>1
<1>3. /\ DOMAIN Numbered(u, m) = 1 .. k + 1 /\ Numbered(u, m)[k + 1] = ToString(m)
      /\ DOMAIN Numbered(u, n) = 1 .. k + 1 /\ Numbered(u, n)[k + 1] = ToString(n)
  BY <1>1, <1>2 DEF Numbered
<1>4. ToString(m) \notin DOMAIN Folded /\ ToString(n) \notin DOMAIN Folded  BY DigitsAssumption
<1>5. FoldName(Numbered(u, m))[k + 1] = ToString(m)  BY <1>2, <1>3, <1>4 DEF FoldName
<1>6. FoldName(Numbered(u, n))[k + 1] = ToString(n)  BY <1>2, <1>3, <1>4 DEF FoldName
<1>7. ToString(m) = ToString(n)  BY <1>5, <1>6
<1> QED  BY <1>7, DigitsAssumption

\* So one more number than there are names is enough to find one that is free.
LEMMA OneNumberIsFree ==
  ASSUME NEW l \in Nat, l <= Cardinality(Upload), NEW names \in [1 .. l -> Seq(STRING)],
         NEW u \in Upload
  PROVE  \E n \in 2 .. l + 2 : \A i \in 1 .. l : FoldName(names[i]) # FoldName(Numbered(u, n))
<1> SUFFICES ASSUME \A n \in 2 .. l + 2 : \E i \in 1 .. l : FoldName(names[i]) = FoldName(Numbered(u, n))
             PROVE  FALSE
  OBVIOUS
<1>1. PICK c : c = [n \in 2 .. l + 2 |->
                     CHOOSE i \in 1 .. l : FoldName(names[i]) = FoldName(Numbered(u, n))]
  OBVIOUS
<1>2. \A n \in 2 .. l + 2 : c[n] \in 1 .. l /\ FoldName(names[c[n]]) = FoldName(Numbered(u, n))
  BY <1>1
<1>3. c \in [2 .. l + 2 -> 1 .. l]  BY <1>1, <1>2
<1>4. Cardinality(Upload) \in Nat  BY NamesAssumption, FS_CardinalityType
<1>5. /\ IsFiniteSet(1 .. l) /\ Cardinality(1 .. l) = l
      /\ IsFiniteSet(2 .. l + 2) /\ Cardinality(2 .. l + 2) = l + 1
  <2>1. IsFiniteSet(1 .. l) /\ Cardinality(1 .. l) = IF 1 > l THEN 0 ELSE l - 1 + 1  BY FS_Interval
  <2>2. IsFiniteSet(2 .. l + 2) /\ Cardinality(2 .. l + 2) = IF 2 > l + 2 THEN 0 ELSE (l + 2) - 2 + 1
    BY FS_Interval
  <2> QED  BY <2>1, <2>2
<1>6. PICK m \in 2 .. l + 2, n \in 2 .. l + 2 : m # n /\ c[m] = c[n]
  <2>1. Cardinality(1 .. l) < Cardinality(2 .. l + 2)  BY <1>5
  <2> QED  BY <1>3, <1>5, <2>1, FS_PigeonHole
<1>7. FoldName(Numbered(u, m)) = FoldName(Numbered(u, n))  BY <1>2, <1>6
<1>8. m \in 2 .. Cardinality(Upload) + 2 /\ n \in 2 .. Cardinality(Upload) + 2  BY <1>4
<1> QED  BY <1>6, <1>7, <1>8, NumbersTellApart

\* A file's name is none of those taken, however they are cased.
LEMMA AddedNameIsNew ==
  ASSUME NEW l \in Nat, l <= Cardinality(Upload), NEW names \in [1 .. l -> Seq(STRING)],
         NEW u \in Upload
  PROVE  \E name \in Seq(STRING) :
           /\ AddName(names, u) = Append(names, name)
           /\ \A i \in 1 .. l : FoldName(names[i]) # FoldName(name)
<1>1. Len(names) = l /\ DOMAIN names = 1 .. l  OBVIOUS
<1>2. \A name : Taken(name, Range(names)) <=> \E i \in 1 .. l : FoldName(names[i]) = FoldName(name)
  BY <1>1 DEF Taken, Range
<1>3. PICK free : free = {n \in 2 .. Len(names) + 2 : ~Taken(Append(Stem[u], ToString(n)), Range(names))}
  OBVIOUS
<1>4. AddName(names, u) = Append(names, IF ~Taken(Stem[u], Range(names)) THEN Stem[u]
                                        ELSE Append(Stem[u], ToString(Min(free))))
  BY <1>3, Zenon DEF AddName
<1>5. CASE ~Taken(Stem[u], Range(names))
  <2>1. Stem[u] \in Seq(STRING)  BY NamesAssumption
  <2> QED  BY <1>2, <1>4, <1>5, <2>1
<1>6. CASE Taken(Stem[u], Range(names))
  <2>1. PICK n \in 2 .. l + 2 : \A i \in 1 .. l : FoldName(names[i]) # FoldName(Numbered(u, n))
    BY OneNumberIsFree
  <2>2. n \in free  BY <1>1, <1>2, <1>3, <2>1 DEF Numbered
  <2>3. free # {} /\ free \subseteq Nat  BY <1>1, <1>3, <2>2
  <2>4. Min(free) \in free  BY <2>3, OneIsLeast DEF Min
  <2>5. Append(Stem[u], ToString(Min(free))) \in Seq(STRING)
    <3>1. Stem[u] \in Seq(STRING)  BY NamesAssumption
    <3>2. Cardinality(Upload) \in Nat  BY NamesAssumption, FS_CardinalityType
    <3>3. Min(free) \in 2 .. Cardinality(Upload) + 2  BY <1>1, <1>3, <2>4, <3>2
    <3>4. ToString(Min(free)) \in STRING  BY <3>3, DigitsAssumption
    <3> QED  BY <3>1, <3>4
  <2> QED  BY <1>2, <1>3, <1>4, <1>6, <2>4, <2>5
<1> QED  BY <1>5, <1>6

DifferentNames(names, l) ==
  /\ names \in [1 .. l -> Seq(STRING)]
  /\ \A i, j \in 1 .. l : i # j => FoldName(names[i]) # FoldName(names[j])

LEMMA OneMoreName ==
  ASSUME NEW l \in Nat, l <= Cardinality(Upload), NEW names, DifferentNames(names, l), NEW u \in Upload
  PROVE  DifferentNames(AddName(names, u), l + 1)
<1>1. names \in [1 .. l -> Seq(STRING)]  BY DEF DifferentNames
<1>2. PICK name \in Seq(STRING) :
        /\ AddName(names, u) = Append(names, name)
        /\ \A i \in 1 .. l : FoldName(names[i]) # FoldName(name)
  BY <1>1, AddedNameIsNew
<1>3. PICK more : more = Append(names, name)  OBVIOUS
<1>4. /\ more \in [1 .. l + 1 -> Seq(STRING)]
      /\ more[l + 1] = name
      /\ \A i \in 1 .. l : more[i] = names[i]
  <2>1. names \in Seq(Seq(STRING)) /\ Len(names) = l  BY <1>1
  <2>2. more \in Seq(Seq(STRING)) /\ Len(more) = l + 1  BY <1>3, <2>1
  <2>3. more \in [1 .. l + 1 -> Seq(STRING)]  BY <2>2
  <2>4. more[l + 1] = name /\ \A i \in 1 .. l : more[i] = names[i]  BY <1>3, <2>1
  <2> QED  BY <2>3, <2>4
<1>5. ASSUME NEW i \in 1 .. l + 1, NEW j \in 1 .. l + 1, i # j
      PROVE  FoldName(more[i]) # FoldName(more[j])
  <2>1. CASE i \in 1 .. l /\ j \in 1 .. l  BY <1>4, <1>5, <2>1 DEF DifferentNames
  <2>2. CASE i = l + 1 /\ j \in 1 .. l  BY <1>2, <1>4, <2>2
  <2>3. CASE j = l + 1 /\ i \in 1 .. l  BY <1>2, <1>4, <2>3
  <2> QED  BY <1>5, <2>1, <2>2, <2>3
<1> QED  BY <1>2, <1>3, <1>4, <1>5 DEF DifferentNames

LEMMA NamesAreGiven ==
  ASSUME NEW n \in Nat, NEW files
  PROVE  \E f : f = [k \in 0 .. n |-> IF k = 0 THEN <<>> ELSE AddName(f[k - 1], files[k])]
<1>1. PICK S : S = {m \in Nat :
        \E f : f = [k \in 0 .. m |-> IF k = 0 THEN <<>> ELSE AddName(f[k - 1], files[k])]}
  OBVIOUS
<1>2. 0 \in S
  <2>1. PICK f : f = [k \in 0 .. 0 |-> <<>>]  OBVIOUS
  <2>2. f = [k \in 0 .. 0 |-> IF k = 0 THEN <<>> ELSE AddName(f[k - 1], files[k])]  BY <2>1
  <2> QED  BY <1>1, <2>2, Zenon
<1>3. ASSUME NEW m \in Nat, m \in S PROVE m + 1 \in S
  <2>1. PICK f : f = [k \in 0 .. m |-> IF k = 0 THEN <<>> ELSE AddName(f[k - 1], files[k])]
    BY <1>1, <1>3, Zenon
  <2>2. PICK g : g = [k \in 0 .. m + 1 |-> IF k \in 0 .. m THEN f[k] ELSE AddName(f[m], files[m + 1])]
    OBVIOUS
  <2>3. ASSUME NEW k \in 0 .. m + 1
        PROVE  g[k] = IF k = 0 THEN <<>> ELSE AddName(g[k - 1], files[k])
    <3>1. CASE k \in 0 .. m
      <4>1. g[k] = f[k] /\ (k # 0 => g[k - 1] = f[k - 1])  BY <2>2, <3>1
      <4> QED  BY <2>1, <3>1, <4>1
    <3>2. CASE k = m + 1
      <4>1. k - 1 = m /\ g[m] = f[m] /\ g[k] = AddName(f[m], files[k]) /\ k # 0  BY <2>2, <3>2
      <4> QED  BY <4>1
    <3> QED  BY <3>1, <3>2
  <2>4. g = [k \in 0 .. m + 1 |-> IF k = 0 THEN <<>> ELSE AddName(g[k - 1], files[k])]
    BY <2>2, <2>3
  <2>5. m + 1 \in Nat  OBVIOUS
  <2> QED  BY <1>1, <2>4, <2>5, Zenon
<1>4. n \in S  BY <1>2, <1>3, OneByOne
<1> QED  BY <1>1, <1>4, Zenon

\* The archive's names differ, however they are cased, and each file has one.
LEMMA ArchiveNamesDiffer ==
  ASSUME NEW n \in Nat, n <= Cardinality(Upload), NEW files \in [1 .. n -> Upload]
  PROVE  DifferentNames(ArchiveNames(files), n)
<1>2. Len(files) = n  OBVIOUS
<1>3. PICK f : f = [k \in 0 .. Len(files) |-> IF k = 0 THEN <<>> ELSE AddName(f[k - 1], files[k])]
  BY <1>2, NamesAreGiven, Zenon
<1>4. PICK g : g = CHOOSE h : h = [k \in 0 .. Len(files) |-> IF k = 0 THEN <<>> ELSE AddName(h[k - 1], files[k])]
  OBVIOUS
<1>5. g = [k \in 0 .. Len(files) |-> IF k = 0 THEN <<>> ELSE AddName(g[k - 1], files[k])]
  BY <1>3, <1>4, Zenon
<1>6. ArchiveNames(files) = g[n]  BY <1>2, <1>4, Zenon DEF ArchiveNames
<1>7. g[0] = <<>> /\ \A k \in 1 .. n : g[k] = AddName(g[k - 1], files[k])  BY <1>2, <1>5
<1>8. PICK S : S = {k \in Nat : DifferentNames(g[k], k)}  OBVIOUS
<1>9. 0 \in S
  <2>1. DifferentNames(<<>>, 0)  BY DEF DifferentNames
  <2> QED  BY <1>7, <1>8, <2>1
<1>10. ASSUME NEW k \in 0 .. n - 1, k \in S PROVE k + 1 \in S
  <2>1. k + 1 \in 1 .. n /\ (k + 1) - 1 = k /\ k \in Nat /\ DifferentNames(g[k], k)  BY <1>8, <1>10
  <2>2. Cardinality(Upload) \in Nat  BY NamesAssumption, FS_CardinalityType
  <2>3. k <= Cardinality(Upload) /\ files[k + 1] \in Upload  BY <2>1, <2>2
  <2>4. g[k + 1] = AddName(g[k], files[k + 1])  BY <1>7, <2>1
  <2>5. DifferentNames(g[k + 1], k + 1)  BY <2>1, <2>3, <2>4, OneMoreName
  <2> QED  BY <1>8, <2>5
<1>11. n \in S
  <2>1. 0 .. n \subseteq S  BY <1>9, <1>10, OneByOneUpTo
  <2> QED  BY <2>1
<1> QED  BY <1>6, <1>8, <1>11
-----------------------------------------------------------------------------
(* An archive, and what an unzipper makes of it.                             *)

\* A field that is wide enough keeps its number.
LEMMA WideEnough ==
  ASSUME NEW a \in Nat, NEW b \in Nat \ {0}, a < b PROVE a % b = a
OBVIOUS

\* Entries as the saving page makes them: names that differ, each with a document.
Entries(entries, n) ==
  \E names, files :
    /\ DifferentNames(names, n) /\ files \in [1 .. n -> Upload]
    /\ entries = [i \in 1 .. n |-> [name |-> names[i], doc |-> files[i]]]

LocalRecord(entries, i) ==
  [at |-> LocalOffsets(entries)[i], sig |-> "local", name |-> entries[i].name, doc |-> entries[i].doc]
CentralRecord(entries, i) ==
  [at |-> CentralOffsets(entries)[i], sig |-> "central", name |-> entries[i].name,
   offset |-> LocalOffsets(entries)[i] % Word32]
EndRecord(entries) ==
  [at |-> CentralOffsets(entries)[Len(entries) + 1], sig |-> "end",
   count |-> Len(entries) % Word16, directory |-> DirectoryOffset(entries) % Word32]

LEMMA ArchiveRecords ==
  ASSUME NEW entries
  PROVE  ZipArchive(entries) = {LocalRecord(entries, i) : i \in DOMAIN entries}
                               \union {CentralRecord(entries, i) : i \in DOMAIN entries}
                               \union {EndRecord(entries)}
BY Zenon DEF ZipArchive, LocalRecord, CentralRecord, EndRecord

LEMMA EntrySizes ==
  ASSUME NEW n \in Nat, NEW entries, Entries(entries, n)
  PROVE  /\ Len(entries) = n /\ DOMAIN entries = 1 .. n
         /\ \A i \in 1 .. n : /\ entries[i].name \in Seq(STRING) /\ entries[i].doc \in Upload
                              /\ Len(entries[i].name) \in Nat
                              /\ LocalSize(entries[i]) \in Nat /\ LocalSize(entries[i]) > 0
                              /\ CentralSize(entries[i]) \in Nat /\ CentralSize(entries[i]) > 0
<1>1. PICK names, files :
        /\ DifferentNames(names, n) /\ files \in [1 .. n -> Upload]
        /\ entries = [i \in 1 .. n |-> [name |-> names[i], doc |-> files[i]]]
  BY DEF Entries
<1>2. names \in [1 .. n -> Seq(STRING)]  BY <1>1 DEF DifferentNames
<1>3. Len(entries) = n /\ DOMAIN entries = 1 .. n  BY <1>1
<1>4. ASSUME NEW i \in 1 .. n
      PROVE  /\ entries[i].name \in Seq(STRING) /\ entries[i].doc \in Upload
             /\ Len(entries[i].name) \in Nat
             /\ LocalSize(entries[i]) \in Nat /\ LocalSize(entries[i]) > 0
             /\ CentralSize(entries[i]) \in Nat /\ CentralSize(entries[i]) > 0
  <2>1. entries[i].name \in Seq(STRING) /\ entries[i].doc \in Upload  BY <1>1, <1>2
  <2>2. Len(entries[i].name) \in Nat /\ DataLen[entries[i].doc] \in Nat
    BY <2>1, LengthAssumption
  <2>3. PICK l \in Nat, d \in Nat : l = Len(entries[i].name) /\ d = DataLen[entries[i].doc]  BY <2>2
  <2>4. LocalSize(entries[i]) = 30 + l + d /\ CentralSize(entries[i]) = 46 + l
    BY <2>3, Zenon DEF LocalSize, CentralSize
  <2>5. /\ 30 + l + d \in Nat /\ 30 + l + d > 0
        /\ 46 + l \in Nat /\ 46 + l > 0
    OBVIOUS
  <2>6. /\ LocalSize(entries[i]) \in Nat /\ LocalSize(entries[i]) > 0
        /\ CentralSize(entries[i]) \in Nat /\ CentralSize(entries[i]) > 0
    BY <2>4, <2>5, Zenon
  <2> QED  BY <2>1, <2>2, <2>6, Zenon
<1> QED  BY <1>3, <1>4

\* Both tables of offsets: each entry begins where the one before it ends, and so
\* later ones begin later.
LEMMA WhereEntriesAre ==
  ASSUME NEW n \in Nat, NEW entries, Entries(entries, n)
  PROVE  /\ LocalOffsets(entries) \in [1 .. n + 1 -> Nat]
         /\ CentralOffsets(entries) \in [1 .. n + 1 -> Nat]
         /\ CentralOffsets(entries)[1] = DirectoryOffset(entries)
         /\ \A i \in 1 .. n : CentralOffsets(entries)[i + 1] = CentralOffsets(entries)[i] + CentralSize(entries[i])
         /\ \A i, j \in 1 .. n + 1 : i < j => /\ LocalOffsets(entries)[i] < LocalOffsets(entries)[j]
                                            /\ CentralOffsets(entries)[i] < CentralOffsets(entries)[j]
<1>1. PICK sizes : sizes = [i \in 1 .. n |-> LocalSize(entries[i])]  OBVIOUS
<1>2. sizes \in [1 .. n -> Nat]  BY <1>1, EntrySizes
<1>3. LocalOffsets(entries) = Offsets(0, sizes)  BY <1>1, EntrySizes, Zenon DEF LocalOffsets
<1>4. PICK local : local = LocalOffsets(entries)  OBVIOUS
<1>5. local \in [1 .. n + 1 -> Nat] /\ \A i \in 1 .. n : local[i + 1] = local[i] + sizes[i]
  <2>1. 0 \in Nat  OBVIOUS
  <2>2. /\ Offsets(0, sizes) \in [1 .. n + 1 -> Nat]
        /\ \A i \in 1 .. n : Offsets(0, sizes)[i + 1] = Offsets(0, sizes)[i] + sizes[i]
    BY <1>2, <2>1, OffsetsAdd, Zenon
  <2> QED  BY <1>3, <1>4, <2>2, Zenon
<1>6. \A i \in 1 .. n : local[i] < local[i + 1]
  <2> SUFFICES ASSUME NEW i \in 1 .. n PROVE local[i] < local[i + 1]  OBVIOUS
  <2>1. local[i] \in Nat /\ sizes[i] \in Nat /\ sizes[i] > 0  BY <1>1, <1>5, EntrySizes
  <2>2. local[i + 1] = local[i] + sizes[i]  BY <1>5
  <2> QED  BY <2>1, <2>2
<1>7. \A i, j \in 1 .. n + 1 : i < j => local[i] < local[j]  BY <1>5, <1>6, OffsetsGrow
<1>8. PICK directory : directory = DirectoryOffset(entries)  OBVIOUS
<1>9. directory \in Nat
  <2>1. directory = local[n + 1] /\ n + 1 \in 1 .. n + 1
    BY <1>4, <1>8, EntrySizes DEF DirectoryOffset
  <2> QED  BY <1>5, <2>1
<1>10. PICK csizes : csizes = [i \in 1 .. n |-> CentralSize(entries[i])]  OBVIOUS
<1>11. csizes \in [1 .. n -> Nat]  BY <1>10, EntrySizes
<1>12. CentralOffsets(entries) = Offsets(directory, csizes)
  BY <1>8, <1>10, EntrySizes, Zenon DEF CentralOffsets
<1>13. PICK central : central = CentralOffsets(entries)  OBVIOUS
<1>14. /\ central \in [1 .. n + 1 -> Nat] /\ central[1] = directory
       /\ \A i \in 1 .. n : central[i + 1] = central[i] + csizes[i]
  <2>1. /\ Offsets(directory, csizes) \in [1 .. n + 1 -> Nat] /\ Offsets(directory, csizes)[1] = directory
        /\ \A i \in 1 .. n :
             Offsets(directory, csizes)[i + 1] = Offsets(directory, csizes)[i] + csizes[i]
    BY <1>9, <1>11, OffsetsAdd, Zenon
  <2> QED  BY <1>12, <1>13, <2>1, Zenon
<1>15. \A i \in 1 .. n : central[i] < central[i + 1]
  <2> SUFFICES ASSUME NEW i \in 1 .. n PROVE central[i] < central[i + 1]  OBVIOUS
  <2>1. central[i] \in Nat /\ csizes[i] \in Nat /\ csizes[i] > 0  BY <1>10, <1>14, EntrySizes
  <2>2. central[i + 1] = central[i] + csizes[i]  BY <1>14
  <2> QED  BY <2>1, <2>2
<1>16. \A i, j \in 1 .. n + 1 : i < j => central[i] < central[j]  BY <1>14, <1>15, OffsetsGrow
<1>17. \A i \in 1 .. n : central[i + 1] = central[i] + CentralSize(entries[i])  BY <1>10, <1>14
<1> QED  BY <1>4, <1>5, <1>7, <1>8, <1>13, <1>14, <1>16, <1>17

\* What is found is what an unzipper finds from the end, by the directory.
StartsOf(archive, end) == CHOOSE h : h = [i \in 1 .. end.count |->
  IF i = 1 THEN end.directory
  ELSE h[i - 1] + 46 + (LET here == {r \in archive : r.at = h[i - 1] /\ r.sig = "central"}
                        IN IF here = {} THEN 0 ELSE Len((CHOOSE r \in here : TRUE).name))]
ListedIn(archive, end, starts) ==
  {r \in archive : r.sig = "central" /\ \E i \in 1 .. end.count : r.at = starts[i]}
FoundIn(archive, listed) ==
  {[name |-> found[1].name, doc |-> found[2].doc] :
     found \in {p \in listed \X {r \in archive : r.sig = "local"} :
                     p[2].at = p[1].offset /\ p[2].name = p[1].name}}

EndOf(archive) == CHOOSE r \in archive : r.sig = "end"

LEMMA UnzipByDirectory ==
  ASSUME NEW archive
  PROVE  Unzip(archive) = FoundIn(archive, ListedIn(archive, EndOf(archive), StartsOf(archive, EndOf(archive))))
BY Zenon DEF Unzip, FoundIn, ListedIn, StartsOf, EndOf

\* Whoever unpacks an archive whose sizes fit the fields finds every entry, and
\* nothing else.
LEMMA UnzipFindsEntries ==
  ASSUME NEW n \in Nat, NEW entries, Entries(entries, n), Fits(entries)
  PROVE  Unzip(ZipArchive(entries)) = {entries[i] : i \in 1 .. n}
<1>1. Len(entries) = n /\ DOMAIN entries = 1 .. n  BY EntrySizes
<1>2. PICK local, central, directory :
        /\ local = LocalOffsets(entries) /\ central = CentralOffsets(entries)
        /\ directory = DirectoryOffset(entries)
  OBVIOUS
<1>3. /\ local \in [1 .. n + 1 -> Nat] /\ central \in [1 .. n + 1 -> Nat]
      /\ central[1] = directory
      /\ \A i \in 1 .. n : central[i + 1] = central[i] + CentralSize(entries[i])
      /\ \A i, j \in 1 .. n + 1 : i < j => local[i] < local[j] /\ central[i] < central[j]
  BY <1>2, WhereEntriesAre
<1>31. \A i, j \in 1 .. n : (local[i] = local[j] \/ central[i] = central[j]) => i = j
  <2> SUFFICES ASSUME NEW i \in 1 .. n, NEW j \in 1 .. n, i # j
               PROVE  local[i] # local[j] /\ central[i] # central[j]
    OBVIOUS
  <2>1. /\ i \in 1 .. n + 1 /\ j \in 1 .. n + 1 /\ (i < j \/ j < i)
        /\ local[i] \in Nat /\ local[j] \in Nat /\ central[i] \in Nat /\ central[j] \in Nat
    BY <1>3
  <2>2. (i < j => local[i] < local[j]) /\ (j < i => local[j] < local[i])  BY <1>3, <2>1
  <2>3. (i < j => central[i] < central[j]) /\ (j < i => central[j] < central[i])  BY <1>3, <2>1
  <2> QED  BY <2>1, <2>2, <2>3
<1>4. directory = local[n + 1]  BY <1>1, <1>2 DEF DirectoryOffset
<1>5. /\ n % Word16 = n /\ directory % Word32 = directory
      /\ \A i \in 1 .. n : local[i] % Word32 = local[i]
  <2>1. Word16 \in Nat \ {0} /\ Word32 \in Nat \ {0}  BY KeysAssumption
  <2>2. n < Word16 /\ directory < Word32  BY <1>1, <1>2 DEF Fits
  <2>3. directory \in Nat  BY <1>3, <1>4
  <2>4. ASSUME NEW i \in 1 .. n PROVE local[i] % Word32 = local[i]
    <3>1. i \in 1 .. n + 1 /\ n + 1 \in 1 .. n + 1 /\ i < n + 1  OBVIOUS
    <3>2. local[i] \in Nat /\ local[i] < directory  BY <1>3, <1>4, <3>1
    <3>3. local[i] < Word32  BY <2>1, <2>2, <2>3, <3>2
    <3> QED  BY <2>1, <3>2, <3>3, WideEnough
  <2> QED  BY <2>1, <2>2, <2>3, <2>4, WideEnough
<1>6. PICK L, C, end :
        /\ L = [i \in 1 .. n |-> LocalRecord(entries, i)]
        /\ C = [i \in 1 .. n |-> CentralRecord(entries, i)]
        /\ end = EndRecord(entries)
  OBVIOUS
<1>7. /\ end.sig = "end" /\ end.count = n /\ end.directory = directory
      /\ \A i \in 1 .. n : /\ L[i].sig = "local" /\ L[i].at = local[i]
                           /\ L[i].name = entries[i].name /\ L[i].doc = entries[i].doc
                           /\ C[i].sig = "central" /\ C[i].at = central[i]
                           /\ C[i].name = entries[i].name /\ C[i].offset = local[i]
  BY <1>1, <1>2, <1>5, <1>6 DEF LocalRecord, CentralRecord, EndRecord
<1>8. PICK archive : archive = ZipArchive(entries)  OBVIOUS
<1>9. archive = {L[i] : i \in 1 .. n} \union {C[i] : i \in 1 .. n} \union {end}
  BY <1>1, <1>6, <1>8, ArchiveRecords
<1>10. {r \in archive : r.sig = "local"} = {L[i] : i \in 1 .. n}  BY <1>7, <1>9
<1>11. \A i \in 1 .. n : {r \in archive : r.at = central[i] /\ r.sig = "central"} = {C[i]}
  <2> SUFFICES ASSUME NEW i \in 1 .. n
               PROVE  {r \in archive : r.at = central[i] /\ r.sig = "central"} = {C[i]}
    OBVIOUS
  <2>1. C[i] \in archive /\ C[i].at = central[i] /\ C[i].sig = "central"  BY <1>7, <1>9
  <2>2. ASSUME NEW r \in archive, r.at = central[i], r.sig = "central" PROVE r = C[i]
    <3>1. PICK j \in 1 .. n : r = C[j]  BY <1>7, <1>9, <2>2
    <3>2. central[j] = central[i]  BY <1>7, <2>2, <3>1
    <3>3. i = j  BY <1>31, <3>2
    <3> QED  BY <3>1, <3>3
  <2> QED  BY <2>1, <2>2
<1>12. end = CHOOSE r \in archive : r.sig = "end"
  <2>1. \A r \in archive : r.sig = "end" => r = end  BY <1>7, <1>9
  <2>2. end \in archive  BY <1>9
  <2> QED  BY <1>7, <2>1, <2>2
<1> DEFINE Follow(h, i) ==
      IF i = 1 THEN end.directory
      ELSE h[i - 1] + 46 + (LET here == {r \in archive : r.at = h[i - 1] /\ r.sig = "central"}
                            IN IF here = {} THEN 0 ELSE Len((CHOOSE r \in here : TRUE).name))
<1>13. PICK starts : starts = StartsOf(archive, end)  OBVIOUS
<1>32. starts = CHOOSE h : h = [i \in 1 .. end.count |-> Follow(h, i)]  BY <1>13, Zenon DEF StartsOf
<1>14. ASSUME NEW h, NEW i \in 2 .. n, h[i - 1] = central[i - 1]
       PROVE  Follow(h, i) = central[i]
  <2>1. i - 1 \in 1 .. n /\ (i - 1) + 1 = i /\ i # 1  OBVIOUS
  <2>2. {r \in archive : r.at = h[i - 1] /\ r.sig = "central"} = {C[i - 1]}  BY <1>11, <1>14, <2>1
  <2>3. (CHOOSE r \in {C[i - 1]} : TRUE) = C[i - 1] /\ {C[i - 1]} # {}  OBVIOUS
  <2>4. Follow(h, i) = central[i - 1] + 46 + Len(entries[i - 1].name)
    <3>1. Follow(h, i) = h[i - 1] + 46 + Len(C[i - 1].name)  BY <2>1, <2>2, <2>3, Zenon
    <3> QED  BY <1>7, <1>14, <2>1, <3>1
  <2>5. central[i] = central[i - 1] + (46 + Len(entries[i - 1].name))
    BY <1>3, <2>1 DEF CentralSize
  <2>6. central[i - 1] \in Nat
    <3>1. i - 1 \in 1 .. n + 1  OBVIOUS
    <3> QED  BY <1>3, <3>1
  <2>7. Len(entries[i - 1].name) \in Nat  BY <2>1, EntrySizes
  <2> QED  BY <2>4, <2>5, <2>6, <2>7
<1>15. ASSUME NEW h, NEW i, i = 1 PROVE Follow(h, i) = directory  BY <1>7, <1>15
<1> HIDE DEF Follow
<1>16. starts = [i \in 1 .. n |-> Follow(starts, i)]
  <2>1. PICK f : f = [i \in 1 .. n |-> central[i]]  OBVIOUS
  <2>2. ASSUME NEW i \in 1 .. n PROVE f[i] = Follow(f, i)
    <3>1. CASE i = 1  BY <1>3, <1>15, <2>1, <3>1
    <3>2. CASE i # 1
      <4>1. i \in 2 .. n /\ f[i - 1] = central[i - 1]  BY <2>1, <3>2
      <4> QED  BY <1>14, <2>1, <4>1
    <3> QED  BY <3>1, <3>2
  <2>3. f = [i \in 1 .. n |-> Follow(f, i)]  BY <2>1, <2>2
  <2>4. f = [i \in 1 .. end.count |-> Follow(f, i)]  BY <1>7, <2>3, Zenon
  <2>5. starts = [i \in 1 .. end.count |-> Follow(starts, i)]  BY <1>32, <2>4, Zenon
  <2> QED  BY <1>7, <2>5, Zenon
<1>17. \A i \in 1 .. n : starts[i] = central[i]
  <2>1. PICK S : S = {k \in Nat : k + 1 <= n => starts[k + 1] = central[k + 1]}  OBVIOUS
  <2>2. 0 \in S  BY <1>3, <1>15, <1>16, <2>1
  <2>3. ASSUME NEW k \in Nat, k \in S PROVE k + 1 \in S
    <3> SUFFICES ASSUME k + 2 <= n PROVE starts[k + 2] = central[k + 2]  BY <2>1
    <3>1. starts[k + 1] = central[k + 1]  BY <2>1, <2>3
    <3>2. k + 2 \in 2 .. n /\ k + 2 \in 1 .. n /\ (k + 2) - 1 = k + 1  OBVIOUS
    <3>3. starts[k + 2] = Follow(starts, k + 2)  BY <1>16, <3>2
    <3> QED  BY <1>14, <3>1, <3>2, <3>3
  <2>4. Nat \subseteq S  BY <2>2, <2>3, OneByOne
  <2> SUFFICES ASSUME NEW i \in 1 .. n PROVE starts[i] = central[i]  OBVIOUS
  <2>5. i - 1 \in S /\ (i - 1) + 1 = i /\ i <= n  BY <2>4
  <2> QED  BY <2>1, <2>5
<1>18. PICK listed : listed = ListedIn(archive, end, starts)  OBVIOUS
<1>19. listed = {C[i] : i \in 1 .. n}
  <2>1. ASSUME NEW r \in listed PROVE r \in {C[i] : i \in 1 .. n}  BY <1>7, <1>9, <1>18 DEF ListedIn
  <2>2. ASSUME NEW i \in 1 .. n PROVE C[i] \in listed  BY <1>7, <1>9, <1>17, <1>18 DEF ListedIn
  <2> QED  BY <2>1, <2>2
<1>20. Unzip(archive) = FoundIn(archive, listed)
  BY <1>12, <1>13, <1>18, UnzipByDirectory, Zenon DEF EndOf
<1>21. {p \in listed \X {r \in archive : r.sig = "local"} : p[2].at = p[1].offset /\ p[2].name = p[1].name}
         = {<<C[i], L[i]>> : i \in 1 .. n}
  <2>1. ASSUME NEW i \in 1 .. n, NEW j \in 1 .. n, L[j].at = C[i].offset PROVE i = j
    <3>1. local[j] = local[i]  BY <1>7, <2>1
    <3> QED  BY <1>31, <3>1
  <2>2. \A i \in 1 .. n : L[i].at = C[i].offset /\ L[i].name = C[i].name  BY <1>7
  <2> QED  BY <1>10, <1>19, <2>1, <2>2
<1>22. \A i \in 1 .. n : [name |-> C[i].name, doc |-> L[i].doc] = entries[i]
  <2>1. PICK names, files : entries = [i \in 1 .. n |-> [name |-> names[i], doc |-> files[i]]]
    BY DEF Entries
  <2> QED  BY <1>7, <2>1
<1>23. FoundIn(archive, listed) = {[name |-> C[i].name, doc |-> L[i].doc] : i \in 1 .. n}
  <2>1. PICK pairs : pairs = {<<C[i], L[i]>> : i \in 1 .. n}  OBVIOUS
  <2>2. FoundIn(archive, listed) = {[name |-> found[1].name, doc |-> found[2].doc] : found \in pairs}
    BY <1>21, <2>1, Zenon DEF FoundIn
  <2>3. ASSUME NEW found \in pairs
        PROVE  \E i \in 1 .. n : found[1] = C[i] /\ found[2] = L[i]
    BY <2>1
  <2>4. ASSUME NEW i \in 1 .. n
        PROVE  <<C[i], L[i]>> \in pairs /\ <<C[i], L[i]>>[1] = C[i] /\ <<C[i], L[i]>>[2] = L[i]
    BY <2>1
  <2>5. ASSUME NEW x \in FoundIn(archive, listed)
        PROVE  x \in {[name |-> C[i].name, doc |-> L[i].doc] : i \in 1 .. n}
    <3>1. PICK found \in pairs : x = [name |-> found[1].name, doc |-> found[2].doc]  BY <2>2, <2>5
    <3>2. PICK i \in 1 .. n : found[1] = C[i] /\ found[2] = L[i]  BY <2>3
    <3> QED  BY <3>1, <3>2
  <2>6. ASSUME NEW i \in 1 .. n
        PROVE  [name |-> C[i].name, doc |-> L[i].doc] \in FoundIn(archive, listed)
    <3>1. PICK found \in pairs : found[1] = C[i] /\ found[2] = L[i]  BY <2>4
    <3> QED  BY <2>2, <3>1
  <2> QED  BY <2>5, <2>6
<1>24. {[name |-> C[i].name, doc |-> L[i].doc] : i \in 1 .. n} = {entries[i] : i \in 1 .. n}
  BY <1>22
<1> QED  BY <1>8, <1>20, <1>23, <1>24

-----------------------------------------------------------------------------
(* The archive of the saving page: ArchiveIsWhole.                           *)

\* A list of the page is one of files, none of them twice.
LEMMA ListsAreOfFiles ==
  ASSUME NEW files \in Listing
  PROVE  /\ Len(files) \in Nat /\ Len(files) <= Cardinality(Upload)
         /\ files \in [1 .. Len(files) -> Upload]
         /\ \A i, j \in 1 .. Len(files) : files[i] = files[j] => i = j
<1>1. Cardinality(Upload) \in Nat  BY NamesAssumption, FS_CardinalityType
<1>2. PICK n \in 1 .. Cardinality(Upload) : files \in [1 .. n -> Upload]  BY DEF Listing
<1>3. Len(files) = n /\ n \in Nat /\ n <= Cardinality(Upload)  BY <1>1, <1>2
<1>4. IsInjective(files)  BY DEF Listing
<1>5. \A i, j \in DOMAIN files : files[i] = files[j] => i = j  BY <1>4 DEF IsInjective
<1> QED  BY <1>2, <1>3, <1>5

\* The first k entries, as the page makes them.
EntriesOf(files, k) == [i \in 1 .. k |-> [name |-> ArchiveNames(files)[i], doc |-> files[i]]]

LEMMA EntriesAreEntries ==
  ASSUME NEW files \in Listing PROVE Entries(EntriesOf(files, Len(files)), Len(files))
<1>1. DifferentNames(ArchiveNames(files), Len(files))
  BY ListsAreOfFiles, ArchiveNamesDiffer
<1>2. PICK n : n = Len(files)  OBVIOUS
<1>3. PICK names : names = ArchiveNames(files)  OBVIOUS
<1>4. PICK entries : entries = EntriesOf(files, n)  OBVIOUS
<1>5. DifferentNames(names, n)  BY <1>1, <1>2, <1>3
<1>6. files \in [1 .. n -> Upload]  BY <1>2, ListsAreOfFiles
<1>7. entries = [i \in 1 .. n |-> [name |-> names[i], doc |-> files[i]]]
  BY <1>3, <1>4 DEF EntriesOf
<1>8. \E some, of : /\ DifferentNames(some, n) /\ of \in [1 .. n -> Upload]
                    /\ entries = [i \in 1 .. n |-> [name |-> some[i], doc |-> of[i]]]
  BY <1>5, <1>6, <1>7, Zenon
<1>9. Entries(entries, n)  BY <1>8, Zenon DEF Entries
<1> QED  BY <1>2, <1>4, <1>9

\* While files are fetched those before the next are entries already; when an archive
\* is saved every file of the page's list is.
SavingInv ==
  /\ shown \in Listing \union {<<>>}
  /\ records \subseteq [kind : {"pbkdf2"}, key : Key, phrase : Phrase]
  /\ tabKeys \subseteq Key
  /\ tab = [at |-> tab.at, todo |-> tab.todo, entries |-> tab.entries, archive |-> tab.archive]
  /\ tab.at \in {"idle", "fetching", "saved", "nothing packed"}
  /\ tab.at = "fetching" =>
       /\ shown \in Listing
       /\ \E k \in 0 .. Len(shown) :
            /\ tab.todo = [i \in 1 .. Len(shown) - k |-> shown[k + i]]
            /\ tab.entries = EntriesOf(shown, k)
  /\ tab.at = "saved" =>
       /\ shown \in Listing
       /\ tab.entries = EntriesOf(shown, Len(shown))
       /\ tab.archive = ZipArchive(tab.entries)

\* What the page opens of a file is that file's document.
LEMMA OpensItsOwn ==
  ASSUME MovingInv, SavingInv, NEW u \in Upload, NEW d \in DecryptWithKeys(tabKeys, rows[u].envelope)
  PROVE  d = u
<1>1. PICK k \in tabKeys : d \in DecryptEnvelope(k, rows[u].envelope)  BY DEF DecryptWithKeys
<1>2. rows[u].envelope.key = k /\ d = rows[u].envelope.doc  BY <1>1 DEF DecryptEnvelope
<1>3. rows[u].envelope.key # NoKey
  <2>1. NoKey \notin Key  BY KeysAssumption DEF Key, NoKey
  <2> QED  BY <1>2, <2>1 DEF SavingInv
<1>4. rows[u].envelope = EncryptFile(rows[u].key, u)  BY <1>3 DEF MovingInv, MovedFilesOpen
<1>5. rows[u].envelope.doc = u  BY <1>4 DEF EncryptFile
<1> QED  BY <1>2, <1>5

\* The page is at rest, or has given up.
LEMMA RestingIsSound ==
  ASSUME records' \subseteq [kind : {"pbkdf2"}, key : Key, phrase : Phrase], tabKeys' \subseteq Key,
         NEW at \in {"idle", "nothing packed"}, tab' = [NoTab EXCEPT !.at = at],
         shown' \in Listing \union {<<>>}
  PROVE  SavingInv'
<1>1. tab' = [at |-> at, todo |-> <<>>, entries |-> <<>>, archive |-> {}]  BY DEF NoTab
<1>2. /\ tab'.at = at
      /\ tab' = [at |-> tab'.at, todo |-> tab'.todo, entries |-> tab'.entries, archive |-> tab'.archive]
  BY <1>1
<1> QED  BY <1>1, <1>2 DEF SavingInv

LEMMA SaveAllKeeps ==
  ASSUME SavingInv, SaveAll PROVE SavingInv'
<1>1. PICK files \in Listing :
        /\ shown' = files /\ tab' = [NoTab EXCEPT !.at = "fetching", !.todo = files]
        /\ UNCHANGED <<records, tabKeys>>
  BY DEF SaveAll
<1>2. tab' = [at |-> "fetching", todo |-> files, entries |-> <<>>, archive |-> {}]
  BY <1>1 DEF NoTab
<1>3. tab'.at = "fetching" /\ tab'.todo = files /\ tab'.entries = <<>> /\ tab'.archive = {}
  BY <1>2
<1>4. 0 \in 0 .. Len(files)  BY ListsAreOfFiles
<1>5. files = [i \in 1 .. Len(files) - 0 |-> files[0 + i]]  BY ListsAreOfFiles
<1>6. <<>> = EntriesOf(files, 0)  BY DEF EntriesOf
<1>7. /\ shown' \in Listing
      /\ \E k \in 0 .. Len(shown') :
           /\ tab'.todo = [i \in 1 .. Len(shown') - k |-> shown'[k + i]]
           /\ tab'.entries = EntriesOf(shown', k)
  <2>1. shown' = files  BY <1>1
  <2>2. /\ tab'.todo = [i \in 1 .. Len(files) - 0 |-> files[0 + i]]
        /\ tab'.entries = EntriesOf(files, 0)
    BY <1>3, <1>5, <1>6
  <2>3. \E k \in 0 .. Len(files) :
           /\ tab'.todo = [i \in 1 .. Len(files) - k |-> files[k + i]]
           /\ tab'.entries = EntriesOf(files, k)
    BY <1>4, <2>2
  <2> QED  BY <2>1, <2>3, Zenon
<1>8. records' \subseteq [kind : {"pbkdf2"}, key : Key, phrase : Phrase] /\ tabKeys' \subseteq Key
  BY <1>1 DEF SavingInv
<1>9. tab' = [at |-> tab'.at, todo |-> tab'.todo, entries |-> tab'.entries, archive |-> tab'.archive]
  BY <1>2, <1>3
<1>10. tab'.at = "fetching"  BY <1>3
<1> QED  BY <1>7, <1>8, <1>9, <1>10 DEF SavingInv

LEMMA OpenNextKeeps ==
  ASSUME MovingInv, SavingInv, OpenNext PROVE SavingInv'
<1>1. tab.at = "fetching" /\ tab.todo # <<>> /\ UNCHANGED <<records, shown, tabKeys>>
  BY DEF OpenNext
<1>14. shown \in Listing  BY <1>1 DEF SavingInv
<1>2. PICK n \in Nat : n = Len(shown)  BY <1>14, ListsAreOfFiles
<1>3. PICK k \in 0 .. n :
        /\ tab.todo = [i \in 1 .. n - k |-> shown[k + i]]
        /\ tab.entries = EntriesOf(shown, k)
  BY <1>1, <1>2 DEF SavingInv
<1>4. shown \in [1 .. n -> Upload] /\ Len(shown) = n  BY <1>2, <1>14, ListsAreOfFiles
<1>5. k < n
  <2>1. k = n => tab.todo = <<>>  BY <1>3
  <2> QED  BY <1>1, <2>1
<1>6. /\ Len(tab.todo) = n - k /\ Head(tab.todo) = shown[k + 1] /\ k + 1 \in 1 .. n
      /\ Tail(tab.todo) = [i \in 1 .. n - (k + 1) |-> shown[(k + 1) + i]]
  <2>1. tab.todo \in Seq(Upload) /\ Len(tab.todo) = n - k  BY <1>3, <1>4
  <2>2. Head(tab.todo) = shown[k + 1]  BY <1>3, <1>5, <2>1
  <2>3. Tail(tab.todo) = [i \in 1 .. (n - k) - 1 |-> tab.todo[i + 1]]  BY <1>5, <2>1
  <2>4. \A i \in 1 .. (n - k) - 1 : tab.todo[i + 1] = shown[(k + 1) + i]  BY <1>3, <1>5
  <2>5. (n - k) - 1 = n - (k + 1) /\ k + 1 \in 1 .. n  BY <1>5
  <2>6. Tail(tab.todo) = [i \in 1 .. n - (k + 1) |-> shown[(k + 1) + i]]  BY <2>3, <2>4, <2>5
  <2> QED  BY <2>1, <2>2, <2>5, <2>6, Zenon
<1>10. PICK u \in Upload : u = shown[k + 1]  BY <1>4, <1>6
<1>7. PICK name, plain :
        /\ u = shown[k + 1] /\ name = ArchiveNames(shown)[k + 1]
        /\ plain = DecryptWithKeys(tabKeys, rows[u].envelope)
        /\ IF plain = {} THEN CannotOpen
           ELSE tab' = [tab EXCEPT !.todo = Tail(@),
                          !.entries = Append(@, [name |-> name, doc |-> CHOOSE d \in plain : TRUE])]
  <2>1. Head(tab.todo) = u /\ Len(shown) - Len(tab.todo) + 1 = k + 1  BY <1>4, <1>6, <1>10
  <2> QED  BY <1>10, <2>1, Zenon DEF OpenNext
<1>8. CASE plain = {}
  <2>1. tab' = [NoTab EXCEPT !.at = "nothing packed"]  BY <1>7, <1>8 DEF CannotOpen, Nothing
  <2> QED  BY <1>1, <2>1, RestingIsSound DEF SavingInv
<1>9. CASE plain # {}
  <2>1. (CHOOSE d \in plain : TRUE) = u  BY <1>7, <1>9, OpensItsOwn
  <2>2. PICK entries : entries = Append(tab.entries, [name |-> name, doc |-> u])  OBVIOUS
  <2>3. tab' = [at |-> "fetching", todo |-> Tail(tab.todo), entries |-> entries, archive |-> tab.archive]
    <3>1. tab' = [tab EXCEPT !.todo = Tail(tab.todo), !.entries = entries]
      BY <1>7, <1>9, <2>1, <2>2, Zenon
    <3>2. tab = [at |-> "fetching", todo |-> tab.todo, entries |-> tab.entries, archive |-> tab.archive]
      BY <1>1 DEF SavingInv
    <3>5. /\ tab["at"] = "fetching" /\ tab["todo"] = tab.todo
          /\ tab["entries"] = tab.entries /\ tab["archive"] = tab.archive
      BY <1>1
    <3>3. DOMAIN tab = {"at", "todo", "entries", "archive"}  BY <3>2
    <3>4. tab' = [f \in {"at", "todo", "entries", "archive"} |->
                    IF f = "entries" THEN entries ELSE IF f = "todo" THEN Tail(tab.todo) ELSE tab[f]]
      BY <3>1, <3>3, Zenon
    <3> QED  BY <3>4, <3>5
  <2>4. entries = EntriesOf(shown, k + 1)
    <3>1. PICK e : e = EntriesOf(shown, k)  OBVIOUS
    <3>2. PICK V : V = {e[i] : i \in 1 .. k} \union {[name |-> name, doc |-> u]}  OBVIOUS
    <3>3. e \in Seq(V) /\ Len(e) = k /\ DOMAIN e = 1 .. k  BY <3>1, <3>2 DEF EntriesOf
    <3>4. entries = [i \in 1 .. k + 1 |-> IF i = k + 1 THEN [name |-> name, doc |-> u] ELSE e[i]]
      BY <1>3, <2>2, <3>1, <3>2, <3>3
    <3>5. \A i \in 1 .. k + 1 : (IF i = k + 1 THEN [name |-> name, doc |-> u] ELSE e[i])
                                  = [name |-> ArchiveNames(shown)[i], doc |-> shown[i]]
      <4> SUFFICES ASSUME NEW i \in 1 .. k + 1
                   PROVE (IF i = k + 1 THEN [name |-> name, doc |-> u] ELSE e[i])
                                  = [name |-> ArchiveNames(shown)[i], doc |-> shown[i]]
        OBVIOUS
      <4>1. i # k + 1 => e[i] = [name |-> ArchiveNames(shown)[i], doc |-> shown[i]]
        BY <3>1 DEF EntriesOf
      <4> QED  BY <1>7, <4>1
    <3> QED  BY <3>4, <3>5, Zenon DEF EntriesOf
  <2>5. /\ tab'.at = "fetching" /\ tab'.todo = Tail(tab.todo) /\ tab'.entries = entries
        /\ tab'.archive = tab.archive
    BY <2>3
  <2>6. k + 1 \in 0 .. Len(shown)  BY <1>2, <1>5
  <2> QED  BY <1>1, <1>2, <1>6, <2>3, <2>4, <2>5, <2>6 DEF SavingInv
<1> QED  BY <1>8, <1>9

LEMMA KeysComeAndGo ==
  ASSUME MovingInv, SavingInv, (Rotate \/ \E k \in Key : Retire(k)) PROVE SavingInv'
<1>1. UNCHANGED <<shown, tabKeys, tab>>  BY DEF Rotate, Retire
<1>2. records' \subseteq [kind : {"pbkdf2"}, key : Key, phrase : Phrase]
  <2>1. CASE Rotate
    <3>1. current + 1 \in Key  BY <2>1, KeysAssumption DEF Rotate, MovingInv, Key
    <3>2. PICK p \in Phrase : records' = records \union {WrapPkcs8(current + 1, p)}
      BY <2>1 DEF Rotate
    <3>3. WrapPkcs8(current + 1, p) \in [kind : {"pbkdf2"}, key : Key, phrase : Phrase]
      BY <3>1 DEF WrapPkcs8
    <3> QED  BY <3>2, <3>3 DEF SavingInv
  <2>2. ASSUME NEW k \in Key, Retire(k)
        PROVE  records' \subseteq [kind : {"pbkdf2"}, key : Key, phrase : Phrase]
    BY <2>2 DEF Retire, SavingInv
  <2> QED  BY <2>1, <2>2
<1> QED  BY <1>1, <1>2 DEF SavingInv

LEMMA UnlockKeeps == ASSUME SavingInv, Unlock PROVE SavingInv'
<1>1. /\ UNCHANGED <<records, shown, tab>>
      /\ \E p \in Phrase : tabKeys' = UNION {UnwrapPracticeKey(r, p) : r \in records}
  BY DEF Unlock
<1>2. \A r \in records, p \in Phrase : UnwrapPracticeKey(r, p) \subseteq Key
  BY DEF SavingInv, UnwrapPracticeKey
<1>3. tabKeys' \subseteq Key  BY <1>1, <1>2
<1> QED  BY <1>1, <1>3 DEF SavingInv

LEMMA PackAndSaveKeeps == ASSUME SavingInv, PackAndSave PROVE SavingInv'
<1>1. /\ tab.at = "fetching" /\ tab.todo = <<>> /\ UNCHANGED <<records, shown, tabKeys>>
      /\ tab' = [tab EXCEPT !.at = "saved", !.archive = ZipArchive(tab.entries)]
  BY DEF PackAndSave
<1>14. shown \in Listing  BY <1>1 DEF SavingInv
<1>2. PICK n \in Nat : n = Len(shown)  BY <1>14, ListsAreOfFiles
<1>3. PICK k \in 0 .. n : tab.todo = [i \in 1 .. n - k |-> shown[k + i]] /\ tab.entries = EntriesOf(shown, k)
  BY <1>1, <1>2 DEF SavingInv
<1>4. k = n
  <2>1. \A t : t = <<>> => Len(t) = 0  OBVIOUS
  <2>2. shown \in [1 .. n -> Upload]  BY <1>2, <1>14, ListsAreOfFiles
  <2>3. Len(tab.todo) = n - k  BY <1>3, <2>2
  <2> QED  BY <1>1, <2>1, <2>3
<1>5. PICK archive : archive = ZipArchive(tab.entries)  OBVIOUS
<1>6. tab' = [at |-> "saved", todo |-> tab.todo, entries |-> tab.entries, archive |-> archive]
  <2>1. tab = [at |-> tab.at, todo |-> tab.todo, entries |-> tab.entries, archive |-> tab.archive]
    BY DEF SavingInv
  <2>2. DOMAIN tab = {"at", "todo", "entries", "archive"}  BY <2>1
  <2>3. tab' = [f \in {"at", "todo", "entries", "archive"} |->
                  IF f = "archive" THEN archive ELSE IF f = "at" THEN "saved" ELSE tab[f]]
    BY <1>1, <1>5, <2>2, Zenon
  <2>4. tab["todo"] = tab.todo /\ tab["entries"] = tab.entries  OBVIOUS
  <2> QED  BY <2>3, <2>4
<1>7. tab'.at = "saved" /\ tab'.entries = tab.entries /\ tab'.archive = archive /\ tab'.todo = tab.todo
  BY <1>6
<1> QED  BY <1>1, <1>2, <1>3, <1>4, <1>5, <1>6, <1>7 DEF SavingInv

\* Whatever other pages do meanwhile, the entries of the saving page are the files
\* it lists, in their order, each under its own name and with its own document
\* (web/download.js, the click handler).
THEOREM SavingInvariant == PracticePageSpec => []SavingInv
<1>1. PracticePageInit => SavingInv
  <2> SUFFICES ASSUME PracticePageInit PROVE SavingInv  OBVIOUS
  <2>1. records \subseteq [kind : {"pbkdf2"}, key : Key, phrase : Phrase] /\ tabKeys \subseteq Key
    BY KeysAssumption DEF PracticePageInit, WrapPkcs8, Key
  <2>2. tab = [at |-> "idle", todo |-> <<>>, entries |-> <<>>, archive |-> {}]
    BY DEF PracticePageInit, NoTab
  <2>3. tab.at = "idle" /\ tab = [at |-> tab.at, todo |-> tab.todo, entries |-> tab.entries, archive |-> tab.archive]
    BY <2>2
  <2>4. shown = <<>>  BY DEF PracticePageInit
  <2>5. shown \in Listing \union {<<>>}  BY <2>4, Zenon
  <2> QED  BY <2>1, <2>3, <2>5 DEF SavingInv
<1>2. MovingInv /\ SavingInv /\ [PracticePageNext]_practicePageVars => SavingInv'
  <2> SUFFICES ASSUME MovingInv, SavingInv, [PracticePageNext]_practicePageVars PROVE SavingInv'
    OBVIOUS
  <2>1. CASE UNCHANGED <<records, shown, tabKeys, tab>>  BY <2>1 DEF SavingInv
  <2>2. CASE FetchFails
    BY <2>2, RestingIsSound DEF FetchFails, Nothing, SavingInv
  <2>3. CASE CloseTab
    <3>1. records' = records /\ tabKeys' = {} /\ tab' = NoTab /\ shown' = <<>>  BY <2>3 DEF CloseTab
    <3>2. NoTab = [NoTab EXCEPT !.at = "idle"]  BY DEF NoTab
    <3>3. records' \subseteq [kind : {"pbkdf2"}, key : Key, phrase : Phrase] /\ tabKeys' \subseteq Key
      BY <3>1 DEF SavingInv
    <3>4. tab' = [NoTab EXCEPT !.at = "idle"]  BY <3>1, <3>2, Zenon
    <3> QED  BY <3>1, <3>3, <3>4, RestingIsSound
  <2>4. ASSUME NEW m \in Mover, (\E k \in Key : StartMoving(m, k)) \/ Moves(m) \/ MoverEnds(m)
        PROVE  UNCHANGED <<records, shown, tabKeys, tab>>
    BY <2>4 DEF StartMoving, Moves, AskWhatIsLeft, Reseal, Post, MoverEnds
  <2>5. CASE UNCHANGED practicePageVars  BY <2>1, <2>5 DEF practicePageVars
  <2> QED
    BY <2>1, <2>2, <2>3, <2>4, <2>5, KeysComeAndGo, UnlockKeeps, SaveAllKeeps, OpenNextKeeps,
       PackAndSaveKeeps DEF PracticePageNext
<1> QED  BY <1>1, <1>2, MovingInvariant, PTL DEF PracticePageSpec

\* The fields of the practice's pages have the values they may have.
THEOREM PracticePageTypes == PracticePageSpec => []PracticePageTypeOK
<1>1. MovingInv /\ SavingInv => PracticePageTypeOK
  BY DEF MovingInv, SavingInv, PracticePageTypeOK, Envelopes, Moving
<1> QED  BY <1>1, MovingInvariant, SavingInvariant, PTL

\* Whoever unpacks a saved archive whose sizes fit the format's fields finds every file
\* the page listed once, and no other, with its own document, under a name no other has
\* however it is cased (web/zip.js; addFile in src/board-views.js), however many files
\* there are. A withdrawn document's files are not listed.
THEOREM ArchivesAreWhole == PracticePageSpec => []ArchiveIsWhole
<1>1. ASSUME SavingInv, tab.at = "saved", Fits(tab.entries)
      PROVE  LET found == Unzip(tab.archive) IN
               /\ {e.doc : e \in found} = Range(shown)
               /\ Cardinality(found) = Len(shown)
               /\ \A e, f \in found : e.doc # f.doc => FoldName(e.name) # FoldName(f.name)
  <2>1. PICK files \in Listing : files = shown  BY <1>1 DEF SavingInv
  <2>2. PICK n \in Nat : n = Len(files) /\ n <= Cardinality(Upload)  BY ListsAreOfFiles
  <2>3. PICK entries : entries = EntriesOf(files, n)  OBVIOUS
  <2>4. tab.archive = ZipArchive(entries) /\ Fits(entries)  BY <1>1, <2>1, <2>2, <2>3 DEF SavingInv
  <2>5. Entries(entries, n)  BY <2>2, <2>3, EntriesAreEntries
  <2>6. PICK found : found = Unzip(tab.archive)  OBVIOUS
  <2>7. found = {entries[i] : i \in 1 .. n}  BY <2>4, <2>5, <2>6, UnzipFindsEntries
  <2>8. PICK names : names = ArchiveNames(files)  OBVIOUS
  <2>9. /\ files \in [1 .. n -> Upload] /\ DOMAIN files = 1 .. n
        /\ \A i, j \in 1 .. n : files[i] = files[j] => i = j
    BY <2>2, ListsAreOfFiles
  <2>10. DifferentNames(names, n)  BY <2>2, <2>8, <2>9, ArchiveNamesDiffer
  <2>11. \A i \in 1 .. n : entries[i].name = names[i] /\ entries[i].doc = files[i]
    BY <2>3, <2>8 DEF EntriesOf
  <2>12. {e.doc : e \in found} = Range(files)
    <3>1. {e.doc : e \in found} = {files[i] : i \in 1 .. n}  BY <2>7, <2>11
    <3>2. Range(files) = {files[i] : i \in 1 .. n}  BY <2>9 DEF Range
    <3> QED  BY <3>1, <3>2
  <2>13. Cardinality(found) = n
    <3>1. \A i, j \in 1 .. n : entries[i] = entries[j] => i = j  BY <2>9, <2>11
    <3>2. PICK b : b = [i \in 1 .. n |-> entries[i]]  OBVIOUS
    <3>3. b \in Bijection(1 .. n, found)
      BY <2>7, <3>1, <3>2 DEF Bijection, Injection, Surjection, IsInjective
    <3>4. ExistsBijection(1 .. n, found)  BY <3>3 DEF ExistsBijection
    <3> QED  BY <3>4, FS_CountingElements
  <2>14. ASSUME NEW e \in found, NEW f \in found, e.doc # f.doc
         PROVE  FoldName(e.name) # FoldName(f.name)
    <3>1. PICK i \in 1 .. n, j \in 1 .. n : e = entries[i] /\ f = entries[j]  BY <2>7
    <3>2. i # j /\ e.name = names[i] /\ f.name = names[j]  BY <2>11, <2>14, <3>1
    <3> QED  BY <2>10, <3>2 DEF DifferentNames
  <2> QED  BY <2>1, <2>2, <2>6, <2>12, <2>13, <2>14
<1>2. SavingInv => ArchiveIsWhole  BY <1>1, Zenon DEF ArchiveIsWhole
<1> QED  BY <1>2, SavingInvariant, PTL
=============================================================================
